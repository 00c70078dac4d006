----------------------------- MODULE MountingProofs -----------------------------
(***************************************************************************)
(* What Mounting promises for any number of disks, whatever they hold.     *)
(***************************************************************************)
EXTENDS Mounting, TLAPS

-----------------------------------------------------------------------------
(* The flag of fs.c and the descriptor of disk.c.                          *)

(* is_disk_mounted is set exactly while disk.c has a host file open: no    *)
(* call of fs_mount, failed or not, and no fs_umount lets them part.       *)
THEOREM FlagCorrect == MountSpec => []FlagFollowsDevice
<1>1. MountInit => FlagFollowsDevice
  BY DEF MountInit, ProcessStart, DiskInit, FlagFollowsDevice, DiskOpen
<1>2. FlagFollowsDevice /\ [MountNext]_mountVars => FlagFollowsDevice'
  <2> SUFFICES ASSUME FlagFollowsDevice, [MountNext]_mountVars
               PROVE  FlagFollowsDevice'
    OBVIOUS
  <2> USE DEF FlagFollowsDevice, DiskOpen
  <2>1. ASSUME NEW h \in Hosts, LoadDisk(h) PROVE FlagFollowsDevice'
    BY <2>1, HostsAssumption DEF LoadDisk, block_disk_open
  <2>2. ASSUME UNCHANGED <<disk_fd, is_disk_mounted>> PROVE FlagFollowsDevice'
    BY <2>2
  <2>3. ASSUME EndProcess PROVE FlagFollowsDevice'
    BY <2>3 DEF EndProcess
  <2>4. ASSUME NEW h \in Hosts,
               MountOddSize(h) \/ MountNoSuperblock(h) \/ MountBadSuperblock(h)
                 \/ MountBadFat(h) \/ MountBadRoot(h) \/ MountOk(h)
        PROVE  FlagFollowsDevice'
    <3>1. CASE MountOddSize(h)
      BY <3>1, <2>2 DEF MountOddSize, OpenOddSize, memVars
    <3>2. CASE ~MountOddSize(h)
      BY <3>2, <2>4, <2>1
         DEF MountNoSuperblock, MountBadSuperblock, MountBadFat, MountBadRoot, MountOk
    <3> QED
      BY <3>1, <3>2
  <2>5. CASE SessionCall
    BY <2>5, <2>2 DEF SessionCall, diskVars
  <2>6. CASE SaveFatBlock
    BY <2>6, <2>2 DEF SaveFatBlock, NumSaved, block_write
  <2>7. CASE SaveRoot
    BY <2>7, <2>2 DEF SaveRoot, NumSaved, block_write
  <2>8. CASE EndUmount
    BY <2>8 DEF EndUmount, block_disk_close
  <2>9. CASE UmountFailed \/ UmountDangling \/ Kill
    BY <2>9, <2>3 DEF UmountFailed, UmountDangling, Kill
  <2>10. CASE UNCHANGED mountVars
    BY <2>10, <2>2 DEF mountVars, diskVars, memVars
  <2> QED
    BY <2>4, <2>5, <2>6, <2>7, <2>8, <2>9, <2>10 DEF MountNext
<1> QED
  BY <1>1, <1>2, PTL DEF MountSpec

-----------------------------------------------------------------------------
(* Writing blocks of a host file.                                          *)

(* The other fields stay.                                                  *)
LEMMA NewBlocks ==
  ASSUME NEW file, IsHostFile(file), NEW blocks
  PROVE  [file EXCEPT !.block = blocks]
           = [count |-> file.count, tail |-> file.tail, block |-> blocks]
<1>1. PICK c, t, bl : file = [count |-> c, tail |-> t, block |-> bl]
  BY DEF IsHostFile
<1> QED
  BY <1>1

(* Blocks are written and the superblock among them stays: the file keeps  *)
(* its shape.                                                              *)
LEMMA WriteKeepsFile ==
  ASSUME NEW file, IsHostFile(file), NEW blocks,
         blocks = [b \in 0 .. file.count - 1 |-> blocks[b]],
         file.count > 0 => AsSuper(blocks[0]) = AsSuper(file.block[0])
  PROVE  LET new == [file EXCEPT !.block = blocks] IN
         /\ IsHostFile(new)
         /\ new.count = file.count
         /\ new.tail = file.tail
         /\ new.block = blocks
<1> DEFINE new == [count |-> file.count, tail |-> file.tail, block |-> blocks]
<1>1. [file EXCEPT !.block = blocks] = new
  BY NewBlocks
<1>2. IsHostFile(new)
  BY DEF IsHostFile
<1> QED
  BY <1>1, <1>2

(* Junk is not taken for a superblock that says where tables are.          *)
LEMMA JunkSuper ==
  /\ AsSuper([kind |-> "junk"]).num_fat_blocks = 0
  /\ AsSuper([kind |-> "junk"]).root_index = 0
BY DEF AsSuper, ZeroSuper

LEMMA JunkKeepsFile ==
  ASSUME NEW file, IsHostFile(file), NEW B
  PROVE  LET new == [file EXCEPT !.block =
               [b \in DOMAIN @ |-> IF b \in B THEN [kind |-> "junk"] ELSE @[b]]]
         IN  IsHostFile(new) /\ new.count = file.count /\ new.tail = file.tail
<1> DEFINE blocks == [b \in DOMAIN file.block |->
                        IF b \in B THEN [kind |-> "junk"] ELSE file.block[b]]
           new == [count |-> file.count, tail |-> file.tail, block |-> blocks]
<1>1. [file EXCEPT !.block = blocks] = new
  BY NewBlocks
<1>2. DOMAIN file.block = 0 .. file.count - 1
  BY DEF IsHostFile
<1>3. blocks = [b \in 0 .. file.count - 1 |-> blocks[b]]
  BY <1>2
<1>4. file.count > 0 => blocks[0] \in {[kind |-> "junk"], file.block[0]}
  BY <1>2 DEF IsHostFile
<1>5. file.count > 0 => /\ AsSuper(blocks[0]).num_fat_blocks \in Nat
                        /\ AsSuper(blocks[0]).root_index \in Nat
  BY <1>4, JunkSuper DEF IsHostFile
<1> HIDE DEF blocks
<1>6. IsHostFile(new)
  BY <1>3, <1>5 DEF IsHostFile
<1> QED
  BY <1>1, <1>6 DEF blocks

-----------------------------------------------------------------------------
(* Whatever is in memory was read from the open disk: as long as sb is     *)
(* live it is the superblock still on that disk, and the live tables are   *)
(* its tables.                                                             *)
HostTyped ==
  /\ host = [h \in Hosts |-> host[h]]
  /\ \A h \in Hosts : IsHostFile(host[h])
  /\ DiskOpen => disk_fd \in Hosts /\ bcount = host[disk_fd].count

SuperOnDisk ==
  sb.mem = "live" =>
    /\ DiskOpen
    /\ host[disk_fd].count > 0
    /\ sb.val = Super(disk_fd)
    /\ Accepts(sb.val, host[disk_fd].count)

TablesOfSuper ==
  /\ fat.mem = "live" \/ loaded => sb.mem = "live"
  /\ saving \in Nat \/ saving = NotSaving

ImageInv == HostTyped /\ SuperOnDisk /\ TablesOfSuper

LEMMA ImageInit == MountInit => ImageInv
<1> SUFFICES ASSUME MountInit PROVE ImageInv
  OBVIOUS
<1>1. HostTyped
  BY HostFilesAssumption DEF MountInit, DiskInit, DiskOpen, HostTyped
<1>2. SuperOnDisk /\ TablesOfSuper
  BY DEF MountInit, ProcessStart, Null, NotSaving, SuperOnDisk, TablesOfSuper
<1> QED
  BY <1>1, <1>2 DEF ImageInv

(* One block of the volume is written.                                     *)
LEMMA BlockWritten ==
  ASSUME ImageInv, sb.mem = "live", NEW b \in 1 .. host[disk_fd].count - 1, NEW contents,
         block_write(b, contents)
  PROVE  /\ HostTyped'
         /\ Super(disk_fd)' = Super(disk_fd)
         /\ host'[disk_fd].count = host[disk_fd].count
         /\ host'[disk_fd].tail = host[disk_fd].tail
         /\ host'[disk_fd].block[b] = contents
         /\ \A h \in Hosts : h # disk_fd => host'[h] = host[h]
         /\ \A h \in Hosts : \A x \in DOMAIN host[h].block :
              host'[h].block[x] # host[h].block[x] => h = disk_fd /\ x = b
<1> DEFINE file == host[disk_fd]
           blocks == [file.block EXCEPT ![b] = contents]
           new == [file EXCEPT !.block = blocks]
<1>1. /\ DiskOpen /\ disk_fd \in Hosts /\ bcount = file.count
      /\ IsHostFile(file)
      /\ DOMAIN host = Hosts
  BY DEF ImageInv, HostTyped, SuperOnDisk
<1>2. file.count \in Nat /\ DOMAIN file.block = 0 .. file.count - 1
  BY <1>1 DEF IsHostFile
<1>3. InBounds(b)
  BY <1>1, <1>2 DEF InBounds
<1>4. host' = [host EXCEPT ![disk_fd] = new] /\ UNCHANGED <<disk_fd, bcount>>
  BY <1>3 DEF block_write
<1>5. blocks = [x \in 0 .. file.count - 1 |-> blocks[x]]
  BY <1>2
<1>6. \A x \in 0 .. file.count - 1 : x # b => blocks[x] = file.block[x]
  BY <1>2
<1>7. file.count > 0 => blocks[0] = file.block[0]
  BY <1>6, <1>2
<1>14. blocks[b] = contents
  BY <1>2
<1> HIDE DEF blocks
<1>8. IsHostFile(new) /\ new.count = file.count /\ new.tail = file.tail /\ new.block = blocks
  BY <1>1, <1>5, <1>7, WriteKeepsFile
<1> HIDE DEF new, file
<1>9. host'[disk_fd] = new /\ \A h \in Hosts : h # disk_fd => host'[h] = host[h]
  BY <1>1, <1>4
<1>10. host' = [h \in Hosts |-> host'[h]]
  BY <1>1, <1>4
<1>11. HostTyped'
  BY <1>1, <1>4, <1>8, <1>9, <1>10 DEF HostTyped, DiskOpen, ImageInv, file
<1>12. Super(disk_fd)' = Super(disk_fd)
  <2>1. file.count > 0
    BY <1>2 DEF file
  <2> QED
    BY <2>1, <1>4, <1>7, <1>8, <1>9 DEF Super, file
<1>13. \A h \in Hosts : \A x \in DOMAIN host[h].block :
         host'[h].block[x] # host[h].block[x] => h = disk_fd /\ x = b
  BY <1>2, <1>6, <1>8, <1>9 DEF file
<1> QED
  BY <1>8, <1>9, <1>11, <1>12, <1>13, <1>14 DEF file

(* What an fs_umount that has reached a block of the volume may write.     *)
LEMMA FatBlockWritten ==
  ASSUME ImageInv, SaveFatBlock
  PROVE  LET b == NumSaved + 1 IN
         /\ b \in 1 .. host[disk_fd].count - 1
         /\ b \in 1 .. Super(disk_fd).num_fat_blocks
         /\ \E contents : block_write(b, contents)
<1> DEFINE i == NumSaved
<1>1. sb.mem = "live"
  BY DEF ImageInv, TablesOfSuper, SaveFatBlock, NumSaved
<1>2. /\ DiskOpen /\ disk_fd \in Hosts
      /\ host[disk_fd].count \in Nat /\ host[disk_fd].count > 0
      /\ sb.val = Super(disk_fd)
      /\ Super(disk_fd).num_fat_blocks \in Nat
      /\ Super(disk_fd).num_fat_blocks < host[disk_fd].count
  BY <1>1 DEF ImageInv, HostTyped, SuperOnDisk, IsHostFile, Accepts, Super
<1>3. i \in Nat
  BY DEF ImageInv, TablesOfSuper, NotSaving, NumSaved
<1>4. i < Super(disk_fd).num_fat_blocks
  BY <1>2 DEF SaveFatBlock, NumSaved
<1>5. \E contents : block_write(i + 1, contents)
  BY DEF SaveFatBlock, NumSaved
<1> QED
  BY <1>2, <1>3, <1>4, <1>5

LEMMA RootWritten ==
  ASSUME ImageInv, SaveRoot
  PROVE  \/ /\ Super(disk_fd).root_index \in 1 .. host[disk_fd].count - 1
            /\ block_write(Super(disk_fd).root_index, SavedRootBlock(root.val))
         \/ UNCHANGED diskVars
<1>1. sb.mem = "live"
  BY DEF ImageInv, TablesOfSuper, SaveRoot, NumSaved
<1>2. /\ DiskOpen /\ disk_fd \in Hosts /\ bcount = host[disk_fd].count
      /\ host[disk_fd].count \in Nat
      /\ sb.val = Super(disk_fd)
      /\ Super(disk_fd).root_index \in Nat \ {0}
  <2>1. /\ DiskOpen /\ disk_fd \in Hosts /\ bcount = host[disk_fd].count
        /\ host[disk_fd].count > 0 /\ IsHostFile(host[disk_fd])
        /\ sb.val = Super(disk_fd) /\ Accepts(sb.val, host[disk_fd].count)
    BY <1>1 DEF ImageInv, HostTyped, SuperOnDisk
  <2>2. host[disk_fd].count \in Nat /\ Super(disk_fd).root_index \in Nat
    BY <2>1 DEF IsHostFile, Super
  <2>3. Super(disk_fd).root_index # 0
    BY <2>1, <2>2 DEF Accepts
  <2> QED
    BY <2>1, <2>2, <2>3
<1>3. block_write(Super(disk_fd).root_index, SavedRootBlock(root.val))
  BY <1>2 DEF SaveRoot, NumSaved
<1>4. CASE Super(disk_fd).root_index < host[disk_fd].count
  BY <1>2, <1>3, <1>4
<1>5. CASE ~(Super(disk_fd).root_index < host[disk_fd].count)
  BY <1>2, <1>3, <1>5 DEF block_write, InBounds, diskVars
<1> QED
  BY <1>4, <1>5

(* fs_umount after a failed mount writes the FAT back as it was read.      *)
LEMMA FailedWritten ==
  ASSUME ImageInv, UmountFailed, fat.mem = "live"
  PROVE  /\ disk_fd \in Hosts /\ sb.val = Super(disk_fd)
         /\ \A h \in Hosts : h # disk_fd => host'[h] = host[h]
         /\ host' = [h \in Hosts |-> host'[h]]
         /\ IsHostFile(host'[disk_fd])
         /\ host'[disk_fd].count = host[disk_fd].count
         /\ host'[disk_fd].tail = host[disk_fd].tail
         /\ host'[disk_fd].block =
              [b \in DOMAIN host[disk_fd].block |->
                 IF b \in 1 .. Super(disk_fd).num_fat_blocks
                 THEN SavedFatBlock(fat.val, b - 1) ELSE host[disk_fd].block[b]]
<1> DEFINE file == host[disk_fd]
           n == Super(disk_fd).num_fat_blocks
           blocks == [b \in DOMAIN file.block |->
                        IF b \in 1 .. n THEN SavedFatBlock(fat.val, b - 1) ELSE file.block[b]]
           new == [file EXCEPT !.block = blocks]
<1>1. /\ disk_fd \in Hosts /\ sb.val = Super(disk_fd)
      /\ IsHostFile(file) /\ DOMAIN host = Hosts
  BY DEF ImageInv, HostTyped, SuperOnDisk, TablesOfSuper
<1>2. host' = [host EXCEPT ![disk_fd] = new]
  BY <1>1 DEF UmountFailed
<1>3. file.count \in Nat /\ DOMAIN file.block = 0 .. file.count - 1
  BY <1>1 DEF IsHostFile
<1>4. /\ blocks = [b \in 0 .. file.count - 1 |-> blocks[b]]
      /\ file.count > 0 => blocks[0] = file.block[0]
  BY <1>3
<1> HIDE DEF blocks
<1>5. IsHostFile(new) /\ new.count = file.count /\ new.tail = file.tail /\ new.block = blocks
  BY <1>1, <1>4, WriteKeepsFile
<1> HIDE DEF new, file
<1>6. host'[disk_fd] = new /\ \A h \in Hosts : h # disk_fd => host'[h] = host[h]
  BY <1>1, <1>2
<1>7. host' = [h \in Hosts |-> host'[h]]
  BY <1>1, <1>2
<1> QED
  BY <1>1, <1>5, <1>6, <1>7 DEF file, blocks

(* With freed tables, any of its blocks with anything.                     *)
LEMMA DanglingWritten ==
  ASSUME ImageInv, UmountDangling
  PROVE  /\ host' = [h \in Hosts |-> host'[h]]
         /\ \A h \in Hosts :
              /\ IsHostFile(host'[h]) /\ host'[h].count = host[h].count
              /\ host'[h].tail = host[h].tail
              /\ h # disk_fd => host'[h] = host[h]
              /\ \A b \in DOMAIN host[h].block :
                   host'[h].block[b] \in {host[h].block[b], [kind |-> "junk"]}
<1>1. PICK B \in SUBSET (DOMAIN host[disk_fd].block) :
        host' = [host EXCEPT ![disk_fd].block =
                   [b \in DOMAIN @ |-> IF b \in B THEN [kind |-> "junk"] ELSE @[b]]]
  BY DEF UmountDangling
<1>2. CASE disk_fd \notin Hosts
  <2>1. host' = host
    BY <1>1, <1>2 DEF ImageInv, HostTyped
  <2> QED
    BY <2>1 DEF ImageInv, HostTyped
<1>3. CASE disk_fd \in Hosts
  <2> DEFINE blocks == [b \in DOMAIN host[disk_fd].block |->
                          IF b \in B THEN [kind |-> "junk"] ELSE host[disk_fd].block[b]]
             new == [host[disk_fd] EXCEPT !.block = blocks]
  <2>1. IsHostFile(host[disk_fd]) /\ DOMAIN host = Hosts
    BY <1>3 DEF ImageInv, HostTyped
  <2>2. host' = [host EXCEPT ![disk_fd] = new]
    BY <1>1
  <2>3. IsHostFile(new) /\ new.count = host[disk_fd].count /\ new.tail = host[disk_fd].tail
    BY <2>1, JunkKeepsFile
  <2>4. new.block = blocks
    BY <2>1, NewBlocks
  <2>5. \A b \in DOMAIN host[disk_fd].block :
          blocks[b] \in {host[disk_fd].block[b], [kind |-> "junk"]}
    OBVIOUS
  <2> HIDE DEF new, blocks
  <2>6. host'[disk_fd] = new /\ \A h \in Hosts : h # disk_fd => host'[h] = host[h]
    BY <2>1, <2>2, <1>3
  <2>7. host' = [h \in Hosts |-> host'[h]]
    BY <2>1, <2>2
  <2> QED
    BY <2>3, <2>4, <2>5, <2>6, <2>7 DEF ImageInv, HostTyped
<1> QED
  BY <1>2, <1>3

(* The blocks that a step changes, and what it leaves of the host files.   *)
LEMMA HostFilesStep ==
  ASSUME ImageInv, [MountNext]_mountVars
  PROVE  /\ host' = [h \in Hosts |-> host'[h]]
         /\ \A h \in Hosts : /\ IsHostFile(host'[h]) /\ host'[h].count = host[h].count
                             /\ host'[h].tail = host[h].tail
         /\ \A h \in Hosts : \A b \in DOMAIN host[h].block :
              host'[h].block[b] # host[h].block[b] =>
                \/ Dangling
                \/ /\ h = disk_fd
                   /\ b \in 1 .. Super(h).num_fat_blocks \union {Super(h).root_index}
<1> DEFINE Kept == UNCHANGED host
<1>1. ASSUME Kept
      PROVE  /\ host' = [h \in Hosts |-> host'[h]]
             /\ \A h \in Hosts : /\ IsHostFile(host'[h]) /\ host'[h].count = host[h].count
                                 /\ host'[h].tail = host[h].tail
             /\ \A h \in Hosts : \A b \in DOMAIN host[h].block : host'[h].block[b] = host[h].block[b]
  BY <1>1 DEF ImageInv, HostTyped
<1> HIDE DEF Kept
<1>2. ASSUME sb.mem = "live", NEW b \in 1 .. host[disk_fd].count - 1,
             NEW contents, block_write(b, contents),
             b \in 1 .. Super(disk_fd).num_fat_blocks \union {Super(disk_fd).root_index}
      PROVE  /\ host' = [h \in Hosts |-> host'[h]]
             /\ \A h \in Hosts : /\ IsHostFile(host'[h]) /\ host'[h].count = host[h].count
                                 /\ host'[h].tail = host[h].tail
             /\ \A h \in Hosts : \A x \in DOMAIN host[h].block :
                  host'[h].block[x] # host[h].block[x] =>
                    h = disk_fd /\ x \in 1 .. Super(h).num_fat_blocks \union {Super(h).root_index}
  <2>1. /\ HostTyped'
        /\ host'[disk_fd].count = host[disk_fd].count
        /\ host'[disk_fd].tail = host[disk_fd].tail
        /\ \A h \in Hosts : \A x \in DOMAIN host[h].block :
             host'[h].block[x] # host[h].block[x] => h = disk_fd /\ x = b
        /\ \A h \in Hosts : h # disk_fd => host'[h] = host[h]
    BY <1>2, BlockWritten
  <2> QED
    BY <1>2, <2>1 DEF HostTyped
<1>3. CASE SaveFatBlock \/ SaveRoot
  <2>1. sb.mem = "live"
    BY <1>3 DEF ImageInv, TablesOfSuper, SaveFatBlock, NumSaved, SaveRoot
  <2>2. CASE SaveFatBlock
    <3> DEFINE b == NumSaved + 1
    <3>1. /\ b \in 1 .. host[disk_fd].count - 1
          /\ b \in 1 .. Super(disk_fd).num_fat_blocks
          /\ \E contents : block_write(b, contents)
      BY <2>2, FatBlockWritten
    <3> HIDE DEF b
    <3> QED
      BY <1>2, <2>1, <3>1
  <2>3. CASE SaveRoot
    <3>1. CASE UNCHANGED diskVars
      BY <3>1, <1>1 DEF diskVars, Kept
    <3>2. CASE /\ Super(disk_fd).root_index \in 1 .. host[disk_fd].count - 1
               /\ block_write(Super(disk_fd).root_index, SavedRootBlock(root.val))
      BY <2>1, <3>2, <1>2
    <3> QED
      BY <2>3, <3>1, <3>2, RootWritten
  <2> QED
    BY <1>3, <2>2, <2>3
<1>4. CASE UmountFailed
  <2>1. CASE fat.mem # "live"
    BY <1>4, <2>1, <1>1 DEF UmountFailed, Kept
  <2>2. CASE fat.mem = "live"
    <3>1. \A b \in DOMAIN host[disk_fd].block :
            host'[disk_fd].block[b] # host[disk_fd].block[b] => b \in 1 .. Super(disk_fd).num_fat_blocks
      BY <1>4, <2>2, FailedWritten
    <3> QED
      BY <1>4, <2>2, <3>1, FailedWritten DEF ImageInv, HostTyped
  <2> QED
    BY <2>1, <2>2
<1>5. CASE UmountDangling
  <2>1. Dangling
    BY <1>5 DEF UmountDangling
  <2> QED
    BY <1>5, <2>1, DanglingWritten
<1>6. ASSUME NEW h \in Hosts,
             MountOddSize(h) \/ MountNoSuperblock(h) \/ MountBadSuperblock(h)
               \/ MountBadFat(h) \/ MountBadRoot(h) \/ MountOk(h)
      PROVE  Kept
  BY <1>6 DEF Kept, MountOddSize, OpenOddSize, MountNoSuperblock, MountBadSuperblock,
              MountBadFat, MountBadRoot, MountOk, LoadDisk, block_disk_open
<1>7. SessionCall \/ EndUmount \/ Kill \/ UNCHANGED mountVars => Kept
  BY DEF Kept, SessionCall, EndUmount, Kill, mountVars, diskVars, block_disk_close
<1> QED
  BY <1>1, <1>2, <1>3, <1>4, <1>5, <1>6, <1>7 DEF MountNext

-----------------------------------------------------------------------------
LEMMA ImageNext ==
  ASSUME ImageInv, [MountNext]_mountVars
  PROVE  ImageInv'
<1>1. /\ host' = [h \in Hosts |-> host'[h]]
      /\ \A h \in Hosts : IsHostFile(host'[h]) /\ host'[h].count = host[h].count
  BY HostFilesStep
<1>2. ASSUME EndProcess PROVE ImageInv'
  BY <1>1, <1>2 DEF EndProcess, Null, NotSaving, DiskOpen,
                    ImageInv, HostTyped, SuperOnDisk, TablesOfSuper
<1>3. ASSUME NEW h \in Hosts, LoadDisk(h)
      PROVE  /\ HostTyped' /\ DiskOpen' /\ disk_fd' = h /\ Super(h)' = Super(h)
             /\ host' = host
             /\ sb.mem # "live" /\ fat.mem # "live" /\ ~loaded
  BY <1>1, <1>3, HostsAssumption
     DEF LoadDisk, block_disk_open, DiskOpen, Super, ImageInv, HostTyped, SuperOnDisk, TablesOfSuper
<1>4. ASSUME NEW h \in Hosts,
             MountOddSize(h) \/ MountNoSuperblock(h) \/ MountBadSuperblock(h)
               \/ MountBadFat(h) \/ MountBadRoot(h) \/ MountOk(h)
      PROVE  ImageInv'
  <2>1. CASE MountOddSize(h)
    BY <2>1 DEF MountOddSize, OpenOddSize, memVars, DiskOpen, Super,
                ImageInv, HostTyped, SuperOnDisk, TablesOfSuper
  <2>2. CASE MountNoSuperblock(h)
    BY <2>2, <1>3 DEF MountNoSuperblock, ImageInv, SuperOnDisk, TablesOfSuper
  <2>3. CASE MountBadSuperblock(h)
    BY <2>3, <1>3 DEF MountBadSuperblock, Partial, ImageInv, SuperOnDisk, TablesOfSuper
  <2>4. ASSUME LoadDisk(h), sb' = Allocated(Super(h)), UNCHANGED saving,
               host[h].count > 0, Accepts(Super(h), host[h].count)
        PROVE  ImageInv'
    <3>1. SuperOnDisk'
      BY <2>4, <1>3 DEF Allocated, SuperOnDisk
    <3>2. TablesOfSuper'
      BY <2>4 DEF Allocated, ImageInv, TablesOfSuper
    <3> QED
      BY <2>4, <1>3, <3>1, <3>2 DEF ImageInv
  <2>5. CASE MountBadFat(h)
    BY <2>5, <2>4 DEF MountBadFat
  <2>6. CASE MountBadRoot(h)
    BY <2>6, <2>4 DEF MountBadRoot, TablesLoad
  <2>7. CASE MountOk(h)
    BY <2>7, <2>4 DEF MountOk, TablesLoad
  <2> QED
    BY <1>4, <2>1, <2>2, <2>3, <2>5, <2>6, <2>7
<1>5. CASE SessionCall
  <2>1. /\ UNCHANGED <<host, disk_fd, bcount, sb, loaded, saving>> /\ loaded
    BY <1>5 DEF SessionCall, diskVars
  <2> QED
    BY <2>1 DEF DiskOpen, Super, ImageInv, HostTyped, SuperOnDisk, TablesOfSuper
<1>6. ASSUME loaded, UNCHANGED <<sb, loaded, disk_fd, bcount>>, saving' \in Nat,
             Super(disk_fd)' = Super(disk_fd)
      PROVE  ImageInv'
  <2>1. sb.mem = "live" /\ DiskOpen /\ disk_fd \in Hosts
    BY <1>6 DEF ImageInv, HostTyped, SuperOnDisk, TablesOfSuper
  <2>2. HostTyped'
    BY <1>1, <1>6 DEF DiskOpen, ImageInv, HostTyped
  <2>3. SuperOnDisk'
    BY <1>1, <1>6, <2>1 DEF DiskOpen, ImageInv, SuperOnDisk
  <2> QED
    BY <1>6, <2>1, <2>2, <2>3 DEF ImageInv, TablesOfSuper
<1>7. CASE SaveFatBlock
  <2>1. PICK contents :
          block_write(NumSaved + 1, contents)
    BY <1>7, FatBlockWritten
  <2>2. sb.mem = "live"
    BY <1>7 DEF ImageInv, TablesOfSuper, SaveFatBlock, NumSaved
  <2>3. Super(disk_fd)' = Super(disk_fd)
    BY <1>7, <2>1, <2>2, FatBlockWritten, BlockWritten
  <2>4. loaded /\ UNCHANGED <<sb, loaded, disk_fd, bcount>> /\ saving' \in Nat
    BY <1>7 DEF SaveFatBlock, NumSaved, block_write, ImageInv, TablesOfSuper, NotSaving
  <2> QED
    BY <2>3, <2>4, <1>6
<1>8. CASE SaveRoot
  <2>1. sb.mem = "live"
    BY <1>8 DEF ImageInv, TablesOfSuper, SaveRoot, NumSaved
  <2>2. Super(disk_fd)' = Super(disk_fd)
    BY <1>8, <2>1, RootWritten, BlockWritten DEF diskVars, Super
  <2>3. loaded /\ UNCHANGED <<sb, loaded, disk_fd, bcount>>
    BY <1>8 DEF SaveRoot, NumSaved, block_write
  <2>4. saving' \in Nat
    <3>1. NumSaved = Super(disk_fd).num_fat_blocks /\ Super(disk_fd).num_fat_blocks \in Nat
      BY <1>8, <2>1 DEF SaveRoot, NumSaved, ImageInv, HostTyped, SuperOnDisk, IsHostFile, Super
    <3> QED
      BY <1>8, <3>1 DEF SaveRoot, NumSaved
  <2> QED
    BY <2>2, <2>3, <2>4, <1>6
<1>9. CASE EndUmount
  BY <1>1, <1>9 DEF EndUmount, block_disk_close, DiskOpen, Freed, NotSaving,
                    ImageInv, HostTyped, SuperOnDisk, TablesOfSuper
<1>10. CASE UmountFailed \/ UmountDangling \/ Kill
  BY <1>10, <1>2 DEF UmountFailed, UmountDangling, Kill
<1>11. CASE UNCHANGED mountVars
  BY <1>11 DEF mountVars, diskVars, memVars, DiskOpen, Super,
               ImageInv, HostTyped, SuperOnDisk, TablesOfSuper
<1> QED
  BY <1>4, <1>5, <1>7, <1>8, <1>9, <1>10, <1>11 DEF MountNext

(* fs_mount and fs_umount never write to a host file that is not open, nor *)
(* on the open one to any block but those that its superblock gives to the *)
(* FAT and the directory; the fs_umount that runs on freed tables may.     *)
THEOREM WritesCorrect == MountSpec => WritesStayInVolume
<1>1. ImageInv /\ [MountNext]_mountVars =>
        [\A h \in Hosts : \A b \in DOMAIN host[h].block :
           host'[h].block[b] # host[h].block[b] =>
             \/ Dangling
             \/ /\ h = disk_fd
                /\ b \in 1 .. Super(h).num_fat_blocks \union {Super(h).root_index}]_mountVars
  BY HostFilesStep
<1> QED
  BY <1>1, ImageInit, ImageNext, PTL DEF MountSpec, WritesStayInVolume

-----------------------------------------------------------------------------
(***************************************************************************)
(* Encoding.  A directory entry read back is the one that was written.     *)
(***************************************************************************)
LEMMA Powers == 256 ^ 0 = 1 /\ 256 ^ 1 = 256 /\ 256 ^ 2 = 65536 /\ 256 ^ 3 = 16777216
BY SMT

LEMMA Halves ==
  ASSUME NEW n \in Nat
  PROVE  /\ n \div 256 \in Nat /\ n % 256 \in 0 .. 255
         /\ n = (n % 256) + 256 * (n \div 256)
BY SMT

LEMMA ByteRange ==
  ASSUME NEW n \in Nat
  PROVE \A k \in 0 .. 3 : Byte(n, k) \in 0 .. 255
<1> SUFFICES ASSUME NEW k \in 0 .. 3 PROVE Byte(n, k) \in 0 .. 255
  OBVIOUS
<1>1. n \div 1 \in Nat /\ n \div 256 \in Nat /\ n \div 65536 \in Nat /\ n \div 16777216 \in Nat
  BY SMT
<1>2. n \div 256 ^ k \in Nat
  <2>1. CASE k = 0
    BY <1>1, <2>1, Powers, SMT
  <2>2. CASE k = 1
    BY <1>1, <2>2, Powers, SMT
  <2>3. CASE k = 2
    BY <1>1, <2>3, Powers, SMT
  <2>4. CASE k = 3
    BY <1>1, <2>4, Powers, SMT
  <2> QED
    BY <2>1, <2>2, <2>3, <2>4
<1> QED
  BY <1>2, Halves DEF Byte

LEMMA TwoBytes ==
  ASSUME NEW n \in Nat, n \div 256 < 256
  PROVE  concatenate_two_bytes([k \in 0 .. 1 |-> Byte(n, k)]) = n
<1>1. concatenate_two_bytes([k \in 0 .. 1 |-> Byte(n, k)]) = Byte(n, 0) + 256 * Byte(n, 1)
  BY SMT DEF concatenate_two_bytes
<1>2. (n \div 256) % 256 = n \div 256 /\ n = (n % 256) + 256 * (n \div 256)
  BY SMT
<1>3. Byte(n, 0) = n % 256 /\ Byte(n, 1) = (n \div 256) % 256
  <2>1. n \div 1 = n
    BY SMT
  <2> QED
    BY <2>1, Powers, SMT DEF Byte
<1> QED
  BY <1>1, <1>2, <1>3, SMT

LEMMA FourBytes ==
  ASSUME NEW n \in Nat, n \div 16777216 < 256
  PROVE  concatenate_four_bytes([k \in 0 .. 3 |-> Byte(n, k)]) = n
<1>1. concatenate_four_bytes([k \in 0 .. 3 |-> Byte(n, k)]) =
        Byte(n, 0) + 256 * Byte(n, 1) + 65536 * Byte(n, 2) + 16777216 * Byte(n, 3)
  BY SMT DEF concatenate_four_bytes
<1>2. /\ (n \div 16777216) % 256 = n \div 16777216
      /\ n = (n % 256) + 256 * ((n \div 256) % 256) + 65536 * ((n \div 65536) % 256)
             + 16777216 * (n \div 16777216)
  BY SMT
<1>3. /\ Byte(n, 0) = n % 256
      /\ Byte(n, 1) = (n \div 256) % 256
      /\ Byte(n, 2) = (n \div 65536) % 256
      /\ Byte(n, 3) = (n \div 16777216) % 256
  <2>1. n \div 1 = n
    BY SMT
  <2> QED
    BY <2>1, Powers, SMT DEF Byte
<1> DEFINE a == n % 256
           b == (n \div 256) % 256
           c == (n \div 65536) % 256
           d == n \div 16777216
<1>4. a \in Nat /\ b \in Nat /\ c \in Nat /\ d \in Nat
  BY SMT
<1>5. n = a + 256 * b + 65536 * c + 16777216 * d
  BY <1>2, SMT
<1>6. Byte(n, 0) = a /\ Byte(n, 1) = b /\ Byte(n, 2) = c /\ Byte(n, 3) = d
  BY <1>2, <1>3, SMT
<1> HIDE DEF a, b, c, d
<1> QED
  BY <1>1, <1>4, <1>5, <1>6, SMT

LEMMA EncodeDecode ==
  ASSUME NEW file, FitsEntry(file)
  PROVE  DecodeFile(EncodeFile(file)) = file
<1>1. concatenate_four_bytes([k \in 0 .. 3 |-> Byte(file.file_size, k)]) = file.file_size
  BY FourBytes, SMT DEF FitsEntry
<1>2. concatenate_two_bytes([k \in 0 .. 1 |-> Byte(file.first_index, k)]) = file.first_index
  BY TwoBytes, SMT DEF FitsEntry
<1>3. file = [filename    |-> file.filename,
              file_size   |-> file.file_size,
              first_index |-> file.first_index]
  BY SMT DEF FitsEntry
<1> QED
  BY <1>1, <1>2, <1>3 DEF DecodeFile, EncodeFile

(* What is written is bytes, and what is read fits.                        *)
LEMMA EncodeIsBytes ==
  ASSUME NEW file, FitsEntry(file)
  PROVE  /\ \A k \in 0 .. 3 : EncodeFile(file).file_size[k] \in 0 .. 255
         /\ \A k \in 0 .. 1 : EncodeFile(file).first_index[k] \in 0 .. 255
<1>1. file.file_size \in Nat /\ file.first_index \in Nat
  BY SMT DEF FitsEntry
<1>2. /\ \A k \in 0 .. 3 : EncodeFile(file).file_size[k] = Byte(file.file_size, k)
      /\ \A k \in 0 .. 1 : EncodeFile(file).first_index[k] = Byte(file.first_index, k)
  BY SMT DEF EncodeFile
<1>3. \A k \in 0 .. 1 : k \in 0 .. 3
  BY SMT
<1>4. /\ \A k \in 0 .. 3 : Byte(file.file_size, k) \in 0 .. 255
      /\ \A k \in 0 .. 3 : Byte(file.first_index, k) \in 0 .. 255
  BY <1>1, ByteRange
<1>5. \A k \in 0 .. 3 : EncodeFile(file).file_size[k] \in 0 .. 255
  BY <1>2, <1>4
<1>6. \A k \in 0 .. 1 : EncodeFile(file).first_index[k] \in 0 .. 255
  BY <1>2, <1>3, <1>4
<1> QED
  BY <1>5, <1>6

LEMMA DecodeFits ==
  ASSUME NEW bytes,
         \A k \in 0 .. 3 : bytes.file_size[k] \in 0 .. 255,
         \A k \in 0 .. 1 : bytes.first_index[k] \in 0 .. 255
  PROVE  FitsEntry(DecodeFile(bytes))
<1> DEFINE size  == concatenate_four_bytes(bytes.file_size)
           index == concatenate_two_bytes(bytes.first_index)
<1>1. size \in Nat /\ size \div 16777216 < 256
  <2>1. PICK a \in 0 .. 255, b \in 0 .. 255, c \in 0 .. 255, d \in 0 .. 255 :
          /\ a = bytes.file_size[0] /\ b = bytes.file_size[1]
          /\ c = bytes.file_size[2] /\ d = bytes.file_size[3]
    <3>1. /\ bytes.file_size[0] \in 0 .. 255 /\ bytes.file_size[1] \in 0 .. 255
          /\ bytes.file_size[2] \in 0 .. 255 /\ bytes.file_size[3] \in 0 .. 255
      <4>1. 0 \in 0 .. 3 /\ 1 \in 0 .. 3 /\ 2 \in 0 .. 3 /\ 3 \in 0 .. 3
        BY SMT
      <4> QED
        BY <4>1, Zenon
    <3> QED
      BY <3>1, Zenon
  <2>2. size = a + 256 * b + 65536 * c + 16777216 * d
    BY <2>1, SMT DEF concatenate_four_bytes
  <2> HIDE DEF size
  <2> QED
    BY <2>2, SMT
<1>2. index \in Nat /\ index \div 256 < 256
  <2>1. PICK a \in 0 .. 255, b \in 0 .. 255 :
          a = bytes.first_index[0] /\ b = bytes.first_index[1]
    <3>1. bytes.first_index[0] \in 0 .. 255 /\ bytes.first_index[1] \in 0 .. 255
      <4>1. 0 \in 0 .. 1 /\ 1 \in 0 .. 1
        BY SMT
      <4> QED
        BY <4>1, Zenon
    <3> QED
      BY <3>1, Zenon
  <2>2. index = a + 256 * b
    BY <2>1, SMT DEF concatenate_two_bytes
  <2> HIDE DEF index
  <2> QED
    BY <2>2, SMT
<1>3. DecodeFile(bytes) = [filename |-> bytes.filename, file_size |-> size, first_index |-> index]
  BY SMT DEF DecodeFile
<1> HIDE DEF size, index
<1> QED
  BY <1>1, <1>2, <1>3, SMT DEF FitsEntry

LEMMA EmptyFits == FitsEntry(EmptyFile)
BY SMT DEF FitsEntry, EmptyFile

(* A directory comes back as it was saved, and any block taken for a       *)
(* directory gives entries that can be saved.                              *)
LEMMA RootSaved ==
  ASSUME NEW dir, dir = [f \in Files |-> dir[f]], \A f \in Files : FitsEntry(dir[f])
  PROVE  /\ AsRoot(SavedRootBlock(dir)) = dir
         /\ RootReadable(SavedRootBlock(dir))
         /\ IsBlock(SavedRootBlock(dir))
<1>1. \A f \in Files : SavedRootBlock(dir).file[f] = EncodeFile(dir[f])
  BY DEF SavedRootBlock
<1>2. SavedRootBlock(dir).kind = "root"
  BY DEF SavedRootBlock
<1>3. \A f \in Files : DecodeFile(SavedRootBlock(dir).file[f]) = dir[f]
  BY <1>1, EncodeDecode
<1>4. AsRoot(SavedRootBlock(dir)) = [f \in Files |-> DecodeFile(SavedRootBlock(dir).file[f])]
  BY <1>2 DEF AsRoot
<1>5. RootReadable(SavedRootBlock(dir))
  <2>1. \A f \in Files : EncodeFile(dir[f]).padding_clear
    BY Zenon DEF EncodeFile
  <2>2. \A f \in Files : SavedRootBlock(dir).file[f].padding_clear
    BY <1>1, <2>1, Zenon
  <2> QED
    BY <1>2, <2>2 DEF RootReadable
<1>6. IsBlock(SavedRootBlock(dir))
  <2>1. \A f \in Files :
          /\ \A k \in 0 .. 3 : SavedRootBlock(dir).file[f].file_size[k] \in 0 .. 255
          /\ \A k \in 0 .. 1 : SavedRootBlock(dir).file[f].first_index[k] \in 0 .. 255
    <3> TAKE f \in Files
    <3>1. SavedRootBlock(dir).file[f] = EncodeFile(dir[f]) /\ FitsEntry(dir[f])
      BY <1>1
    <3>2. /\ \A k \in 0 .. 3 : EncodeFile(dir[f]).file_size[k] \in 0 .. 255
          /\ \A k \in 0 .. 1 : EncodeFile(dir[f]).first_index[k] \in 0 .. 255
      BY <3>1, EncodeIsBytes
    <3> QED
      BY <3>1, <3>2
  <2> QED
    BY <1>2, <2>1 DEF IsBlock
<1> QED
  BY <1>3, <1>4, <1>5, <1>6

(* The places in a FAT block where a directory entry is looked for.        *)
LEMMA Multiples ==
  ASSUME NEW a \in Nat, NEW b \in Nat, a < b, NEW c \in Nat
  PROVE  a * c \in Nat /\ (a * c) + c =< b * c
<1>1. PICK d \in Nat : b = a + 1 + d
  <2>1. b - a - 1 \in Nat /\ b = a + 1 + (b - a - 1)
    OBVIOUS
  <2> QED
    BY <2>1
<1>2. a * c \in Nat /\ d * c \in Nat
  BY <1>1, SMT
<1>3. b * c = (a * c) + c + (d * c)
  BY <1>1, SMT
<1> QED
  BY <1>2, <1>3, SMT

LEMMA EntryPlace ==
  ASSUME NEW f \in Files
  PROVE  LET first == f * FileEntries IN
         /\ first \in 0 .. EntriesPerBlock - 1
         /\ first + NameEntries \in 0 .. EntriesPerBlock - 1
         /\ first + NameEntries + 1 \in 0 .. EntriesPerBlock - 1
         /\ first + NameEntries + 2 \in 0 .. EntriesPerBlock - 1
<1> DEFINE first == f * FileEntries
           all == NumFiles * FileEntries
<1>1. f \in Nat /\ NumFiles \in Nat /\ f < NumFiles
  BY ImageNumFilesAssumption DEF Files
<1>2. /\ NameEntries \in Nat /\ PadEntries \in Nat /\ FileEntries \in Nat
      /\ FileEntries = NameEntries + 3 + PadEntries
  BY EntryLengthsAssumption DEF FileEntries
<1>3. first \in Nat /\ first + FileEntries =< all
  BY <1>1, <1>2, Multiples
<1>4. all =< EntriesPerBlock /\ EntriesPerBlock \in Nat /\ all \in Nat
  BY <1>1, <1>2, EntriesPerBlockAssumption, SMT
<1> HIDE DEF first, all
<1>5. /\ first \in 0 .. EntriesPerBlock - 1
      /\ first + NameEntries \in 0 .. EntriesPerBlock - 1
      /\ first + NameEntries + 1 \in 0 .. EntriesPerBlock - 1
      /\ first + NameEntries + 2 \in 0 .. EntriesPerBlock - 1
  BY <1>2, <1>3, <1>4, SMT
<1> QED
  BY <1>5 DEF first

LEMMA SixteenBits ==
  ASSUME NEW x, x \in 0 .. FAT_EOC
  PROVE  x \in Nat /\ x =< 65535
<1>1. FAT_EOC = 65535
  BY SMT DEF FAT_EOC
<1> QED
  BY <1>1, SMT

LEMMA EntryBytesFit ==
  ASSUME NEW file, file = [filename    |-> file.filename,
                           file_size   |-> file.file_size,
                           first_index |-> file.first_index],
         NEW a, NEW b, a \in 0 .. FAT_EOC, b \in 0 .. FAT_EOC,
         file.file_size = a + 65536 * b,
         file.first_index \in 0 .. FAT_EOC
  PROVE  FitsEntry(file)
<1> DEFINE size == file.file_size
           c == file.first_index
<1>1. size = a + 65536 * b /\ c \in 0 .. FAT_EOC
  BY SMT
<1> HIDE DEF size, c
<1>2. /\ a \in Nat /\ a =< 65535
      /\ b \in Nat /\ b =< 65535
      /\ c \in Nat /\ c =< 65535
  BY <1>1, SixteenBits
<1>3. size = a + 65536 * b
  BY <1>1, SMT
<1>4. size \in Nat /\ size \div 16777216 < 256
  BY <1>2, <1>3, SMT
<1>5. c \in Nat /\ c \div 256 < 256
  BY <1>2, SMT
<1> QED
  BY <1>4, <1>5, SMT DEF FitsEntry, size, c

LEMMA FatFits ==
  ASSUME NEW block, IsBlock(block), block.kind = "fat", NEW f \in Files
  PROVE  FitsEntry(FileOfFat(block.entry, f * FileEntries))
<1> DEFINE first == f * FileEntries
           file  == FileOfFat(block.entry, first)
           a     == block.entry[first + NameEntries]
           b     == block.entry[first + NameEntries + 1]
           c     == block.entry[first + NameEntries + 2]
<1>1. \A e \in 0 .. EntriesPerBlock - 1 : block.entry[e] \in 0 .. FAT_EOC
  BY DEF IsBlock
<1>2. /\ first + NameEntries \in 0 .. EntriesPerBlock - 1
      /\ first + NameEntries + 1 \in 0 .. EntriesPerBlock - 1
      /\ first + NameEntries + 2 \in 0 .. EntriesPerBlock - 1
  BY EntryPlace
<1>3. a \in 0 .. FAT_EOC /\ b \in 0 .. FAT_EOC /\ c \in 0 .. FAT_EOC
  BY <1>1, <1>2, Zenon
<1>4. /\ file = [filename    |-> file.filename,
                 file_size   |-> file.file_size,
                 first_index |-> file.first_index]
      /\ file.file_size = a + 65536 * b
      /\ file.first_index = c
  BY DEF FileOfFat
<1> HIDE DEF first, file, a, b, c
<1>5. FitsEntry(file)
  BY <1>3, <1>4, EntryBytesFit
<1> QED
  BY <1>5 DEF file, first

LEMMA RootFits ==
  ASSUME NEW block, IsBlock(block)
  PROVE  /\ AsRoot(block) = [f \in Files |-> AsRoot(block)[f]]
         /\ \A f \in Files : FitsEntry(AsRoot(block)[f])
<1> SUFFICES ASSUME NEW f \in Files PROVE FitsEntry(AsRoot(block)[f])
  BY DEF AsRoot
<1>1. CASE block.kind = "root"
  <2>1. AsRoot(block)[f] = DecodeFile(block.file[f])
    BY <1>1 DEF AsRoot
  <2> QED
    BY <1>1, <2>1, DecodeFits DEF IsBlock
<1>2. CASE block.kind = "super" /\ f = 0
  <2>1. AsRoot(block)[f] =
          [filename |-> Signature, file_size |-> block.sb.num_fat_blocks, first_index |-> 0]
    BY <1>2 DEF AsRoot
  <2>2. block.sb.num_fat_blocks \in 0 .. 255
    BY <1>2 DEF IsBlock
  <2> QED
    BY <2>1, <2>2, SMT DEF FitsEntry
<1>3. CASE block.kind = "fat"
  <2>1. AsRoot(block)[f] = FileOfFat(block.entry, f * FileEntries)
    BY <1>3 DEF AsRoot
  <2> QED
    BY <1>3, <2>1, FatFits
<1>4. CASE block.kind \notin {"root", "fat"} /\ ~(block.kind = "super" /\ f = 0)
  <2>1. AsRoot(block)[f] = EmptyFile
    BY <1>4 DEF AsRoot
  <2> QED
    BY <2>1, EmptyFits
<1> QED
  BY <1>1, <1>2, <1>3, <1>4

-----------------------------------------------------------------------------
(* The entries of the first FAT block, which the code puts where they      *)
(* belong.                                                                 *)
LEMMA Place ==
  ASSUME NEW n \in Nat, n < EntriesPerBlock
  PROVE  /\ n \div EntriesPerBlock = 0 /\ n % EntriesPerBlock = n
         /\ n \div Stride = 0 /\ n % Stride = n
         /\ n \in 0 .. EntriesPerBlock - 1
<1>1. EntriesPerBlock \in Nat /\ EntriesPerBlock > 0 /\ Stride \in Nat /\ n < Stride
  <2>1. EntriesPerBlock \in Nat
    BY EntriesPerBlockAssumption
  <2> QED
    BY <2>1 DEF Stride
<1>2. ASSUME NEW m \in Nat, n < m PROVE n \div m = 0 /\ n % m = n
  BY <1>2
<1> QED
  BY <1>1, <1>2

LEMMA SavedEntry ==
  ASSUME NEW table, NEW n \in Nat, n < EntriesPerBlock, n \in DOMAIN table
  PROVE  AsFat(SavedFatBlock(table, 0))[n] = table[n]
<1>1. Stride * 0 + n = n
  <2>1. EntriesPerBlock \in Nat
    BY EntriesPerBlockAssumption
  <2> QED
    BY <2>1 DEF Stride
<1> QED
  BY <1>1, Place DEF AsFat, SavedFatBlock

LEMMA LoadedEntry ==
  ASSUME NEW blocks, NEW s, s.num_fat_blocks \in Nat, s.num_fat_blocks > 0,
         NEW n \in Nat, n < EntriesPerBlock, n \in 0 .. s.num_data_blocks - 1
  PROVE  /\ LoadedFat(blocks, s)[n] = AsFat(blocks[1])[n]
         /\ FatEntryOnDisk(blocks, n) = AsFat(blocks[1])[n]
BY Place DEF LoadedFat, FatEntryOnDisk

LEMMA FatBlockTyped ==
  ASSUME NEW table, \A n \in DOMAIN table : table[n] \in 0 .. FAT_EOC, NEW i
  PROVE  IsBlock(SavedFatBlock(table, i))
<1> DEFINE block == SavedFatBlock(table, i)
<1>1. \A e \in 0 .. EntriesPerBlock - 1 :
        block.entry[e] = IF Stride * i + e \in DOMAIN table THEN table[Stride * i + e] ELSE Junk
  BY DEF SavedFatBlock
<1>2. \A e \in 0 .. EntriesPerBlock - 1 : block.entry[e] \in 0 .. FAT_EOC
  BY <1>1, JunkAssumption, Zenon
<1>3. block.kind = "fat"
  BY DEF SavedFatBlock
<1> HIDE DEF block
<1>4. IsBlock(block)
  BY <1>2, <1>3 DEF IsBlock
<1> QED
  BY <1>4 DEF block

-----------------------------------------------------------------------------
(***************************************************************************)
(* The tables in memory and on the disks.                                  *)
(***************************************************************************)
IsTable(t) ==
  /\ t = [mem |-> t.mem, val |-> t.val]
  /\ t.mem \in {"null", "live", "freed", "partial"}

(* What is where, and a directory in memory can be encoded.                *)
MemTyped ==
  /\ disk_fd \in Hosts \union {INVALID_FD}
  /\ stray \in 0 .. MaxHostFds
  /\ IsTable(sb) /\ IsTable(fat) /\ IsTable(root)
  /\ fat.mem = "live" => \A n \in DOMAIN fat.val : fat.val[n] \in 0 .. FAT_EOC
  /\ loaded => /\ sb.mem = "live" /\ fat.mem = "live" /\ root.mem = "live"
               /\ root.val = [f \in Files |-> root.val[f]]
               /\ \A f \in Files : FitsEntry(root.val[f])
  /\ saving # NotSaving => loaded /\ saving > 0

BlocksTyped == \A h \in Hosts : \A b \in DOMAIN host[h].block : IsBlock(host[h].block[b])

(* fs_umount and the calls of a session change the tables; until then they *)
(* are what the disk holds, after a mount that failed as well.             *)
AsLoaded == loaded => ~changed /\ saving = NotSaving

TablesOfDisk ==
  /\ fat.mem = "live" =>
       /\ DOMAIN fat.val = 0 .. sb.val.num_data_blocks - 1
       /\ AsLoaded => fat.val = LoadedFat(host[disk_fd].block, sb.val)
  /\ loaded /\ AsLoaded => root.val = AsRoot(RootSource(disk_fd))

(* What a running fs_umount has written, where the directory follows the   *)
(* FAT.                                                                    *)
SavedSoFar ==
  saving # NotSaving =>
    /\ saved[disk_fd] = Unknown
    /\ sb.val.num_fat_blocks > 0 /\ sb.val.root_index = sb.val.num_fat_blocks + 1 =>
         /\ host[disk_fd].block[1] = SavedFatBlock(fat.val, 0)
         /\ saving = sb.val.num_fat_blocks + 1 /\ sb.val.root_index < host[disk_fd].count =>
              host[disk_fd].block[sb.val.root_index] = SavedRootBlock(root.val)

TableInv ==
  /\ MemTyped /\ BlocksTyped /\ TablesOfDisk /\ SavedSoFar
  /\ saved = [h \in Hosts |-> saved[h]]
  /\ DiskHoldsSaved

LEMMA TableInit == MountInit => TableInv
<1> SUFFICES ASSUME MountInit PROVE TableInv
  OBVIOUS
<1>1. MemTyped
  BY MaxHostFdsAssumption DEF MountInit, DiskInit, ProcessStart, Null, NotSaving, MemTyped, IsTable
<1>2. BlocksTyped
  BY HostFilesAssumption DEF MountInit, BlocksTyped
<1>3. TablesOfDisk /\ SavedSoFar
  BY DEF MountInit, ProcessStart, Null, TablesOfDisk, SavedSoFar
<1>4. saved = [h \in Hosts |-> saved[h]] /\ DiskHoldsSaved
  BY DEF MountInit, DiskHoldsSaved
<1> QED
  BY <1>1, <1>2, <1>3, <1>4 DEF TableInv

(* What is known of the open disk.                                         *)
LEMMA OpenDisk ==
  ASSUME ImageInv, sb.mem = "live"
  PROVE  /\ DiskOpen /\ disk_fd \in Hosts /\ bcount = host[disk_fd].count
         /\ IsHostFile(host[disk_fd])
         /\ host[disk_fd].count \in Nat /\ host[disk_fd].count > 0
         /\ DOMAIN host[disk_fd].block = 0 .. host[disk_fd].count - 1
         /\ sb.val = Super(disk_fd) /\ sb.val.num_blocks = host[disk_fd].count
         /\ sb.val.num_fat_blocks \in Nat /\ sb.val.num_fat_blocks < host[disk_fd].count
         /\ sb.val.root_index \in Nat
<1>1. /\ DiskOpen /\ disk_fd \in Hosts /\ bcount = host[disk_fd].count
      /\ IsHostFile(host[disk_fd]) /\ host[disk_fd].count > 0
      /\ sb.val = Super(disk_fd) /\ Accepts(sb.val, host[disk_fd].count)
  BY DEF ImageInv, HostTyped, SuperOnDisk
<1>2. /\ host[disk_fd].count \in Nat
      /\ DOMAIN host[disk_fd].block = 0 .. host[disk_fd].count - 1
      /\ sb.val.num_fat_blocks \in Nat /\ sb.val.root_index \in Nat
  BY <1>1 DEF IsHostFile, Super
<1>3. sb.val.num_blocks = host[disk_fd].count /\ sb.val.num_fat_blocks < host[disk_fd].count
  BY <1>1 DEF Accepts
<1> QED
  BY <1>1, <1>2, <1>3

(* fs_mount meets no live table.                                           *)
LEMMA NothingLive ==
  ASSUME ImageInv, MemTyped, ~DiskOpen
  PROVE  sb.mem # "live" /\ fat.mem # "live" /\ ~loaded /\ saving = NotSaving
BY DEF ImageInv, SuperOnDisk, TablesOfSuper, MemTyped

(* Whatever block fs_mount takes for the directory is one of the disk.     *)
LEMMA RootSourceBlock ==
  ASSUME ImageInv, BlocksTyped, NEW h \in Hosts, host[h].count > 0
  PROVE  IsBlock(RootSource(h))
<1>1. /\ host[h].count \in Nat /\ DOMAIN host[h].block = 0 .. host[h].count - 1
      /\ Super(h).num_fat_blocks \in Nat
  BY DEF ImageInv, HostTyped, IsHostFile, Super
<1> DEFINE b == Super(h).num_fat_blocks + 1
<1>2. CASE b < host[h].count
  <2>1. b \in DOMAIN host[h].block /\ RootSource(h) = host[h].block[b]
    BY <1>1, <1>2 DEF RootSource
  <2> QED
    BY <2>1 DEF BlocksTyped
<1>3. CASE ~(b < host[h].count)
  <2>1. 0 \in DOMAIN host[h].block /\ RootSource(h) = host[h].block[0]
    BY <1>1, <1>3 DEF RootSource
  <2> QED
    BY <2>1 DEF BlocksTyped
<1> QED
  BY <1>2, <1>3

(* And so are those it takes for the FAT.                                  *)
LEMMA AsFatTyped ==
  ASSUME NEW block, IsBlock(block), NEW e \in 0 .. EntriesPerBlock - 1
  PROVE  AsFat(block)[e] \in 0 .. FAT_EOC
<1>1. CASE block.kind = "fat"
  <2>1. AsFat(block)[e] = block.entry[e]
    BY <1>1 DEF AsFat
  <2>2. \A x \in 0 .. EntriesPerBlock - 1 : block.entry[x] \in 0 .. FAT_EOC
    BY <1>1, Zenon DEF IsBlock
  <2> QED
    BY <2>1, <2>2
<1>2. CASE block.kind = "zero"
  <2>1. AsFat(block)[e] = 0
    BY <1>2 DEF AsFat
  <2>2. 0 \in 0 .. FAT_EOC
    BY SMT DEF FAT_EOC
  <2> QED
    BY <2>1, <2>2
<1>3. CASE block.kind \notin {"fat", "zero"}
  <2>1. AsFat(block)[e] = Junk
    BY <1>3 DEF AsFat
  <2> QED
    BY <2>1, JunkAssumption
<1> QED
  BY <1>1, <1>2, <1>3

LEMMA LoadedTyped ==
  ASSUME ImageInv, BlocksTyped, NEW h \in Hosts, host[h].count > 0,
         Accepts(Super(h), host[h].count)
  PROVE  LET table == LoadedFat(host[h].block, Super(h)) IN
         \A n \in DOMAIN table : table[n] \in 0 .. FAT_EOC
<1>1. /\ host[h].count \in Nat /\ DOMAIN host[h].block = 0 .. host[h].count - 1
      /\ Super(h).num_fat_blocks \in Nat /\ Super(h).num_fat_blocks < host[h].count
  BY DEF ImageInv, HostTyped, IsHostFile, Super, Accepts
<1>2. EntriesPerBlock \in Nat /\ EntriesPerBlock > 0
  <2>1. /\ NameEntries \in Nat /\ PadEntries \in Nat /\ FileEntries \in Nat /\ FileEntries > 0
        /\ NumFiles \in Nat /\ NumFiles > 0
    BY ImageNumFilesAssumption, EntryLengthsAssumption DEF FileEntries
  <2>2. (0 * FileEntries) + FileEntries =< NumFiles * FileEntries /\ NumFiles * FileEntries \in Nat
    BY <2>1, Multiples, SMT
  <2> QED
    BY <2>1, <2>2, EntriesPerBlockAssumption, SMT
<1>3. ASSUME NEW x \in DOMAIN host[h].block, NEW e \in 0 .. EntriesPerBlock - 1
      PROVE  AsFat(host[h].block[x])[e] \in 0 .. FAT_EOC
  BY AsFatTyped DEF BlocksTyped
<1> DEFINE s == Super(h)
           table == LoadedFat(host[h].block, s)
<1>4. ASSUME NEW n \in 0 .. s.num_data_blocks - 1
      PROVE  table[n] \in 0 .. FAT_EOC
  <2> DEFINE i == n \div Stride
             e == n % Stride
  <2>1. n \in Nat /\ Stride \in Nat /\ Stride > 0
    BY <1>2 DEF Stride
  <2>2. i \in Nat /\ e \in Nat
    BY <2>1
  <2>3. table[n] = IF i < s.num_fat_blocks /\ e < EntriesPerBlock
                   THEN AsFat(host[h].block[i + 1])[e] ELSE Junk
    BY DEF LoadedFat
  <2>4. CASE i < s.num_fat_blocks /\ e < EntriesPerBlock
    <3> HIDE DEF i, e, table, s
    <3>1. i + 1 \in DOMAIN host[h].block /\ e \in 0 .. EntriesPerBlock - 1
      BY <1>1, <1>2, <2>2, <2>4 DEF s
    <3> QED
      BY <1>3, <2>3, <2>4, <3>1
  <2> HIDE DEF i, e, table, s
  <2> QED
    BY <2>3, <2>4, JunkAssumption
<1>5. DOMAIN table = 0 .. s.num_data_blocks - 1
  BY DEF LoadedFat
<1> HIDE DEF table, s
<1>6. \A n \in DOMAIN table : table[n] \in 0 .. FAT_EOC
  BY <1>4, <1>5
<1> QED
  BY <1>6 DEF table, s

LEMMA MemStep ==
  ASSUME ImageInv, MemTyped, BlocksTyped, [MountNext]_mountVars
  PROVE  MemTyped'
<1>1. ASSUME EndProcess PROVE MemTyped'
  BY <1>1, MaxHostFdsAssumption DEF EndProcess, MemTyped, IsTable, Null, NotSaving
<1>2. ASSUME NEW h \in Hosts, LoadDisk(h)
      PROVE  /\ disk_fd' = h /\ stray' = stray
             /\ ~loaded /\ saving = NotSaving
  BY <1>2, NothingLive DEF LoadDisk, block_disk_open
<1>3. ASSUME NEW h \in Hosts, MountOddSize(h) PROVE MemTyped'
  <2>1. stray' = stray + 1 /\ stray < MaxHostFds
        /\ UNCHANGED <<disk_fd, sb, fat, root, loaded, saving>>
    BY <1>3, MaxHostFdsAssumption DEF MountOddSize, OpenOddSize, HostFdFree, memVars, MemTyped
  <2> QED
    BY <2>1, MaxHostFdsAssumption DEF MemTyped
<1>4. ASSUME NEW h \in Hosts,
             MountNoSuperblock(h) \/ MountBadSuperblock(h) \/ MountBadFat(h) \/ MountBadRoot(h)
      PROVE  MemTyped'
  <2>1. LoadDisk(h) /\ ~loaded' /\ saving' = NotSaving
    BY <1>4, <1>2 DEF MountNoSuperblock, MountBadSuperblock, MountBadFat, MountBadRoot
  <2>2. IsTable(sb') /\ IsTable(fat') /\ IsTable(root')
    <3>1. IsTable(Partial) /\ \A val : IsTable(Allocated(val))
      BY DEF IsTable, Partial, Allocated
    <3>2. IsTable(sb) /\ IsTable(fat) /\ IsTable(root)
      BY DEF MemTyped
    <3>3. CASE MountNoSuperblock(h)
      BY <3>2, <3>3 DEF MountNoSuperblock
    <3>4. CASE MountBadSuperblock(h)
      BY <3>1, <3>2, <3>4 DEF MountBadSuperblock
    <3>5. CASE MountBadFat(h)
      BY <3>1, <3>2, <3>5 DEF MountBadFat
    <3>6. CASE MountBadRoot(h)
      BY <3>1, <3>2, <3>6 DEF MountBadRoot, TablesLoad
    <3> QED
      BY <1>4, <3>3, <3>4, <3>5, <3>6
  <2>3. fat'.mem = "live" => \A n \in DOMAIN fat'.val : fat'.val[n] \in 0 .. FAT_EOC
    <3>1. CASE UNCHANGED fat
      BY <3>1 DEF MemTyped
    <3>2. CASE host[h].count > 0 /\ Accepts(Super(h), host[h].count)
               /\ fat' = Allocated(LoadedFat(host[h].block, Super(h)))
      BY <3>2, LoadedTyped DEF Allocated
    <3> QED
      BY <1>4, <3>1, <3>2
         DEF MountNoSuperblock, MountBadSuperblock, MountBadFat, MountBadRoot, TablesLoad
  <2> QED
    BY <1>2, <2>1, <2>2, <2>3 DEF MemTyped
<1>5. ASSUME NEW h \in Hosts, MountOk(h) PROVE MemTyped'
  <2>1. LoadDisk(h) /\ host[h].count > 0 /\ Accepts(Super(h), host[h].count)
        /\ sb' = Allocated(Super(h))
        /\ fat' = Allocated(LoadedFat(host[h].block, Super(h)))
        /\ root' = Allocated(AsRoot(RootSource(h)))
        /\ saving' = saving
    BY <1>5 DEF MountOk, TablesLoad
  <2>2. IsBlock(RootSource(h))
    BY <2>1, RootSourceBlock
  <2>3. /\ AsRoot(RootSource(h)) = [f \in Files |-> AsRoot(RootSource(h))[f]]
        /\ \A f \in Files : FitsEntry(AsRoot(RootSource(h))[f])
    BY <2>2, RootFits
  <2>4. IsTable(sb') /\ IsTable(fat') /\ IsTable(root')
        /\ sb'.mem = "live" /\ fat'.mem = "live" /\ root'.mem = "live"
        /\ root'.val = AsRoot(RootSource(h))
    BY <2>1 DEF Allocated, IsTable
  <2>5. \A n \in DOMAIN fat'.val : fat'.val[n] \in 0 .. FAT_EOC
    BY <2>1, LoadedTyped DEF Allocated
  <2> QED
    BY <1>2, <2>1, <2>3, <2>4, <2>5 DEF MemTyped
<1>6. CASE SessionCall
  <2>1. loaded /\ UNCHANGED <<disk_fd, stray, sb, loaded, saving>>
    BY <1>6 DEF SessionCall, diskVars
  <2>2. CASE \E n \in DOMAIN fat.val, e \in {0, FAT_EOC} :
               fat' = [fat EXCEPT !.val[n] = e] /\ root' = root
    <3>1. PICK n \in DOMAIN fat.val, e \in {0, FAT_EOC} : fat' = [fat EXCEPT !.val[n] = e]
      BY <2>2
    <3>2. fat = [mem |-> fat.mem, val |-> fat.val] /\ fat.mem = "live"
          /\ \A x \in DOMAIN fat.val : fat.val[x] \in 0 .. FAT_EOC
      BY <2>1 DEF MemTyped, IsTable
    <3>3. fat' = [mem |-> fat.mem, val |-> [fat.val EXCEPT ![n] = e]]
      BY <3>1, <3>2
    <3>4. IsTable(fat') /\ fat'.mem = fat.mem /\ fat'.val = [fat.val EXCEPT ![n] = e]
      BY <3>2, <3>3 DEF IsTable
    <3>5. e \in 0 .. FAT_EOC
      BY SMT DEF FAT_EOC
    <3>6. \A x \in DOMAIN fat'.val : fat'.val[x] \in 0 .. FAT_EOC
      BY <3>2, <3>4, <3>5
    <3> QED
      BY <2>1, <2>2, <3>4, <3>6 DEF MemTyped
  <2>3. CASE \E f \in Files, file \in Samples \union {EmptyFile} :
               root' = [root EXCEPT !.val[f] = file] /\ fat' = fat
    <3>1. PICK f \in Files, file \in Samples \union {EmptyFile} :
            root' = [root EXCEPT !.val[f] = file] /\ fat' = fat
      BY <2>3
    <3>2. root = [mem |-> root.mem, val |-> root.val] /\ root.mem = "live"
          /\ root.val = [x \in Files |-> root.val[x]]
          /\ \A x \in Files : FitsEntry(root.val[x])
      BY <2>1 DEF MemTyped, IsTable
    <3>3. root' = [mem |-> root.mem, val |-> [root.val EXCEPT ![f] = file]]
      BY <3>1, <3>2
    <3>4. root'.mem = "live" /\ root'.val = [root.val EXCEPT ![f] = file] /\ IsTable(root')
      BY <3>2, <3>3 DEF IsTable
    <3>5. FitsEntry(file)
      BY EmptyFits, SamplesAssumption
    <3>6. root'.val = [x \in Files |-> root'.val[x]] /\ \A x \in Files : FitsEntry(root'.val[x])
      BY <3>2, <3>4, <3>5
    <3> QED
      BY <2>1, <3>1, <3>4, <3>6 DEF MemTyped
  <2> QED
    BY <1>6, <2>2, <2>3 DEF SessionCall
<1>7. CASE SaveFatBlock
  <2>1. UNCHANGED <<disk_fd, stray, sb, fat, root, loaded>> /\ loaded
    BY <1>7 DEF SaveFatBlock, NumSaved, block_write
  <2>2. saving' > 0
    BY <1>7 DEF SaveFatBlock, NumSaved, ImageInv, TablesOfSuper, NotSaving
  <2> QED
    BY <2>1, <2>2 DEF MemTyped
<1>8. CASE SaveRoot
  <2>1. UNCHANGED <<disk_fd, stray, sb, fat, root, loaded>> /\ loaded /\ saving' = NumSaved + 1
        /\ NumSaved = sb.val.num_fat_blocks
    BY <1>8 DEF SaveRoot, NumSaved, block_write
  <2>2. sb.val.num_fat_blocks \in Nat
    BY <2>1, OpenDisk DEF ImageInv, TablesOfSuper
  <2>3. saving' > 0
    BY <2>1, <2>2
  <2> QED
    BY <2>1, <2>3 DEF MemTyped
<1>9. CASE EndUmount
  BY <1>9 DEF EndUmount, block_disk_close, MemTyped, IsTable, Freed
<1>10. CASE UmountFailed \/ UmountDangling \/ Kill
  BY <1>10, <1>1 DEF UmountFailed, UmountDangling, Kill
<1>11. CASE UNCHANGED mountVars
  BY <1>11 DEF mountVars, diskVars, memVars, MemTyped
<1> QED
  BY <1>3, <1>4, <1>5, <1>6, <1>7, <1>8, <1>9, <1>10, <1>11 DEF MountNext

-----------------------------------------------------------------------------
(* The blocks that a running fs_umount writes.                             *)
LEMMA FatSaved ==
  ASSUME ImageInv, SaveFatBlock
  PROVE  LET i == NumSaved IN
         /\ i \in Nat /\ i < sb.val.num_fat_blocks
         /\ host'[disk_fd].block[i + 1] = SavedFatBlock(fat.val, i)
         /\ \A h \in Hosts : h # disk_fd => host'[h] = host[h]
         /\ \A h \in Hosts : \A x \in DOMAIN host[h].block :
              host'[h].block[x] # host[h].block[x] => h = disk_fd /\ x = i + 1
<1> DEFINE i == NumSaved
           contents == SavedFatBlock(fat.val, i)
<1>1. sb.mem = "live"
  BY DEF ImageInv, TablesOfSuper, SaveFatBlock, NumSaved
<1>2. i \in Nat
  BY DEF ImageInv, TablesOfSuper, NotSaving, NumSaved
<1>3. i < sb.val.num_fat_blocks /\ block_write(i + 1, contents)
  BY DEF SaveFatBlock, NumSaved
<1>4. i + 1 \in 1 .. host[disk_fd].count - 1
  BY FatBlockWritten
<1> HIDE DEF contents, i
<1>5. /\ host'[disk_fd].block[i + 1] = contents
      /\ \A h \in Hosts : h # disk_fd => host'[h] = host[h]
      /\ \A h \in Hosts : \A x \in DOMAIN host[h].block :
           host'[h].block[x] # host[h].block[x] => h = disk_fd /\ x = i + 1
  BY <1>1, <1>3, <1>4, BlockWritten
<1> QED
  BY <1>2, <1>3, <1>5 DEF contents, i

LEMMA RootSavedHere ==
  ASSUME ImageInv, SaveRoot
  PROVE  LET r == sb.val.root_index IN
         /\ r < host[disk_fd].count =>
              host'[disk_fd].block[r] = SavedRootBlock(root.val)
         /\ \A h \in Hosts : h # disk_fd => host'[h] = host[h]
         /\ \A h \in Hosts : \A x \in DOMAIN host[h].block :
              host'[h].block[x] # host[h].block[x] =>
                h = disk_fd /\ x = r /\ host'[h].block[x] = SavedRootBlock(root.val)
<1> DEFINE r == sb.val.root_index
           contents == SavedRootBlock(root.val)
<1>1. sb.mem = "live"
  BY DEF ImageInv, TablesOfSuper, SaveRoot, NumSaved
<1>2. r = Super(disk_fd).root_index /\ r \in Nat /\ host[disk_fd].count \in Nat
      /\ DiskOpen /\ bcount = host[disk_fd].count
  BY <1>1, OpenDisk
<1>3. CASE r \in 1 .. host[disk_fd].count - 1 /\ block_write(r, contents)
  <2> HIDE DEF r, contents
  <2>1. /\ host'[disk_fd].block[r] = contents
        /\ \A h \in Hosts : h # disk_fd => host'[h] = host[h]
        /\ \A h \in Hosts : \A x \in DOMAIN host[h].block :
             host'[h].block[x] # host[h].block[x] => h = disk_fd /\ x = r
    BY <1>1, <1>3, BlockWritten
  <2> QED
    BY <2>1 DEF r, contents
<1>4. CASE UNCHANGED diskVars /\ ~(r < host[disk_fd].count)
  BY <1>4 DEF diskVars
<1>5. \/ r \in 1 .. host[disk_fd].count - 1 /\ block_write(r, contents)
      \/ UNCHANGED diskVars /\ ~(r < host[disk_fd].count)
  <2>1. r # 0
    BY <1>1 DEF ImageInv, SuperOnDisk, Accepts
  <2>2. block_write(r, contents)
    BY DEF SaveRoot, NumSaved
  <2>3. CASE r < host[disk_fd].count
    BY <1>2, <2>1, <2>2, <2>3
  <2>4. CASE ~(r < host[disk_fd].count)
    BY <1>2, <2>2, <2>4 DEF block_write, InBounds, diskVars
  <2> QED
    BY <2>3, <2>4
<1> QED
  BY <1>3, <1>4, <1>5

LEMMA BlocksStep ==
  ASSUME ImageInv, MemTyped, BlocksTyped, [MountNext]_mountVars
  PROVE  BlocksTyped'
<1>1. \A h \in Hosts : DOMAIN host'[h].block = DOMAIN host[h].block
  BY HostFilesStep DEF IsHostFile, ImageInv, HostTyped
<1>2. SUFFICES ASSUME NEW h \in Hosts, NEW b \in DOMAIN host[h].block,
                      host'[h].block[b] # host[h].block[b]
               PROVE  IsBlock(host'[h].block[b])
  BY <1>1 DEF BlocksTyped
<1>3. CASE SaveFatBlock
  <2>1. PICK i : host'[h].block[b] = SavedFatBlock(fat.val, i)
    BY <1>2, <1>3, FatSaved
  <2>2. \A n \in DOMAIN fat.val : fat.val[n] \in 0 .. FAT_EOC
    BY <1>3 DEF SaveFatBlock, NumSaved, MemTyped
  <2> QED
    BY <2>1, <2>2, FatBlockTyped
<1>4. CASE SaveRoot
  <2>1. host'[h].block[b] = SavedRootBlock(root.val)
    BY <1>2, <1>4, RootSavedHere
  <2>2. loaded
    BY <1>4 DEF SaveRoot, NumSaved
  <2> QED
    BY <2>1, <2>2, RootSaved DEF MemTyped
<1>5. CASE UmountFailed
  <2>1. CASE fat.mem = "live"
    <3>1. h = disk_fd /\ b \in 1 .. Super(disk_fd).num_fat_blocks
          /\ host'[h].block[b] = SavedFatBlock(fat.val, b - 1)
      BY <1>2, <1>5, <2>1, FailedWritten
    <3>2. \A n \in DOMAIN fat.val : fat.val[n] \in 0 .. FAT_EOC
      BY <2>1 DEF MemTyped
    <3> QED
      BY <3>1, <3>2, FatBlockTyped
  <2>2. CASE fat.mem # "live"
    BY <1>2, <1>5, <2>2 DEF UmountFailed
  <2> QED
    BY <2>1, <2>2
<1>6. CASE UmountDangling
  <2>1. host'[h].block[b] = [kind |-> "junk"]
    BY <1>2, <1>6, DanglingWritten
  <2> QED
    BY <2>1 DEF IsBlock
<1>7. CASE UNCHANGED host
  BY <1>2, <1>7
<1>8. ASSUME NEW x \in Hosts,
             MountOddSize(x) \/ MountNoSuperblock(x) \/ MountBadSuperblock(x)
               \/ MountBadFat(x) \/ MountBadRoot(x) \/ MountOk(x)
      PROVE  UNCHANGED host
  BY <1>8 DEF MountOddSize, OpenOddSize, MountNoSuperblock, MountBadSuperblock,
              MountBadFat, MountBadRoot, MountOk, LoadDisk, block_disk_open
<1>9. SessionCall \/ EndUmount \/ Kill \/ UNCHANGED mountVars => UNCHANGED host
  BY DEF SessionCall, EndUmount, Kill, mountVars, diskVars, block_disk_close
<1> QED
  BY <1>3, <1>4, <1>5, <1>6, <1>7, <1>8, <1>9 DEF MountNext

LEMMA TablesStep ==
  ASSUME ImageInv, MemTyped, TablesOfDisk, [MountNext]_mountVars
  PROVE  TablesOfDisk'
<1>1. ASSUME EndProcess PROVE TablesOfDisk'
  BY <1>1 DEF EndProcess, TablesOfDisk, Null
<1>2. ASSUME NEW h \in Hosts, LoadDisk(h)
      PROVE  /\ disk_fd' = h /\ host' = host
             /\ fat.mem # "live" /\ ~loaded /\ saving = NotSaving
  BY <1>2, NothingLive DEF LoadDisk, block_disk_open
(* Tables that have just been read.                                        *)
<1>3. ASSUME NEW h \in Hosts, LoadDisk(h), TablesLoad(h), saving' = saving,
             loaded' => root' = Allocated(AsRoot(RootSource(h)))
      PROVE  TablesOfDisk'
  <2>1. disk_fd' = h /\ host' = host
    BY <1>2, <1>3
  <2>2. /\ sb'.val = Super(h)
        /\ fat'.val = LoadedFat(host[h].block, Super(h))
    BY <1>3 DEF TablesLoad, Allocated
  <2>3. DOMAIN fat'.val = 0 .. sb'.val.num_data_blocks - 1
    BY <2>2 DEF LoadedFat
  <2>4. fat'.val = LoadedFat(host'[disk_fd'].block, sb'.val)
    BY <2>1, <2>2
  <2>5. loaded' => root'.val = AsRoot(RootSource(disk_fd)')
    BY <1>3, <2>1 DEF Allocated, RootSource, Super
  <2> QED
    BY <2>3, <2>4, <2>5 DEF TablesOfDisk
<1>4. ASSUME NEW h \in Hosts,
             MountOddSize(h) \/ MountNoSuperblock(h) \/ MountBadSuperblock(h)
               \/ MountBadFat(h) \/ MountBadRoot(h) \/ MountOk(h)
      PROVE  TablesOfDisk'
  <2>1. CASE MountOddSize(h)
    <3>1. fat.mem # "live" /\ ~loaded
      BY <2>1, NothingLive DEF MountOddSize, OpenOddSize
    <3> QED
      BY <2>1, <3>1 DEF MountOddSize, memVars, TablesOfDisk
  <2>2. CASE MountNoSuperblock(h)
    BY <1>2, <2>2 DEF MountNoSuperblock, TablesOfDisk
  <2>3. CASE MountBadSuperblock(h)
    BY <1>2, <2>3 DEF MountBadSuperblock, TablesOfDisk
  <2>4. CASE MountBadFat(h)
    <3>1. ~loaded' /\ disk_fd' = h /\ host' = host
      BY <1>2, <2>4 DEF MountBadFat
    <3>2. sb'.val = Super(h) /\ fat'.val = LoadedFat(host[h].block, Super(h))
      BY <2>4 DEF MountBadFat, Allocated
    <3> QED
      BY <3>1, <3>2 DEF TablesOfDisk, LoadedFat
  <2>5. CASE MountBadRoot(h)
    BY <1>2, <1>3, <2>5 DEF MountBadRoot
  <2>6. CASE MountOk(h)
    BY <1>3, <2>6 DEF MountOk
  <2> QED
    BY <1>4, <2>1, <2>2, <2>3, <2>4, <2>5, <2>6
<1>5. CASE SessionCall
  <2>1. /\ loaded /\ loaded' = loaded /\ changed' = TRUE
        /\ UNCHANGED <<host, disk_fd, sb, saving>>
    BY <1>5 DEF SessionCall, diskVars
  <2>2. IsTable(fat) /\ fat.mem = "live"
    BY <2>1 DEF MemTyped
  <2>3. DOMAIN fat'.val = DOMAIN fat.val
    <3>1. CASE fat' = fat
      BY <3>1
    <3>2. ASSUME NEW n \in DOMAIN fat.val, NEW e, fat' = [fat EXCEPT !.val[n] = e]
          PROVE  DOMAIN fat'.val = DOMAIN fat.val
      <4>1. fat = [mem |-> fat.mem, val |-> fat.val]
        BY <2>2 DEF IsTable
      <4>2. fat' = [mem |-> fat.mem, val |-> [fat.val EXCEPT ![n] = e]]
        BY <3>2, <4>1
      <4> QED
        BY <4>2
    <3> QED
      BY <1>5, <3>1, <3>2 DEF SessionCall
  <2>4. ~AsLoaded'
    BY <2>1 DEF AsLoaded
  <2> QED
    BY <2>1, <2>2, <2>3, <2>4 DEF TablesOfDisk
<1>6. CASE SaveFatBlock \/ SaveRoot
  <2>1. loaded /\ UNCHANGED <<disk_fd, sb, fat, root, loaded>>
    BY <1>6 DEF SaveFatBlock, NumSaved, SaveRoot, block_write
  <2>2. saving' \in Nat
    <3>1. sb.val.num_fat_blocks \in Nat
      BY <2>1, OpenDisk DEF ImageInv, TablesOfSuper
    <3> QED
      BY <1>6, <3>1 DEF SaveFatBlock, NumSaved, SaveRoot, ImageInv, TablesOfSuper, NotSaving
  <2>3. ~AsLoaded'
    BY <2>1, <2>2 DEF AsLoaded, NotSaving
  <2>4. fat.mem = "live"
    BY <2>1 DEF MemTyped
  <2> QED
    BY <2>1, <2>3, <2>4 DEF TablesOfDisk
<1>7. CASE EndUmount
  BY <1>7 DEF EndUmount, TablesOfDisk, Freed
<1>8. CASE UmountFailed \/ UmountDangling \/ Kill
  BY <1>8, <1>1 DEF UmountFailed, UmountDangling, Kill
<1>9. CASE UNCHANGED mountVars
  BY <1>9 DEF mountVars, diskVars, memVars, TablesOfDisk, AsLoaded, RootSource, Super
<1> QED
  BY <1>4, <1>5, <1>6, <1>7, <1>8, <1>9 DEF MountNext

(* A running fs_umount.                                                    *)
LEMMA SavedStep ==
  ASSUME ImageInv, MemTyped, SavedSoFar, saved = [h \in Hosts |-> saved[h]],
         [MountNext]_mountVars
  PROVE  SavedSoFar'
<1>1. ASSUME saving' = NotSaving PROVE SavedSoFar'
  BY <1>1 DEF SavedSoFar
<1>2. ASSUME NEW h \in Hosts,
             MountOddSize(h) \/ MountNoSuperblock(h) \/ MountBadSuperblock(h)
               \/ MountBadFat(h) \/ MountBadRoot(h) \/ MountOk(h)
      PROVE  saving' = NotSaving
  <2>1. ~DiskOpen /\ saving' = saving
    BY <1>2 DEF MountOddSize, OpenOddSize, MountNoSuperblock, MountBadSuperblock, MountBadFat,
                MountBadRoot, MountOk, LoadDisk, block_disk_open, memVars
  <2> QED
    BY <2>1, NothingLive
<1>3. CASE SaveFatBlock
  <2> DEFINE i == NumSaved
  <2>1. /\ i \in Nat /\ i < sb.val.num_fat_blocks
        /\ host'[disk_fd].block[i + 1] = SavedFatBlock(fat.val, i)
        /\ \A x \in DOMAIN host[disk_fd].block :
             host'[disk_fd].block[x] # host[disk_fd].block[x] => x = i + 1
        /\ sb.mem = "live"
    BY <1>3, FatSaved, OpenDisk DEF ImageInv, TablesOfSuper, SaveFatBlock, NumSaved
  <2>2. /\ disk_fd \in Hosts /\ 1 \in DOMAIN host[disk_fd].block
        /\ sb.val.num_fat_blocks \in Nat
    BY <2>1, OpenDisk
  <2>3. UNCHANGED <<disk_fd, sb, fat, root>> /\ saving' = i + 1
        /\ saved' = [saved EXCEPT ![disk_fd] = Unknown]
    BY <1>3 DEF SaveFatBlock, NumSaved, block_write
  <2>4. saved'[disk_fd'] = Unknown
    BY <2>2, <2>3
  <2>5. saving' # sb'.val.num_fat_blocks + 1
    BY <2>1, <2>2, <2>3
  <2>6. sb.val.num_fat_blocks > 0 /\ sb.val.root_index = sb.val.num_fat_blocks + 1 =>
          host'[disk_fd].block[1] = SavedFatBlock(fat.val, 0)
    <3>1. CASE i = 0
      BY <2>1, <3>1
    <3>2. CASE i # 0
      <4>1. saving # NotSaving /\ i + 1 # 1
        BY <2>1, <3>2 DEF NumSaved
      <4>2. host'[disk_fd].block[1] = host[disk_fd].block[1]
        BY <2>1, <2>2, <4>1
      <4> QED
        BY <4>1, <4>2 DEF SavedSoFar
    <3> QED
      BY <3>1, <3>2
  <2> QED
    BY <2>3, <2>4, <2>5, <2>6 DEF SavedSoFar
<1>4. CASE SaveRoot
  <2> DEFINE r == sb.val.root_index
  <2>1. sb.mem = "live"
    BY <1>4 DEF ImageInv, TablesOfSuper, SaveRoot, NumSaved
  <2>2. /\ disk_fd \in Hosts /\ host[disk_fd].count \in Nat
        /\ DOMAIN host[disk_fd].block = 0 .. host[disk_fd].count - 1
        /\ sb.val.num_fat_blocks \in Nat /\ sb.val.num_fat_blocks < host[disk_fd].count
    BY <2>1, OpenDisk
  <2>3. /\ r < host[disk_fd].count => host'[disk_fd].block[r] = SavedRootBlock(root.val)
        /\ \A x \in DOMAIN host[disk_fd].block :
             host'[disk_fd].block[x] # host[disk_fd].block[x] => x = r
    BY <1>4, <2>2, RootSavedHere
  <2>4. /\ UNCHANGED <<disk_fd, sb, fat, root>> /\ saved' = [saved EXCEPT ![disk_fd] = Unknown]
        /\ NumSaved = sb.val.num_fat_blocks
    BY <1>4 DEF SaveRoot, NumSaved, block_write
  <2>5. sb.val.num_fat_blocks > 0 => saving # NotSaving
    BY <2>4 DEF NumSaved
  <2>6. sb.val.num_fat_blocks > 0 /\ r = sb.val.num_fat_blocks + 1 =>
          host'[disk_fd].block[1] = host[disk_fd].block[1]
    BY <2>2, <2>3
  <2>7. saved'[disk_fd'] = Unknown
    BY <2>2, <2>4
  <2>8. host'[disk_fd].count = host[disk_fd].count
    BY <2>2, HostFilesStep
  <2> HIDE DEF r
  <2> QED
    BY <2>3, <2>4, <2>5, <2>6, <2>7, <2>8 DEF SavedSoFar, r
<1>5. CASE SessionCall \/ EndUmount \/ UmountFailed \/ UmountDangling \/ Kill
  BY <1>1, <1>5 DEF SessionCall, EndUmount, UmountFailed, UmountDangling, Kill, EndProcess
<1>6. CASE UNCHANGED mountVars
  BY <1>6 DEF mountVars, diskVars, memVars, SavedSoFar
<1> QED
  BY <1>1, <1>2, <1>3, <1>4, <1>5, <1>6 DEF MountNext

-----------------------------------------------------------------------------
(* A volume whose superblock, directory and first FAT block read the same. *)
LEMMA SameVolume ==
  ASSUME NEW f1, NEW f2,
         f2.count = f1.count, f2.tail = f1.tail,
         f2.block[0] = f1.block[0],
         LET s == AsSuper(f1.block[0]) IN
           /\ f2.block[s.root_index] = f1.block[s.root_index]
           /\ \A n \in FirstBlockEntries(s) :
                FatEntryOnDisk(f2.block, n) = FatEntryOnDisk(f1.block, n),
         InLayout(f1)
  PROVE  InLayout(f2) /\ Contents(f2) = Contents(f1)
<1> DEFINE s == AsSuper(f1.block[0])
<1>1. AsSuper(f2.block[0]) = s
  OBVIOUS
<1>2. InLayout(f2)
  BY <1>1 DEF InLayout
<1>3. [n \in FirstBlockEntries(s) |-> FatEntryOnDisk(f2.block, n)]
        = [n \in FirstBlockEntries(s) |-> FatEntryOnDisk(f1.block, n)]
  OBVIOUS
<1>4. AsRoot(f2.block[s.root_index]) = AsRoot(f1.block[s.root_index])
  OBVIOUS
<1> HIDE DEF s
<1> QED
  BY <1>1, <1>2, <1>3, <1>4 DEF Contents, s

(* The end of fs_umount: the disk holds the tables in memory.              *)
LEMMA SavedIsHeld ==
  ASSUME ImageInv, TableInv, EndUmount, InLayout(host[disk_fd])
  PROVE  Contents(host[disk_fd]) = SavedNow
<1> DEFINE s     == sb.val
           block == host[disk_fd].block
<1>1. sb.mem = "live" /\ loaded
  BY DEF ImageInv, TablesOfSuper, EndUmount
<1>2. /\ s = AsSuper(block[0]) /\ s.num_fat_blocks \in Nat /\ s.num_fat_blocks > 0
      /\ s.root_index = s.num_fat_blocks + 1 /\ s.root_index < host[disk_fd].count
  BY <1>1, OpenDisk DEF Super, InLayout
<1>3. saving = s.num_fat_blocks + 1 /\ saving # NotSaving
  BY <1>2 DEF EndUmount, NotSaving
<1>4. /\ block[1] = SavedFatBlock(fat.val, 0)
      /\ block[s.root_index] = SavedRootBlock(root.val)
  BY <1>2, <1>3 DEF TableInv, SavedSoFar
<1>5. /\ root.val = [f \in Files |-> root.val[f]]
      /\ \A f \in Files : FitsEntry(root.val[f])
      /\ fat.mem = "live"
      /\ DOMAIN fat.val = 0 .. s.num_data_blocks - 1
  BY <1>1 DEF TableInv, MemTyped, TablesOfDisk
<1>6. AsRoot(block[s.root_index]) = root.val
  BY <1>4, <1>5, RootSaved
<1>7. ASSUME NEW n \in FirstBlockEntries(s)
      PROVE  FatEntryOnDisk(block, n) = fat.val[n]
  <2>1. n \in Nat /\ n < EntriesPerBlock /\ n \in DOMAIN fat.val
    BY <1>5 DEF FirstBlockEntries
  <2>2. FatEntryOnDisk(block, n) = AsFat(block[1])[n]
    BY <2>1, Place DEF FatEntryOnDisk
  <2> QED
    BY <1>4, <2>1, <2>2, SavedEntry
<1>8. [n \in FirstBlockEntries(s) |-> FatEntryOnDisk(block, n)]
        = [n \in FirstBlockEntries(s) |-> fat.val[n]]
  BY <1>7
<1> HIDE DEF s, block
<1>9. Contents(host[disk_fd]) =
        [known |-> TRUE,
         fat   |-> [n \in FirstBlockEntries(s) |-> FatEntryOnDisk(block, n)],
         root  |-> AsRoot(block[s.root_index])]
  BY <1>2 DEF Contents, block
<1>10. SavedNow = [known |-> TRUE,
                   fat   |-> [n \in FirstBlockEntries(s) |-> fat.val[n]],
                   root  |-> root.val]
  BY DEF SavedNow, s
<1> QED
  BY <1>6, <1>8, <1>9, <1>10

(* fs_umount after a failed mount puts back what it read.                  *)
LEMMA FailedKeeps ==
  ASSUME ImageInv, TableInv, UmountFailed, fat.mem = "live", InLayout(host[disk_fd])
  PROVE  InLayout(host'[disk_fd]) /\ Contents(host'[disk_fd]) = Contents(host[disk_fd])
<1> DEFINE s   == sb.val
           f1  == host[disk_fd]
           f2  == host'[disk_fd]
<1>1. sb.mem = "live"
  BY DEF ImageInv, TablesOfSuper
<1>2. /\ s = AsSuper(f1.block[0]) /\ s.num_fat_blocks \in Nat /\ s.num_fat_blocks > 0
      /\ f1.count \in Nat /\ f1.count > 0 /\ s.num_fat_blocks < f1.count
      /\ DOMAIN f1.block = 0 .. f1.count - 1
      /\ s.root_index = s.num_fat_blocks + 1 /\ s.root_index < f1.count
  BY <1>1, OpenDisk DEF Super, InLayout
<1>3. /\ f2.count = f1.count /\ f2.tail = f1.tail
      /\ \A b \in DOMAIN f1.block :
           f2.block[b] = IF b \in 1 .. s.num_fat_blocks
                         THEN SavedFatBlock(fat.val, b - 1) ELSE f1.block[b]
  BY FailedWritten
<1>4. f2.block[0] = f1.block[0] /\ f2.block[s.root_index] = f1.block[s.root_index]
  BY <1>2, <1>3
<1>5. /\ fat.val = LoadedFat(f1.block, s)
      /\ DOMAIN fat.val = 0 .. s.num_data_blocks - 1
  BY DEF UmountFailed, Failed, TableInv, TablesOfDisk, AsLoaded
<1>6. ASSUME NEW n \in FirstBlockEntries(s)
      PROVE  FatEntryOnDisk(f2.block, n) = FatEntryOnDisk(f1.block, n)
  <2>1. n \in Nat /\ n < EntriesPerBlock /\ n \in 0 .. s.num_data_blocks - 1
    BY DEF FirstBlockEntries
  <2>2. /\ FatEntryOnDisk(f1.block, n) = AsFat(f1.block[1])[n]
        /\ FatEntryOnDisk(f2.block, n) = AsFat(f2.block[1])[n]
    BY <2>1, Place DEF FatEntryOnDisk
  <2>3. f2.block[1] = SavedFatBlock(fat.val, 0)
    BY <1>2, <1>3
  <2>4. AsFat(f2.block[1])[n] = fat.val[n]
    BY <1>5, <2>1, <2>3, SavedEntry
  <2>5. fat.val[n] = AsFat(f1.block[1])[n]
    BY <1>2, <1>5, <2>1, LoadedEntry
  <2> QED
    BY <2>2, <2>4, <2>5
<1> HIDE DEF f1, f2, s
<1>7. InLayout(f2) /\ Contents(f2) = Contents(f1)
  <2>1. InLayout(f1)
    BY DEF f1
  <2> QED
    BY <1>2, <1>3, <1>4, <1>6, <2>1, SameVolume
<1> QED
  BY <1>7 DEF f1, f2

LEMMA HoldsStep ==
  ASSUME ImageInv, TableInv, [MountNext]_mountVars
  PROVE  DiskHoldsSaved' /\ saved' = [h \in Hosts |-> saved'[h]]
<1> DEFINE Holds(h) == saved'[h] # Unknown =>
             InLayout(host'[h]) /\ Contents(host'[h]) = saved'[h]
<1>1. saved = [h \in Hosts |-> saved[h]] /\ DiskHoldsSaved
  BY DEF TableInv
<1>2. ASSUME NEW h \in Hosts, host'[h] = host[h], saved'[h] = saved[h]
      PROVE  Holds(h)
  BY <1>1, <1>2 DEF DiskHoldsSaved
<1>3. SUFFICES saved' = [h \in Hosts |-> saved'[h]] /\ \A h \in Hosts : Holds(h)
  BY DEF DiskHoldsSaved
<1>4. ASSUME UNCHANGED <<host, saved>>
      PROVE  saved' = [h \in Hosts |-> saved'[h]] /\ \A h \in Hosts : Holds(h)
  BY <1>1, <1>2, <1>4
<1>5. ASSUME NEW h \in Hosts,
             MountOddSize(h) \/ MountNoSuperblock(h) \/ MountBadSuperblock(h)
               \/ MountBadFat(h) \/ MountBadRoot(h) \/ MountOk(h)
      PROVE  UNCHANGED <<host, saved>>
  BY <1>5 DEF MountOddSize, OpenOddSize, MountNoSuperblock, MountBadSuperblock,
              MountBadFat, MountBadRoot, MountOk, LoadDisk, block_disk_open
<1>6. SessionCall \/ Kill \/ UNCHANGED mountVars => UNCHANGED <<host, saved>>
  BY DEF SessionCall, Kill, mountVars, diskVars
<1>7. CASE SaveFatBlock
  <2>1. /\ saved' = [saved EXCEPT ![disk_fd] = Unknown]
        /\ \A h \in Hosts : h # disk_fd => host'[h] = host[h]
    BY <1>7, FatSaved DEF SaveFatBlock, NumSaved
  <2>2. saved' = [h \in Hosts |-> saved'[h]]
    BY <1>1, <2>1
  <2>3. \A h \in Hosts : IF h = disk_fd THEN saved'[h] = Unknown ELSE saved'[h] = saved[h]
    BY <1>1, <2>1
  <2> QED
    BY <1>2, <2>1, <2>2, <2>3
<1>8. CASE SaveRoot
  <2>1. /\ saved' = [saved EXCEPT ![disk_fd] = Unknown]
        /\ \A h \in Hosts : h # disk_fd => host'[h] = host[h]
    BY <1>8, RootSavedHere DEF SaveRoot
  <2>2. saved' = [h \in Hosts |-> saved'[h]]
    BY <1>1, <2>1
  <2>3. \A h \in Hosts : IF h = disk_fd THEN saved'[h] = Unknown ELSE saved'[h] = saved[h]
    BY <1>1, <2>1
  <2> QED
    BY <1>2, <2>1, <2>2, <2>3
<1>9. CASE EndUmount
  <2>1. /\ host' = host
        /\ saved' = [saved EXCEPT ![disk_fd] =
                       IF InLayout(host[disk_fd]) THEN SavedNow ELSE Unknown]
    BY <1>9 DEF EndUmount, block_disk_close
  <2>2. saved' = [h \in Hosts |-> saved'[h]]
    BY <1>1, <2>1
  <2>3. \A h \in Hosts :
          IF h = disk_fd
          THEN saved'[h] = IF InLayout(host[disk_fd]) THEN SavedNow ELSE Unknown
          ELSE saved'[h] = saved[h]
    BY <1>1, <2>1
  <2>4. InLayout(host[disk_fd]) => Contents(host[disk_fd]) = SavedNow
    BY <1>9, SavedIsHeld
  <2> QED
    BY <1>2, <2>1, <2>2, <2>3, <2>4
<1>10. CASE UmountFailed
  <2>1. saved' = saved
    BY <1>10 DEF UmountFailed
  <2>2. CASE fat.mem # "live"
    <3>1. host' = host
      BY <1>10, <2>2 DEF UmountFailed
    <3> QED
      BY <1>4, <2>1, <3>1
  <2>3. CASE fat.mem = "live"
    <3>1. disk_fd \in Hosts /\ \A h \in Hosts : h # disk_fd => host'[h] = host[h]
      BY <1>10, <2>3, FailedWritten
    <3>2. InLayout(host[disk_fd]) =>
            InLayout(host'[disk_fd]) /\ Contents(host'[disk_fd]) = Contents(host[disk_fd])
      BY <1>10, <2>3, FailedKeeps
    <3>3. Holds(disk_fd)
      BY <1>1, <2>1, <3>1, <3>2 DEF DiskHoldsSaved
    <3> QED
      BY <1>1, <1>2, <2>1, <3>1, <3>3
  <2> QED
    BY <2>2, <2>3
<1>11. CASE UmountDangling
  <2>1. saved' = [saved EXCEPT ![disk_fd] = Unknown]
    BY <1>11 DEF UmountDangling
  <2>2. \A h \in Hosts : h # disk_fd => host'[h] = host[h]
    BY <1>11, DanglingWritten
  <2>3. saved' = [h \in Hosts |-> saved'[h]]
    BY <1>1, <2>1
  <2>4. \A h \in Hosts : IF h = disk_fd THEN saved'[h] = Unknown ELSE saved'[h] = saved[h]
    BY <1>1, <2>1
  <2> QED
    BY <1>2, <2>2, <2>3, <2>4
<1> QED
  BY <1>4, <1>5, <1>6, <1>7, <1>8, <1>9, <1>10, <1>11 DEF MountNext

LEMMA TableStep == ImageInv /\ TableInv /\ [MountNext]_mountVars => TableInv'
<1> SUFFICES ASSUME ImageInv, TableInv, [MountNext]_mountVars PROVE TableInv'
  OBVIOUS
<1>1. MemTyped' /\ BlocksTyped' /\ TablesOfDisk' /\ SavedSoFar'
  BY MemStep, BlocksStep, TablesStep, SavedStep DEF TableInv
<1> QED
  BY <1>1, HoldsStep DEF TableInv

LEMMA TableInvariant == MountSpec => [](ImageInv /\ TableInv)
BY ImageInit, ImageNext, TableInit, TableStep, PTL DEF MountSpec

-----------------------------------------------------------------------------
(* The globals of fs.c and disk.c: where fs_mount has returned 0 all       *)
(* tables are live and the superblock counts the blocks of the open disk;  *)
(* fs_umount runs on such tables only; host files keep their blocks.       *)
THEOREM MountTypeCorrect == MountSpec => []MountTypeOK
<1>1. ImageInv /\ TableInv => MountTypeOK
  <2> SUFFICES ASSUME ImageInv, TableInv PROVE MountTypeOK
    OBVIOUS
  <2>1. /\ disk_fd \in Hosts \union {INVALID_FD} /\ stray \in 0 .. MaxHostFds
        /\ {sb.mem, fat.mem, root.mem} \subseteq {"null", "live", "freed", "partial"}
        /\ loaded => {sb.mem, fat.mem, root.mem} = {"live"}
        /\ saving # NotSaving => loaded
    BY DEF TableInv, MemTyped, IsTable
  <2>2. \A h \in Hosts : DOMAIN host[h].block = 0 .. host[h].count - 1
    BY DEF ImageInv, HostTyped, IsHostFile
  <2>3. loaded => sb.val.num_blocks = block_disk_count
    BY OpenDisk DEF block_disk_count, ImageInv, TablesOfSuper
  <2> QED
    BY <2>1, <2>2, <2>3 DEF MountTypeOK
<1> QED
  BY <1>1, TableInvariant, PTL

(* Every disk in the formatter's layout holds what the last fs_umount that *)
(* ran to its end put there, byte for byte decoded: through sessions on    *)
(* other disks, mounts that fail, the fs_umount that may follow one, and   *)
(* processes that die at any block.                                        *)
THEOREM SavesCorrect == MountSpec => []DiskHoldsSaved
<1>1. TableInv => DiskHoldsSaved
  BY DEF TableInv
<1> QED
  BY <1>1, TableInvariant, PTL

(* And the fs_mount that succeeds reads it back.                           *)
THEOREM LoadsCorrect == MountSpec => []MountLoadsSaved
<1>1. ImageInv /\ TableInv => MountLoadsSaved
  <2> SUFFICES ASSUME ImageInv, TableInv,
                      loaded, ~changed, saving = NotSaving, saved[disk_fd] # Unknown
               PROVE  /\ root.val = saved[disk_fd].root
                      /\ \A n \in DOMAIN saved[disk_fd].fat :
                           fat.val[n] = saved[disk_fd].fat[n]
    BY DEF MountLoadsSaved
  <2> DEFINE s    == sb.val
             file == host[disk_fd]
  <2>1. sb.mem = "live" /\ fat.mem = "live" /\ AsLoaded
    BY DEF TableInv, MemTyped, AsLoaded
  <2>2. /\ disk_fd \in Hosts /\ s = Super(disk_fd) /\ s = AsSuper(file.block[0])
        /\ s.num_fat_blocks \in Nat /\ file.count \in Nat
    BY <2>1, OpenDisk DEF Super
  <2>3. InLayout(file) /\ Contents(file) = saved[disk_fd]
    BY <2>2 DEF TableInv, DiskHoldsSaved
  <2>4. /\ s.root_index = s.num_fat_blocks + 1 /\ s.root_index < file.count
        /\ s.num_fat_blocks > 0
    BY <2>2, <2>3 DEF InLayout
  <2>5. /\ root.val = AsRoot(RootSource(disk_fd))
        /\ fat.val = LoadedFat(file.block, s)
    BY <2>1 DEF TableInv, TablesOfDisk
  <2>6. RootSource(disk_fd) = file.block[s.root_index]
    BY <2>2, <2>4 DEF RootSource
  <2>7. /\ saved[disk_fd].root = AsRoot(file.block[s.root_index])
        /\ saved[disk_fd].fat =
             [n \in FirstBlockEntries(s) |-> FatEntryOnDisk(file.block, n)]
    BY <2>2, <2>3 DEF Contents
  <2>8. ASSUME NEW n \in FirstBlockEntries(s)
        PROVE  fat.val[n] = FatEntryOnDisk(file.block, n)
    <3>1. n \in Nat /\ n < EntriesPerBlock /\ n \in 0 .. s.num_data_blocks - 1
      BY DEF FirstBlockEntries
    <3> QED
      BY <2>2, <2>4, <2>5, <3>1, LoadedEntry
  <2> HIDE DEF s, file
  <2> QED
    BY <2>5, <2>6, <2>7, <2>8
<1> QED
  BY <1>1, TableInvariant, PTL

=============================================================================
