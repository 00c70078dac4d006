---------------------------- MODULE NamespaceProofs ----------------------------
(***************************************************************************)
(* FileSystem implements Namespace: every step of the library, crashes in  *)
(* fs_umount included, is one step of the store of named files or none.    *)
(***************************************************************************)
EXTENDS NamespaceRefinement, FileSystemProofs

(***************************************************************************)
(* The files of a directory as a function from names to sizes.             *)
(***************************************************************************)
NamesOf(r) == {r[i].filename : i \in Live(r)}

(* g gives the name of every file of r its size, and nothing else.         *)
IsTable(r, g) ==
  /\ g = [name \in NamesOf(r) |-> g[name]]
  /\ \A i \in Live(r) : g[r[i].filename] = r[i].file_size

LEMMA FilesTable ==
  ASSUME NEW r, NamesDiffer(r)
  PROVE  IsTable(r, FilesOf(r))
<1> DEFINE entry(name) == CHOOSE i \in Live(r) : r[i].filename = name
<1>1. FilesOf(r) = [name \in NamesOf(r) |-> r[entry(name)].file_size]
  BY DEF FilesOf, NamesOf
<1>2. ASSUME NEW i \in Live(r)
      PROVE  r[i].filename \in NamesOf(r) /\ entry(r[i].filename) = i
  <2>1. entry(r[i].filename) \in Live(r) /\ r[entry(r[i].filename)].filename = r[i].filename
    OBVIOUS
  <2> QED
    BY <2>1 DEF NamesDiffer, NamesOf
<1> HIDE DEF entry
<1> QED
  BY <1>1, <1>2 DEF IsTable

(* It is the only such function.                                           *)
LEMMA IsFilesOf ==
  ASSUME NEW r, NamesDiffer(r), NEW g, IsTable(r, g)
  PROVE  FilesOf(r) = g
<1>1. ASSUME NEW name \in NamesOf(r)
      PROVE  FilesOf(r)[name] = g[name]
  <2>1. PICK i \in Live(r) : name = r[i].filename
    BY DEF NamesOf
  <2>2. FilesOf(r)[r[i].filename] = r[i].file_size /\ g[r[i].filename] = r[i].file_size
    BY FilesTable DEF IsTable
  <2> QED
    BY <2>1, <2>2
<1>2. FilesOf(r) = [name \in NamesOf(r) |-> FilesOf(r)[name]]
  BY FilesTable DEF IsTable
<1>3. g = [name \in NamesOf(r) |-> g[name]]
  BY DEF IsTable
<1> QED
  BY <1>1, <1>2, <1>3

LEMMA SameFilesTable ==
  ASSUME NEW r, NEW r2, NamesDiffer(r),
         \A i \in Files : r2[i].filename = r[i].filename /\ r2[i].file_size = r[i].file_size
  PROVE  FilesOf(r2) = FilesOf(r)
<1>1. Live(r2) = Live(r) /\ NamesDiffer(r2)
  BY SameNames
<1>2. Live(r) \subseteq Files
  BY DEF Live
<1>3. NamesOf(r) = NamesOf(r2)
  BY <1>1, <1>2 DEF NamesOf
<1>4. IsTable(r2, FilesOf(r))
  BY <1>1, <1>2, <1>3, FilesTable DEF IsTable
<1> QED
  BY <1>1, <1>4, IsFilesOf

(* How the store, an instance of its own module, counts its files.         *)
LEMMA SameCount ==
  ASSUME NEW S
  PROVE  Store!Cardinality(S) = Cardinality(S)
BY DEF Store!Cardinality, Cardinality

(* A directory with room has fewer files than entries.                     *)
LEMMA RoomForFile ==
  ASSUME NEW r, NEW e \in Files, e \notin Live(r)
  PROVE  Cardinality(NamesOf(r)) < NumFiles
<1> DEFINE f == [i \in Live(r) |-> r[i].filename]
<1>1. IsFiniteSet(Files) /\ Cardinality(Files) = NumFiles
  <2>1. 0 \in Int /\ NumFiles - 1 \in Int
    BY NumFilesAssumption
  <2>2. IsFiniteSet(0 .. NumFiles - 1) /\
        Cardinality(0 .. NumFiles - 1) = IF 0 > NumFiles - 1 THEN 0 ELSE (NumFiles - 1) - 0 + 1
    BY <2>1, FS_Interval
  <2> QED
    BY <2>2, NumFilesAssumption DEF Files
<1>2. IsFiniteSet(Files \ {e}) /\ Cardinality(Files \ {e}) = NumFiles - 1
  BY <1>1, FS_RemoveElement
<1>3. Live(r) \in SUBSET (Files \ {e})
  BY DEF Live
<1>4. IsFiniteSet(Live(r)) /\ Cardinality(Live(r)) =< NumFiles - 1
  BY <1>2, <1>3, FS_Subset
<1>5. f \in Surjection(Live(r), NamesOf(r))
  BY DEF Surjection, NamesOf
<1>6. IsFiniteSet(NamesOf(r)) /\ Cardinality(NamesOf(r)) <= Cardinality(Live(r))
  BY <1>4, <1>5, FS_Surjection
<1>7. Cardinality(NamesOf(r)) \in Nat /\ Cardinality(Live(r)) \in Nat
  BY <1>4, <1>6, FS_CardinalityType
<1> QED
  BY <1>4, <1>6, <1>7, NumFilesAssumption

-----------------------------------------------------------------------------
(***************************************************************************)
(* One step of the library is one of the store, or none.                   *)
(***************************************************************************)

(* What the store's descriptors are.                                       *)
LEMMA DescriptorIs ==
  ASSUME TypeInv, NEW fd \in Fds
  PROVE  /\ ~(status = "mounted" /\ IsOpen(fd)) => Descriptor(fd) = NULL
         /\ status = "mounted" /\ IsOpen(fd) =>
              /\ Descriptor(fd) # NULL
              /\ Descriptor(fd).name = root[open_files[fd].file].filename
              /\ Descriptor(fd).offset = open_files[fd].offset
              /\ open_files[fd] \in FileDescriptor
              /\ open_files[fd].file \in Files
<1>1. CASE status = "mounted" /\ IsOpen(fd)
  <2>1. open_files[fd] \in FileDescriptor /\ root \in Root
    BY <1>1 DEF TypeInv, TypeOK, IsOpen
  <2>2. /\ open_files[fd].file \in Files
        /\ open_files[fd].offset \in 0 .. OffsetMod - 1
        /\ root[open_files[fd].file].filename \in Names \union {NoName}
    BY <2>1 DEF FileDescriptor, Root, File
  <2>3. Descriptor(fd) = [name |-> root[open_files[fd].file].filename,
                          offset |-> open_files[fd].offset]
    BY <1>1 DEF Descriptor
  <2> QED
    BY <1>1, <2>1, <2>2, <2>3, NULLNameAssumption
<1>2. CASE ~(status = "mounted" /\ IsOpen(fd))
  BY <1>2 DEF Descriptor
<1> QED
  BY <1>1, <1>2

(* Steps the store does not see.                                           *)
LEMMA SameStore ==
  ASSUME TypeInv, DescriptorInv,
         status' = "mounted" <=> status = "mounted",
         disk'.root = disk.root,
         status = "mounted" =>
           /\ \A i \in Files : /\ root'[i].filename = root[i].filename
                               /\ root'[i].file_size = root[i].file_size
           /\ \A fd \in Fds : open_files'[fd] = open_files[fd]
  PROVE  UNCHANGED Store!vars
<1>1. CASE status = "mounted"
  <2>1. FilesOf(root') = FilesOf(root)
    BY <1>1, SameFilesTable DEF DescriptorInv, OpenFilesExist
  <2>2. ASSUME NEW fd \in Fds
        PROVE  Descriptor(fd)' = Descriptor(fd)
    <3>1. IsOpen(fd) => open_files[fd].file \in Files
      BY <1>1, DescriptorIs
    <3> QED
      BY <1>1, <2>2, <3>1 DEF Descriptor, IsOpen
  <2> QED
    BY <1>1, <2>1, <2>2 DEF Store!vars
<1>2. CASE status # "mounted"
  <2>1. \A fd \in Fds : Descriptor(fd) = NULL /\ Descriptor(fd)' = NULL
    BY <1>2 DEF Descriptor
  <2> QED
    BY <1>2, <2>1 DEF Store!vars
<1> QED
  BY <1>1, <1>2

(* The end of a session.                                                   *)
LEMMA NoDescriptors ==
  ASSUME status' # "mounted"
  PROVE  [fd \in Fds |-> Descriptor(fd)]' = Store!Closed
BY DEF Descriptor, Store!Closed

LEMMA MountRefines ==
  ASSUME TypeInv, DescriptorInv, MountOk
  PROVE  Store!Mount
<1>1. status # "mounted" /\ status' = "mounted" /\ root' = disk.root /\ disk' = disk
      /\ open_files' = NoneOpen
  BY DEF MountOk
<1>2. \A fd \in Fds : Descriptor(fd) = NULL /\ Descriptor(fd)' = NULL
  BY <1>1 DEF Descriptor, IsOpen, NoneOpen
<1> QED
  BY <1>1, <1>2 DEF Store!Mount, Store!Closed

LEMMA UmountRefines ==
  ASSUME TypeInv, DescriptorInv, UmountRoot
  PROVE  Store!Umount
<1>1. status = "mounted" /\ status' # "mounted" /\ disk'.root = root
  BY DEF UmountRoot, DescriptorInv, TypeInv, TypeOK
<1> QED
  BY <1>1, NoDescriptors DEF Store!Umount

LEMMA KillRefines ==
  ASSUME TypeInv, DescriptorInv, Kill
  PROVE  Store!Crash
<1>1. status' # "mounted" /\ disk' = disk
  BY DEF Kill
<1> QED
  BY <1>1, NoDescriptors DEF Store!Crash

LEMMA CreateRefines ==
  ASSUME TypeInv, DescriptorInv, DescriptorInv', NEW name \in Names, Create(name)
  PROVE  Store!Create(name)
<1> DEFINE e == Least(Named(NoName))
           F == FilesOf(root)
           g == [n \in DOMAIN F \union {name} |-> IF n = name THEN 0 ELSE F[n]]
<1>1. /\ status = "mounted" /\ status' = "mounted" /\ disk' = disk /\ open_files' = open_files
      /\ root' = [root EXCEPT ![e] =
           [filename |-> name, file_size |-> 0, first_index |-> FAT_EOC]]
      /\ \A i \in Files : root[i].filename # name
      /\ root \in Root /\ NoName \notin Names
      /\ NamesDiffer(root) /\ NamesDiffer(root')
  BY NamesAssumption DEF Create, Ready, Named, TypeInv, TypeOK, DescriptorInv, OpenFilesExist
<1>2. e \in Files /\ root[e].filename = NoName
  BY EmptyEntryIsFile DEF Create, Named
<1> HIDE DEF e
<1>3. /\ root'[e].filename = name /\ root'[e].file_size = 0
      /\ \A i \in Files : i # e => root'[i] = root[i]
  BY <1>1, <1>2 DEF Root
<1>4. Live(root') = Live(root) \union {e} /\ e \notin Live(root) /\ Live(root) \subseteq Files
  BY <1>1, <1>2, <1>3 DEF Live
<1>5. /\ DOMAIN F = NamesOf(root)
      /\ \A i \in Live(root) : F[root[i].filename] = root[i].file_size
  BY <1>1, FilesTable DEF IsTable
<1> HIDE DEF F
<1>6. name \notin DOMAIN F
  BY <1>1, <1>4, <1>5 DEF NamesOf
<1>7. Cardinality(DOMAIN F) < NumFiles
  BY <1>2, <1>4, <1>5, RoomForFile
<1>8. FilesOf(root') = g
  <2>1. DOMAIN F \union {name} = NamesOf(root')
    BY <1>3, <1>4, <1>5 DEF NamesOf
  <2>2. ASSUME NEW i \in Live(root')
        PROVE  g[root'[i].filename] = root'[i].file_size
    <3>1. CASE i = e
      BY <1>3, <3>1
    <3>2. CASE i # e
      <4>1. i \in Live(root) /\ root'[i] = root[i] /\ root[i].filename # name
        BY <1>1, <1>3, <1>4, <3>2
      <4>2. root[i].filename \in DOMAIN F
        BY <1>5, <4>1 DEF NamesOf
      <4> QED
        BY <1>5, <4>1, <4>2
    <3> QED
      BY <3>1, <3>2
  <2>3. g = [n \in NamesOf(root') |-> g[n]]
    BY <2>1
  <2> HIDE DEF g
  <2>4. IsTable(root', g)
    BY <2>2, <2>3 DEF IsTable
  <2> QED
    BY <1>1, <2>4, IsFilesOf
<1>9. ASSUME NEW fd \in Fds
      PROVE  Descriptor(fd)' = Descriptor(fd)
  <2>1. IsOpen(fd) => open_files[fd].file \in Live(root)
    BY <1>1, <1>9 DEF DescriptorInv, OpenFilesExist, OpenFds
  <2>2. IsOpen(fd) => root'[open_files[fd].file] = root[open_files[fd].file]
    BY <1>3, <1>4, <2>1
  <2> QED
    BY <1>1, <2>2 DEF Descriptor, IsOpen
<1> QED
  BY <1>1, <1>6, <1>7, <1>8, <1>9, SameCount DEF Store!Create, F

LEMMA DeleteRefines ==
  ASSUME TypeInv, DescriptorInv, DescriptorInv',
         status = "mounted", status' = "mounted", disk' = disk, open_files' = open_files,
         NEW i \in Live(root),
         root' = [root EXCEPT ![i] = DeletedFile],
         \A fd \in OpenFds : open_files[fd].file # i
  PROVE  Store!Delete(root[i].filename) /\ root[i].filename \in Names
<1> DEFINE F    == FilesOf(root)
           name == root[i].filename
           g    == [n \in DOMAIN F \ {name} |-> F[n]]
<1>1. root \in Root /\ NamesDiffer(root) /\ NamesDiffer(root') /\ i \in Files
  BY DEF TypeInv, TypeOK, DescriptorInv, OpenFilesExist, Live
<1>2. Live(root') = Live(root) \ {i}
  BY <1>1, EmptiedEntry
<1>3. \A j \in Files : j # i => root'[j] = root[j]
  OBVIOUS
<1>4. name \in Names /\ Live(root) \subseteq Files
  BY <1>1 DEF Root, File, Live
<1>5. /\ DOMAIN F = NamesOf(root)
      /\ \A j \in Live(root) : F[root[j].filename] = root[j].file_size
  BY <1>1, FilesTable DEF IsTable
<1>6. \A j \in Live(root) : j # i => root[j].filename # name
  BY <1>1 DEF NamesDiffer
<1> HIDE DEF F
<1>7. FilesOf(root') = g
  <2>1. DOMAIN F \ {name} = NamesOf(root')
    <3>1. \A j \in Live(root') : j \in Live(root) /\ root'[j] = root[j] /\ root[j].filename # name
      BY <1>2, <1>3, <1>4, <1>6
    <3>2. \A j \in Live(root) : root[j].filename = name \/ j \in Live(root')
      BY <1>2
    <3> HIDE DEF name
    <3>3. ASSUME NEW n \in DOMAIN F \ {name}
          PROVE  n \in NamesOf(root')
      <4>1. PICK j \in Live(root) : n = root[j].filename
        BY <1>5 DEF NamesOf
      <4>2. j \in Live(root') /\ root'[j] = root[j]
        BY <3>1, <3>2, <4>1
      <4> QED
        BY <4>1, <4>2 DEF NamesOf
    <3>4. ASSUME NEW n \in NamesOf(root')
          PROVE  n \in DOMAIN F \ {name}
      <4>1. PICK j \in Live(root') : n = root'[j].filename
        BY DEF NamesOf
      <4> QED
        BY <1>5, <3>1, <4>1 DEF NamesOf
    <3> QED
      BY <3>3, <3>4
  <2>2. ASSUME NEW j \in Live(root')
        PROVE  g[root'[j].filename] = root'[j].file_size
    <3>1. j \in Live(root) /\ root'[j] = root[j] /\ root[j].filename # name
      BY <1>2, <1>3, <1>4, <1>6, <2>2
    <3>2. root[j].filename \in DOMAIN F
      BY <1>5, <3>1 DEF NamesOf
    <3> QED
      BY <1>5, <3>1, <3>2
  <2>3. g = [n \in NamesOf(root') |-> g[n]]
    BY <2>1
  <2> HIDE DEF g
  <2>4. IsTable(root', g)
    BY <2>2, <2>3 DEF IsTable
  <2> QED
    BY <1>1, <2>4, IsFilesOf
<1>8. ASSUME NEW fd \in Fds
      PROVE  Descriptor(fd)' = Descriptor(fd) /\ (Descriptor(fd) # NULL => Descriptor(fd).name # name)
  <2>1. IsOpen(fd) => open_files[fd].file \in Live(root) /\ open_files[fd].file # i
    BY <1>8 DEF DescriptorInv, OpenFilesExist, OpenFds
  <2>2. IsOpen(fd) => root'[open_files[fd].file] = root[open_files[fd].file]
    BY <1>3, <1>4, <2>1
  <2>3. Descriptor(fd)' = Descriptor(fd)
    BY <2>2 DEF Descriptor, IsOpen
  <2>4. Descriptor(fd) # NULL => IsOpen(fd) /\ Descriptor(fd).name = root[open_files[fd].file].filename
    BY DescriptorIs
  <2> QED
    BY <1>6, <2>1, <2>3, <2>4
<1>9. name \in DOMAIN F
  BY <1>5 DEF NamesOf
<1>10. \A fd \in Fds : [x \in Fds |-> Descriptor(x)][fd] = Descriptor(fd)
  OBVIOUS
<1> QED
  BY <1>4, <1>7, <1>8, <1>9, <1>10 DEF Store!Delete, F

(* A step on one slot leaves the other descriptors alone.                  *)
LEMMA OthersStay ==
  ASSUME TypeInv, status = "mounted", status' = "mounted",
         NEW fd \in Fds,
         \A x \in Fds : x # fd => open_files'[x] = open_files[x],
         \A i \in Files : root'[i].filename = root[i].filename
  PROVE  \A x \in Fds : x # fd => Descriptor(x)' = Descriptor(x)
<1> SUFFICES ASSUME NEW x \in Fds, x # fd
             PROVE  Descriptor(x)' = Descriptor(x)
  OBVIOUS
<1>1. open_files'[x] = open_files[x]
  OBVIOUS
<1>2. IsOpen(x) => open_files[x].file \in Files
  BY DescriptorIs
<1> QED
  BY <1>1, <1>2 DEF Descriptor, IsOpen

(* What the slot of a descriptor looks like after the update of an offset. *)
LEMMA OffsetSet ==
  ASSUME TypeInv, NEW fd \in Fds, IsOpen(fd), NEW o,
         open_files' = [open_files EXCEPT ![fd].offset = o]
  PROVE  /\ open_files'[fd].file = open_files[fd].file
         /\ open_files'[fd].offset = o
         /\ open_files'[fd] # NULL \/ o \notin 0 .. OffsetMod - 1
         /\ \A x \in Fds : x # fd => open_files'[x] = open_files[x]
<1>1. open_files[fd] \in FileDescriptor /\ open_files \in [Fds -> FileDescriptor \union {NULL}]
  BY DEF TypeInv, TypeOK, IsOpen
<1>2. open_files'[fd] = [open_files[fd] EXCEPT !.offset = o]
  BY <1>1
<1>3. /\ open_files'[fd].file = open_files[fd].file
      /\ open_files'[fd].offset = o
      /\ o \in 0 .. OffsetMod - 1 => open_files'[fd] \in FileDescriptor
  BY <1>1, <1>2 DEF FileDescriptor
<1>4. \A x \in Fds : x # fd => open_files'[x] = open_files[x]
  BY <1>1
<1> QED
  BY <1>3, <1>4, NULLAssumption

LEMMA OffsetField ==
  ASSUME NEW S, NEW D, NEW E, NEW fd \in S, NEW o,
         D = [x \in S |-> D[x]], E = [x \in S |-> E[x]],
         \A x \in S : x # fd => E[x] = D[x],
         E[fd] = [D[fd] EXCEPT !.offset = o]
  PROVE  E = [D EXCEPT ![fd].offset = o]
<1> DEFINE X == [D EXCEPT ![fd].offset = o]
<1>1. X[fd] = E[fd] /\ \A x \in S : x # fd => X[x] = D[x]
  OBVIOUS
<1>2. X = [x \in S |-> X[x]]
  OBVIOUS
<1> HIDE DEF X
<1>3. \A x \in S : X[x] = E[x]
  BY <1>1
<1>4. X = E
  BY <1>2, <1>3
<1> QED
  BY <1>4 DEF X

LEMMA OpenRefines ==
  ASSUME TypeInv, DescriptorInv, NEW name \in Names, Open(name)
  PROVE  \E fd \in Fds : Store!Open(name, fd)
<1>1. PICK i \in Named(name) : AddFile(i)
  BY DEF Open
<1>2. /\ status = "mounted" /\ status' = "mounted" /\ disk' = disk /\ root' = root
      /\ root \in Root /\ open_files \in [Fds -> FileDescriptor \union {NULL}]
      /\ NamesDiffer(root) /\ NoName \notin Names
  BY NamesAssumption DEF Open, Ready, TypeInv, TypeOK, DescriptorInv, OpenFilesExist
<1>3. PICK fd \in Fds :
        /\ open_files[fd] = NULL
        /\ open_files' = [open_files EXCEPT ![fd] = [file |-> i, offset |-> 0]]
  BY <1>1, EmptySlotIsFd DEF AddFile
<1>5. i \in Files /\ i \in Live(root) /\ root[i].filename = name
  BY <1>2 DEF Named, Live
<1>6. [file |-> i, offset |-> 0] \in FileDescriptor
  BY <1>5, OffsetModAssumption DEF FileDescriptor
<1>7. open_files'[fd] = [file |-> i, offset |-> 0] /\ open_files'[fd] # NULL
  BY <1>2, <1>3, <1>6, NULLAssumption
<1>8. Descriptor(fd)' = [name |-> name, offset |-> 0]
  BY <1>2, <1>5, <1>7 DEF Descriptor, IsOpen
<1>9. \A x \in Fds : x # fd => Descriptor(x)' = Descriptor(x)
  BY <1>2, <1>3, OthersStay
<1>10. Descriptor(fd) = NULL
  BY <1>3 DEF Descriptor, IsOpen
<1>11. name \in DOMAIN FilesOf(root)
  BY <1>5 DEF FilesOf
<1> QED
  BY <1>2, <1>3, <1>8, <1>9, <1>10, <1>11 DEF Store!Open

LEMMA CloseRefines ==
  ASSUME TypeInv, DescriptorInv, NEW fd \in Fds, Close(fd), status = "mounted"
  PROVE  Store!Close(fd)
<1>1. /\ status' = "mounted" /\ disk' = disk /\ root' = root
      /\ open_files \in [Fds -> FileDescriptor \union {NULL}]
      /\ open_files' = [open_files EXCEPT ![fd] = NULL]
      /\ IsOpen(fd)
  BY DEF Close, TypeInv, TypeOK
<1>2. Descriptor(fd)' = NULL
  BY <1>1 DEF Descriptor, IsOpen
<1>3. \A x \in Fds : x # fd => Descriptor(x)' = Descriptor(x)
  BY <1>1, OthersStay
<1>4. Descriptor(fd) # NULL
  BY <1>1, DescriptorIs
<1> QED
  BY <1>1, <1>2, <1>3, <1>4 DEF Store!Close

(* fs_lseek and fs_read.                                                   *)
LEMMA MoveRefines ==
  ASSUME TypeInv, DescriptorInv, NEW fd \in Fds, NEW n \in Nat,
         status = "mounted", IsOpen(fd),
         open_files' = [open_files EXCEPT ![fd].offset = ToOffset(n)],
         UNCHANGED <<status, root, disk>>
  PROVE  \E offset \in 0 .. OffsetMod - 1 : Store!MoveOffset(fd, offset)
<1> DEFINE o == ToOffset(n)
<1>1. o \in 0 .. OffsetMod - 1
  BY ToOffsetRange
<1>2. open_files' = [open_files EXCEPT ![fd].offset = o]
  OBVIOUS
<1> HIDE DEF o
<1>3. /\ open_files'[fd].file = open_files[fd].file
      /\ open_files'[fd].offset = o /\ open_files'[fd] # NULL
      /\ \A x \in Fds : x # fd => open_files'[x] = open_files[x]
  BY <1>1, <1>2, OffsetSet
<1>4. Descriptor(fd)' = [name |-> root[open_files[fd].file].filename, offset |-> o]
  BY <1>3 DEF Descriptor, IsOpen
<1>5. Descriptor(fd) = [name |-> root[open_files[fd].file].filename,
                        offset |-> open_files[fd].offset]
  BY DEF Descriptor
<1>6. \A x \in Fds : x # fd => Descriptor(x)' = Descriptor(x)
  BY <1>3, OthersStay
<1>7. Descriptor(fd) # NULL
  BY DescriptorIs
<1>8. [Descriptor(fd) EXCEPT !.offset = o] = Descriptor(fd)'
  BY <1>4, <1>5
<1> DEFINE D == [x \in Fds |-> Descriptor(x)]
           E == [x \in Fds |-> Descriptor(x)']
<1>9. E = [D EXCEPT ![fd].offset = o]
  <2>1. E[fd] = [D[fd] EXCEPT !.offset = o] /\ \A x \in Fds : x # fd => E[x] = D[x]
    BY <1>6, <1>8
  <2>2. D = [x \in Fds |-> D[x]] /\ E = [x \in Fds |-> E[x]]
    OBVIOUS
  <2> HIDE DEF D, E
  <2> QED
    BY <2>1, <2>2, OffsetField
<1> QED
  BY <1>1, <1>7, <1>9 DEF Store!MoveOffset

(* The end of fs_write: one descriptor moves and one file grows, for every *)
(* other descriptor on that file as well.                                  *)
LEMMA WriteRefines ==
  ASSUME TypeInv, DescriptorInv, WriteAll
  PROVE  (\E fd \in Fds, count \in 1 .. MaxSize : Store!Write(fd, count)) \/ UNCHANGED Store!vars
<1>1. /\ call.arg \in Fds /\ IsOpen(call.arg) /\ call.count \in Nat
      /\ root[open_files[call.arg].file].file_size + call.count <= MaxSize
      /\ status = "mounted" /\ status' = "mounted" /\ disk' = disk
      /\ root \in Root /\ NamesDiffer(root)
  BY MaxCountAssumption
     DEF WriteAll, TypeInv, TypeOK, CallTyped, Calls, DescriptorInv, OpenFilesExist
<1>2. PICK fd \in Fds : fd = call.arg
  BY <1>1
<1>3. PICK n \in Nat : n = call.count
  BY <1>1
<1>4. PICK i \in Files : i = open_files[fd].file /\ i \in Live(root)
  BY <1>1, <1>2, DescriptorIs DEF DescriptorInv, OpenFilesExist, OpenFds
<1>5. PICK before \in Nat : before = open_files[fd].offset
  BY <1>1, <1>2, DescriptorIs DEF FileDescriptor
<1>6. /\ open_files' = [open_files EXCEPT ![fd].offset = ToOffset(before + n)]
      /\ root' = [root EXCEPT ![i].file_size = @ + n]
  BY <1>2, <1>3, <1>4, <1>5 DEF WriteAll
<1>7. /\ root'[i].file_size = root[i].file_size + n /\ root[i].file_size \in Nat
      /\ \A j \in Files : /\ root'[j].filename = root[j].filename
                          /\ j # i => root'[j].file_size = root[j].file_size
  BY <1>1, <1>6, MaxSizeAssumption DEF Root, File
<1>8. before \in 0 .. OffsetMod - 1
  BY <1>1, <1>2, <1>5, DescriptorIs DEF FileDescriptor
<1>9. CASE n = 0
  <2>1. ToOffset(before + n) = before
    BY <1>8, <1>9, OffsetModAssumption DEF ToOffset
  <2>2. open_files' = [open_files EXCEPT ![fd].offset = before]
    BY <1>6, <2>1
  <2>3. open_files' = open_files
    <3>1. open_files \in [Fds -> FileDescriptor \union {NULL}]
          /\ open_files[fd] \in FileDescriptor
      BY <1>1, <1>2 DEF TypeInv, TypeOK, IsOpen
    <3>2. [open_files[fd] EXCEPT !.offset = before] = open_files[fd]
      BY <1>5, <3>1 DEF FileDescriptor
    <3> QED
      BY <2>2, <3>1, <3>2
  <2>4. \A j \in Files : root'[j].filename = root[j].filename /\ root'[j].file_size = root[j].file_size
    BY <1>7, <1>9
  <2> QED
    BY <1>1, <2>3, <2>4, SameStore
<1>10. CASE n # 0
  <2>1. n \in 1 .. MaxSize
    BY <1>1, <1>2, <1>3, <1>4, <1>7, <1>10, MaxSizeAssumption
  <2>2. /\ open_files'[fd].file = i
        /\ open_files'[fd].offset = ToOffset(before + n) /\ open_files'[fd] # NULL
        /\ \A x \in Fds : x # fd => open_files'[x] = open_files[x]
    <3>1. ToOffset(before + n) \in 0 .. OffsetMod - 1
      BY ToOffsetRange
    <3> QED
      BY <1>1, <1>2, <1>4, <1>6, <3>1, OffsetSet
  <2>3. Descriptor(fd)' = [name |-> root[i].filename, offset |-> (before + n) % OffsetMod]
    BY <1>1, <1>7, <2>2 DEF Descriptor, IsOpen, ToOffset
  <2>4. Descriptor(fd) = [name |-> root[i].filename, offset |-> before]
    BY <1>1, <1>2, <1>4, <1>5 DEF Descriptor
  <2>5. \A x \in Fds : x # fd => Descriptor(x)' = Descriptor(x)
    BY <1>1, <1>7, <2>2, OthersStay
  <2>6. Descriptor(fd) # NULL
    BY <1>1, <1>2, DescriptorIs
  <2> DEFINE D == [x \in Fds |-> Descriptor(x)]
             E == [x \in Fds |-> Descriptor(x)']
             o == (before + n) % OffsetMod
             F == FilesOf(root)
             name == root[i].filename
             g == [F EXCEPT ![name] = @ + n]
  <2>7. E = [D EXCEPT ![fd].offset = o]
    <3>1. E[fd] = [D[fd] EXCEPT !.offset = o]
      BY <2>3, <2>4
    <3>2. \A x \in Fds : x # fd => E[x] = D[x]
      BY <2>5
    <3>3. D = [x \in Fds |-> D[x]] /\ E = [x \in Fds |-> E[x]]
      OBVIOUS
    <3> HIDE DEF D, E, o
    <3> QED
      BY <3>1, <3>2, <3>3, OffsetField
  <2>8. D[fd].offset = before /\ D[fd].name = name
    BY <2>4
  <2>9. FilesOf(root') = g
    <3>1. Live(root') = Live(root) /\ NamesDiffer(root') /\ Live(root) \subseteq Files
      BY <1>1, <1>7, SameNames DEF Live
    <3>2. NamesOf(root') = NamesOf(root)
      BY <1>7, <3>1 DEF NamesOf
    <3>3. /\ DOMAIN F = NamesOf(root) /\ F = [m \in NamesOf(root) |-> F[m]]
          /\ \A j \in Live(root) : F[root[j].filename] = root[j].file_size
      BY <1>1, FilesTable DEF IsTable
    <3> HIDE DEF F
    <3>4. name \in NamesOf(root)
      BY <1>4 DEF NamesOf
    <3>5. g[name] = root[i].file_size + n
      BY <1>4, <3>3, <3>4
    <3>6. ASSUME NEW j \in Live(root')
          PROVE  g[root'[j].filename] = root'[j].file_size
      <4>1. CASE j = i
        BY <1>7, <3>1, <3>5, <4>1
      <4>2. CASE j # i
        <5>1. root[j].filename # name /\ root[j].filename \in NamesOf(root)
          BY <1>1, <1>4, <3>1, <3>6, <4>2 DEF NamesDiffer, NamesOf
        <5> QED
          BY <1>7, <3>1, <3>3, <4>2, <5>1
      <4> QED
        BY <4>1, <4>2
    <3>7. g = [m \in NamesOf(root') |-> g[m]]
      BY <3>2, <3>3
    <3> HIDE DEF g
    <3>8. IsTable(root', g)
      BY <3>6, <3>7 DEF IsTable
    <3> QED
      BY <3>1, <3>8, IsFilesOf
  <2>10. E = [D EXCEPT ![fd].offset = (@ + n) % OffsetMod]
    <3>1. [D EXCEPT ![fd].offset = (@ + n) % OffsetMod] =
          [D EXCEPT ![fd].offset = (D[fd].offset + n) % OffsetMod]
      OBVIOUS
    <3> QED
      BY <2>7, <2>8, <3>1
  <2>11. FilesOf(root') = [F EXCEPT ![D[fd].name] = @ + n]
    BY <2>8, <2>9
  <2>12. Store!Write(fd, n)
    BY <1>1, <2>6, <2>10, <2>11 DEF Store!Write
  <2> QED
    BY <2>1, <2>12
<1> QED
  BY <1>9, <1>10

-----------------------------------------------------------------------------
LEMMA NamespaceInit == Init => Store!Init
<1> SUFFICES ASSUME Init PROVE Store!Init
  OBVIOUS
<1>1. Live(FormattedRoot) = {}
  BY DEF Live, FormattedRoot
<1>2. FilesOf(FormattedRoot) = Store!NoFiles
  BY <1>1 DEF FilesOf, Store!NoFiles
<1>3. [fd \in Fds |-> Descriptor(fd)] = Store!Closed
  BY DEF Init, Descriptor, Store!Closed
<1> QED
  BY <1>2, <1>3 DEF Init, Store!Init

(* Steps of one name.                                                      *)
LEMMA DeleteEmptyRefines ==
  ASSUME TypeInv, DescriptorInv, DescriptorInv', NEW name \in Names, DeleteEmpty(name)
  PROVE  Store!Delete(name)
<1>1. PICK i \in Files :
        /\ Deletable(name, i)
        /\ root' = [root EXCEPT ![i] = DeletedFile]
        /\ UNCHANGED <<status, open_files, disk>>
  BY DEF DeleteEmpty
<1>2. root[i].filename = name /\ i \in Live(root) /\ status = "mounted"
  BY <1>1, NamesAssumption DEF Deletable, Named, Live, Ready
<1>3. \A fd \in OpenFds : open_files[fd].file # i
  BY <1>1, <1>2 DEF Deletable
<1> QED
  BY <1>1, <1>2, <1>3, DeleteRefines

LEMMA FreeLastRefines ==
  ASSUME TypeInv, DescriptorInv, DescriptorInv', FreeLast
  PROVE  \E name \in Names : Store!Delete(name)
<1>1. PICK i \in Live(root) :
        i = call.arg /\ \A fd \in OpenFds : open_files[fd].file # i
  BY DEF FreeLast, DescriptorInv
<1>2. /\ status = "mounted" /\ status' = "mounted"
      /\ disk' = disk /\ open_files' = open_files
      /\ root' = [root EXCEPT ![i] = DeletedFile]
  BY <1>1 DEF FreeLast, DescriptorInv
<1> QED
  BY <1>1, <1>2, DeleteRefines

LEMMA FirstBlockRefines ==
  ASSUME TypeInv, DescriptorInv, NEW fd \in Fds, NEW count \in 1 .. MaxCount,
         WriteFirstBlock(fd, count)
  PROVE  UNCHANGED Store!vars
<1>1. PICK i \in Files : i = open_files[fd].file
  BY DescriptorIs DEF WriteFirstBlock, Writable, Ready
<1>2. /\ status = "mounted" /\ status' = "mounted" /\ disk' = disk /\ open_files' = open_files
      /\ root \in Root
      /\ root' = [root EXCEPT ![i].first_index = Least(FreeBlocks(fat))]
  BY <1>1 DEF WriteFirstBlock, Writable, Ready, TypeInv, TypeOK
<1>3. \A j \in Files : root'[j].filename = root[j].filename /\ root'[j].file_size = root[j].file_size
  BY <1>2 DEF Root, File
<1> QED
  BY <1>2, <1>3, SameStore

LEMMA NamespaceStep ==
  TypeInv /\ DescriptorInv /\ [Next \/ Kill]_vars => [Store!Next]_(Store!vars)
<1> SUFFICES ASSUME TypeInv, DescriptorInv, [Next \/ Kill]_vars
             PROVE  Store!Next \/ UNCHANGED Store!vars
  OBVIOUS
<1>1. DescriptorInv'
  BY DescriptorStep
<1>2. CASE MountOk
  BY <1>2, MountRefines DEF Store!Next
<1>3. CASE MountFails
  BY <1>3, SameStore DEF MountFails
<1>4. CASE Umount
  <2>1. disk \in [fat: Fat, root: Root]
    BY DEF TypeInv, TypeOK
  <2>2. disk'.root = disk.root
    BY <1>4, <2>1 DEF Umount
  <2> QED
    BY <1>4, <2>2, SameStore DEF Umount
<1>5. ASSUME NEW name \in Names,
             Create(name) \/ DeleteEmpty(name) \/ Delete(name) \/ Open(name)
      PROVE  Store!Next \/ UNCHANGED Store!vars
  <2>1. CASE Create(name)
    BY <1>1, <2>1, CreateRefines DEF Store!Next
  <2>2. CASE DeleteEmpty(name)
    BY <1>1, <2>2, DeleteEmptyRefines DEF Store!Next
  <2>3. CASE Delete(name)
    BY <2>3, SameStore DEF Delete
  <2>4. CASE Open(name)
    BY <2>4, OpenRefines DEF Store!Next
  <2> QED
    BY <1>5, <2>1, <2>2, <2>3, <2>4
<1>6. ASSUME NEW fd \in Fds, Close(fd)
      PROVE  Store!Next \/ UNCHANGED Store!vars
  <2>1. CASE status = "mounted"
    BY <1>6, <2>1, CloseRefines DEF Store!Next
  <2>2. CASE status # "mounted"
    BY <1>6, <2>2, SameStore DEF Close
  <2> QED
    BY <2>1, <2>2
<1>7. ASSUME NEW fd \in Fds, NEW offset \in 0 .. MaxSize, Lseek(fd, offset)
      PROVE  Store!Next \/ UNCHANGED Store!vars
  <2>1. offset \in Nat
    BY MaxSizeAssumption
  <2> QED
    BY <1>7, <2>1, MoveRefines DEF Lseek, Ready, Store!Next
<1>8. ASSUME NEW fd \in Fds, NEW count \in 1 .. MaxCount,
             \/ Read(fd, count)
             \/ Write(fd, count) \/ WriteFirstBlock(fd, count) \/ WriteNoBlock(fd, count)
      PROVE  Store!Next \/ UNCHANGED Store!vars
  <2>1. CASE Read(fd, count)
    <3>1. status = "mounted" /\ IsOpen(fd)
      BY <2>1 DEF Read, Ready
    <3>2. PICK n \in Nat : n = open_files[fd].offset
      BY <3>1, DescriptorIs DEF FileDescriptor
    <3>3. n + count \in Nat
      BY MaxCountAssumption
    <3>4. open_files' = [open_files EXCEPT ![fd].offset = ToOffset(n + count)]
          /\ UNCHANGED <<status, root, disk>>
      BY <2>1, <3>2 DEF Read
    <3> QED
      BY <3>1, <3>3, <3>4, MoveRefines DEF Store!Next
  <2>2. CASE Write(fd, count)
    BY <2>2, SameStore DEF Write
  <2>3. CASE WriteFirstBlock(fd, count)
    BY <2>3, FirstBlockRefines
  <2>4. CASE WriteNoBlock(fd, count)
    BY <2>4, SameStore DEF WriteNoBlock
  <2> QED
    BY <1>8, <2>1, <2>2, <2>3, <2>4
<1>9. CASE UmountRoot
  BY <1>9, UmountRefines DEF Store!Next
<1>10. CASE FreeBlock
  BY <1>10, SameStore DEF FreeBlock
<1>11. CASE FreeLast
  BY <1>1, <1>11, FreeLastRefines DEF Store!Next
<1>12. CASE Walk
  BY <1>12, SameStore DEF Walk
<1>13. CASE Extend
  BY <1>13, SameStore DEF Extend
<1>14. CASE Allocated
  BY <1>14, SameStore DEF Allocated
<1>15. CASE WriteAll
  BY <1>15, WriteRefines DEF Store!Next
<1>16. CASE WriteShort
  BY <1>16, SameStore DEF WriteShort
<1>17. CASE Kill
  BY <1>17, KillRefines DEF Store!Next
<1>18. CASE UNCHANGED vars
  BY <1>18, SameStore DEF vars
<1> QED
  BY <1>2, <1>3, <1>4, <1>5, <1>6, <1>7, <1>8, <1>9, <1>10, <1>11, <1>12, <1>13, <1>14,
     <1>15, <1>16, <1>17, <1>18
     DEF Next, Caller, CallStep

(* Seen by name, libfs is the store of Namespace, whatever is called and   *)
(* whenever the process dies: fs_create, fs_delete, fs_open, fs_close,     *)
(* fs_lseek, fs_read and fs_write change the names, the sizes and the      *)
(* descriptors the call is about and no other; fs_umount saves the         *)
(* directory as a whole, open descriptors or not, and a death before its   *)
(* last write saves nothing of it.  Whether fs.h allows each of these      *)
(* steps is another question, with another answer: see Namespace.          *)
THEOREM NamespaceCorrect == CrashSpec => ImplementsNamespace
BY TypeInit, TypeStep, DescriptorInit, DescriptorStep, NamespaceInit, NamespaceStep, PTL
   DEF CrashSpec, ImplementsNamespace, Store!Spec
=============================================================================
