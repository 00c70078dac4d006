----------------------------- MODULE FatVolumeProofs -----------------------------
(***************************************************************************)
(* Lemmas about the tables of a volume.  First, which changes to the FAT   *)
(* and the directory keep it sound: each is about one of the changes the   *)
(* library makes, on any pair of tables and for any set L of files.  Then, *)
(* what the chains of a sound volume are.                                  *)
(***************************************************************************)
EXTENDS FatVolume, FiniteSetTheorems, WellFoundedInduction, TLAPS

(* The mark FAT_EOC is not the index of a block, and block 0 exists.       *)
LEMMA BlockFacts ==
  /\ FAT_EOC \in Nat /\ FAT_EOC \notin Blocks
  /\ 0 \in Blocks /\ 0 \notin DataBlocks
  /\ DataBlocks \subseteq Blocks /\ Blocks \subseteq Nat
  /\ FAT_EOC # 0
BY NumBlocksAssumption DEF FAT_EOC, Blocks, DataBlocks

(* A formatted volume is sound: it has no file and no chain.               *)
LEMMA FormattedSound ==
  VolumeSound(FormattedFat, FormattedRoot, Live(FormattedRoot))
<1>1. Live(FormattedRoot) = {}
  BY DEF Live, FormattedRoot
<1>2. FormattedFat[0] = FAT_EOC /\ \A b \in DataBlocks : FormattedFat[b] = 0
  BY BlockFacts DEF FormattedFat
<1> QED
  BY <1>1, <1>2 DEF VolumeSound, LinksSound, IsLink, HeadSound, HeadsDiffer

(* The names and the sizes of the files do not matter, nor does a file     *)
(* that has gone or has no block: only where the chains start.             *)
LEMMA SameHeads ==
  ASSUME NEW fat, NEW root, NEW L, NEW root2, NEW M \in SUBSET Files,
         VolumeSound(fat, root, L),
         \A i \in M : \/ root2[i].first_index = FAT_EOC
                      \/ i \in L /\ root2[i].first_index = root[i].first_index
  PROVE  VolumeSound(fat, root2, M)
<1>1. \A i \in M : HeadSound(fat, root2, i)
  BY DEF VolumeSound, HeadSound
<1>2. HeadsDiffer(root2, M)
  BY DEF VolumeSound, HeadsDiffer
<1> QED
  BY <1>1, <1>2 DEF VolumeSound

(* allocate_blocks_in_fat gives a file without blocks a free one: no chain *)
(* leads to a free block, so the new chain meets no other.                 *)
LEMMA FirstBlockSound ==
  ASSUME NEW fat \in Fat, NEW root \in Root, NEW L \in SUBSET Files,
         VolumeSound(fat, root, L),
         NEW i \in Files, root[i].first_index = FAT_EOC,
         NEW block \in DataBlocks, fat[block] = 0
  PROVE  VolumeSound([fat EXCEPT ![block] = FAT_EOC],
                     [root EXCEPT ![i].first_index = block], L)
<1> DEFINE fat2  == [fat EXCEPT ![block] = FAT_EOC]
           root2 == [root EXCEPT ![i].first_index = block]
<1> USE BlockFacts
<1>1. /\ fat2[block] = FAT_EOC
      /\ \A b \in Blocks : b # block => fat2[b] = fat[b]
  BY DEF Fat
<1>2. /\ root2[i].first_index = block
      /\ \A j \in Files : j # i => root2[j] = root[j]
  BY DEF Root, File
<1>3. \A b \in DataBlocks : fat[b] # block
  BY DEF VolumeSound, LinksSound, IsLink
<1> HIDE DEF fat2, root2
<1>4. fat2[0] \in {0, FAT_EOC}
  BY <1>1 DEF VolumeSound
<1>5. LinksSound(fat2)
  <2> SUFFICES ASSUME NEW b \in DataBlocks, IsLink(fat2, b)
               PROVE  /\ fat2[fat2[b]] # 0
                      /\ \A c \in DataBlocks : c # b => fat2[c] # fat2[b]
    BY DEF LinksSound
  <2>1. b # block /\ fat2[b] = fat[b] /\ IsLink(fat, b)
    BY <1>1 DEF IsLink
  <2>2. fat[b] \in Blocks /\ fat[fat[b]] # 0
    BY <2>1 DEF VolumeSound, LinksSound, IsLink, Fat, FatEntry
  <2>3. fat2[fat2[b]] # 0
    BY <1>1, <2>1, <2>2
  <2>4. \A c \in DataBlocks : c # b => fat2[c] # fat2[b]
    BY <1>1, <2>1 DEF VolumeSound, LinksSound, IsLink
  <2> QED
    BY <2>3, <2>4
<1>6. \A j \in L : HeadSound(fat2, root2, j)
  <2> SUFFICES ASSUME NEW j \in L PROVE HeadSound(fat2, root2, j)
    OBVIOUS
  <2>1. CASE j = i
    BY <1>1, <1>2, <1>3, <2>1 DEF HeadSound
  <2>2. CASE j # i
    <3>1. HeadSound(fat, root, j) /\ root2[j] = root[j]
      BY <1>2, <2>2 DEF VolumeSound
    <3> QED
      BY <1>1, <3>1 DEF HeadSound
  <2> QED
    BY <2>1, <2>2
<1>7. HeadsDiffer(root2, L)
  <2>1. \A j \in L : root[j].first_index # block
    BY DEF VolumeSound, HeadSound
  <2> QED
    BY <1>2, <2>1 DEF VolumeSound, HeadsDiffer
<1>8. VolumeSound(fat2, root2, L)
  BY <1>4, <1>5, <1>6, <1>7 DEF VolumeSound
<1> QED
  BY <1>8 DEF fat2, root2

(* allocate_blocks_in_fat links a free block to the last one of a chain.   *)
LEMMA LinkSound ==
  ASSUME NEW fat \in Fat, NEW root \in Root, NEW L \in SUBSET Files,
         VolumeSound(fat, root, L),
         NEW last \in DataBlocks, fat[last] = FAT_EOC,
         NEW block \in DataBlocks, fat[block] = 0
  PROVE  VolumeSound([fat EXCEPT ![last] = block, ![block] = FAT_EOC], root, L)
<1> DEFINE fat2 == [fat EXCEPT ![last] = block, ![block] = FAT_EOC]
<1> USE BlockFacts
<1>1. /\ last # block
      /\ fat2[block] = FAT_EOC /\ fat2[last] = block
      /\ \A b \in Blocks : b # block /\ b # last => fat2[b] = fat[b]
  BY DEF Fat
<1>2. \A b \in DataBlocks : fat[b] # block
  BY DEF VolumeSound, LinksSound, IsLink
<1> HIDE DEF fat2
<1>3. fat2[0] \in {0, FAT_EOC}
  BY <1>1 DEF VolumeSound
<1>4. LinksSound(fat2)
  <2> SUFFICES ASSUME NEW b \in DataBlocks, IsLink(fat2, b)
               PROVE  /\ fat2[fat2[b]] # 0
                      /\ \A c \in DataBlocks : c # b => fat2[c] # fat2[b]
    BY DEF LinksSound
  <2>1. CASE b = last
    BY <1>1, <1>2, <2>1
  <2>2. CASE b # last
    <3>1. b # block /\ fat2[b] = fat[b] /\ IsLink(fat, b)
      BY <1>1, <2>2 DEF IsLink
    <3>2. fat[b] \in Blocks /\ fat[fat[b]] # 0
      BY <3>1 DEF VolumeSound, LinksSound, IsLink, Fat, FatEntry
    <3>3. fat2[fat2[b]] # 0
      BY <1>1, <3>1, <3>2
    <3>4. \A c \in DataBlocks : c # b => fat2[c] # fat2[b]
      BY <1>1, <1>2, <3>1 DEF VolumeSound, LinksSound, IsLink
    <3> QED
      BY <3>3, <3>4
  <2> QED
    BY <2>1, <2>2
<1>5. \A j \in L : HeadSound(fat2, root, j)
  <2> SUFFICES ASSUME NEW j \in L PROVE HeadSound(fat2, root, j)
    OBVIOUS
  <2>1. HeadSound(fat, root, j)
    BY DEF VolumeSound
  <2> QED
    BY <1>1, <2>1 DEF HeadSound
<1>6. VolumeSound(fat2, root, L)
  BY <1>3, <1>4, <1>5 DEF VolumeSound
<1> QED
  BY <1>6 DEF fat2

(* fs_delete frees the first block of a file: the rest of its chain is no  *)
(* file's any more, and the other chains do not meet it.                   *)
LEMMA FreeHeadSound ==
  ASSUME NEW fat \in Fat, NEW root \in Root, NEW L \in SUBSET Files,
         VolumeSound(fat, root, L),
         NEW i \in L, root[i].first_index # FAT_EOC
  PROVE  VolumeSound([fat EXCEPT ![root[i].first_index] = 0], root, L \ {i})
<1> DEFINE head == root[i].first_index
           fat2 == [fat EXCEPT ![head] = 0]
<1> USE BlockFacts
<1>1. head \in DataBlocks /\ fat[head] # 0 /\ \A b \in DataBlocks : fat[b] # head
  BY DEF VolumeSound, HeadSound
<1>2. fat2[head] = 0 /\ \A b \in Blocks : b # head => fat2[b] = fat[b]
  BY <1>1 DEF Fat
<1>3. \A j \in L \ {i} : root[j].first_index # head
  BY DEF VolumeSound, HeadsDiffer
<1> HIDE DEF fat2, head
<1>4. fat2[0] \in {0, FAT_EOC}
  BY <1>1, <1>2 DEF VolumeSound
<1>5. LinksSound(fat2)
  <2> SUFFICES ASSUME NEW b \in DataBlocks, IsLink(fat2, b)
               PROVE  /\ fat2[fat2[b]] # 0
                      /\ \A c \in DataBlocks : c # b => fat2[c] # fat2[b]
    BY DEF LinksSound
  <2>1. b # head /\ fat2[b] = fat[b] /\ IsLink(fat, b)
    BY <1>2 DEF IsLink
  <2>2. fat[b] \in Blocks /\ fat[fat[b]] # 0 /\ fat[b] # head
    BY <1>1, <2>1 DEF VolumeSound, LinksSound, IsLink, Fat, FatEntry
  <2>3. fat2[fat2[b]] # 0
    BY <1>2, <2>1, <2>2
  <2>4. \A c \in DataBlocks : c # b => fat2[c] # fat2[b]
    BY <1>2, <2>1 DEF VolumeSound, LinksSound, IsLink
  <2> QED
    BY <2>3, <2>4
<1>6. \A j \in L \ {i} : HeadSound(fat2, root, j)
  <2> SUFFICES ASSUME NEW j \in L \ {i} PROVE HeadSound(fat2, root, j)
    OBVIOUS
  <2>1. HeadSound(fat, root, j) /\ root[j].first_index # head
    BY <1>3 DEF VolumeSound
  <2> QED
    BY <1>1, <1>2, <2>1 DEF HeadSound
<1>7. HeadsDiffer(root, L \ {i})
  BY DEF VolumeSound, HeadsDiffer
<1>8. VolumeSound(fat2, root, L \ {i})
  BY <1>4, <1>5, <1>6, <1>7 DEF VolumeSound
<1> QED
  BY <1>8 DEF fat2, head

(* The walk of fs_delete ends by writing 0 into the reserved entry, which  *)
(* no chain leads to.                                                      *)
LEMMA FreeReservedSound ==
  ASSUME NEW fat \in Fat, NEW root, NEW L \in SUBSET Files,
         VolumeSound(fat, root, L)
  PROVE  VolumeSound([fat EXCEPT ![0] = 0], root, L)
<1> DEFINE fat2 == [fat EXCEPT ![0] = 0]
<1> USE BlockFacts
<1>1. fat2[0] = 0 /\ \A b \in DataBlocks : fat2[b] = fat[b]
  BY DEF Fat
<1> HIDE DEF fat2
<1>2. LinksSound(fat2)
  <2> SUFFICES ASSUME NEW b \in DataBlocks, IsLink(fat2, b)
               PROVE  /\ fat2[fat2[b]] # 0
                      /\ \A c \in DataBlocks : c # b => fat2[c] # fat2[b]
    BY DEF LinksSound
  <2>1. fat2[b] = fat[b] /\ IsLink(fat, b)
    BY <1>1 DEF IsLink
  <2>2. fat[b] \in DataBlocks /\ fat[fat[b]] # 0
    BY <2>1 DEF VolumeSound, LinksSound, IsLink, Fat, FatEntry, DataBlocks
  <2>3. \A c \in DataBlocks : c # b => fat2[c] # fat2[b]
    BY <1>1, <2>1 DEF VolumeSound, LinksSound
  <2> QED
    BY <1>1, <2>1, <2>2, <2>3
<1>3. \A i \in L : HeadSound(fat2, root, i)
  BY <1>1 DEF VolumeSound, HeadSound
<1>4. VolumeSound(fat2, root, L)
  BY <1>1, <1>2, <1>3 DEF VolumeSound
<1> QED
  BY <1>4 DEF fat2

-----------------------------------------------------------------------------
(***************************************************************************)
(* Chains, that is, find_data_block.  It is a recursive function; that it  *)
(* obeys the equation that defines it is proved first, and what it         *)
(* computes then by induction on the position in the chain.                *)
(***************************************************************************)

(* Induction on the naturals, as a fact about sets.                        *)
LEMMA LeastExists ==
  ASSUME NEW S \in SUBSET Nat, S # {}
  PROVE  \E x \in S : \A y \in S : x =< y
<1> DEFINE R == {ss \in Nat \X Nat : ss[1] < ss[2]}
<1>1. IsWellFoundedOn(R, Nat)
  BY NatLessThanWellFounded DEF OpToRel
<1> HIDE DEF R
<1>2. PICK x \in S : \A y \in S : ~ (<<y, x>> \in R)
  BY <1>1, WFMin
<1>3. ASSUME NEW y \in S
      PROVE  x =< y
  <2>1. <<y, x>> \notin R
    BY <1>2
  <2> QED
    BY <2>1 DEF R
<1> QED
  BY <1>3

LEMMA SetInduction ==
  ASSUME NEW S \in SUBSET Nat, 0 \in S, \A n \in S : n + 1 \in S
  PROVE  S = Nat
<1> SUFFICES ASSUME Nat \ S # {} PROVE FALSE
  OBVIOUS
<1>1. PICK x \in Nat \ S : \A y \in Nat \ S : x =< y
  BY LeastExists
<1>2. x # 0 /\ x - 1 \in Nat
  OBVIOUS
<1>3. x - 1 \in S
  BY <1>1, <1>2
<1>4. (x - 1) + 1 \in S
  BY <1>3
<1> QED
  BY <1>1, <1>4

-----------------------------------------------------------------------------
(***************************************************************************)
(* The recursion.  A walk is a function that obeys the equation of         *)
(* find_data_block up to some position; one exists for every position, and *)
(* two agree wherever both are defined.                                    *)
(***************************************************************************)
NextInChain(f, b) == IF b = FAT_EOC THEN FAT_EOC ELSE f[b]

IsWalk(f, first, n, w) ==
  w = [k \in 0 .. n |-> IF k = 0 THEN first
                        ELSE IF w[k - 1] = FAT_EOC THEN FAT_EOC
                        ELSE f[w[k - 1]]]

LEMMA WalkExists ==
  ASSUME NEW f, NEW first
  PROVE  \A n \in Nat : \E w : IsWalk(f, first, n, w)
<1> DEFINE S == {n \in Nat : \E w : IsWalk(f, first, n, w)}
<1>1. 0 \in S
  <2>1. IsWalk(f, first, 0, [k \in 0 .. 0 |-> first])
    BY DEF IsWalk
  <2> QED
    BY <2>1
<1>2. ASSUME NEW n \in S
      PROVE  n + 1 \in S
  <2>1. PICK w : IsWalk(f, first, n, w)
    BY <1>2
  <2> DEFINE v == [k \in 0 .. n + 1 |-> IF k = n + 1 THEN NextInChain(f, w[n]) ELSE w[k]]
  <2>2. \A k \in 0 .. n : v[k] = w[k]
    OBVIOUS
  <2>3. v[n + 1] = NextInChain(f, v[n])
    OBVIOUS
  <2>4. \A k \in 0 .. n : w[k] = IF k = 0 THEN first ELSE NextInChain(f, w[k - 1])
    BY <2>1 DEF IsWalk, NextInChain
  <2>5. \A k \in 0 .. n + 1 : v[k] = IF k = 0 THEN first ELSE NextInChain(f, v[k - 1])
    <3> SUFFICES ASSUME NEW k \in 0 .. n + 1
                 PROVE  v[k] = IF k = 0 THEN first ELSE NextInChain(f, v[k - 1])
      OBVIOUS
    <3> HIDE DEF v
    <3>1. CASE k = n + 1
      BY <2>3, <3>1
    <3>2. CASE k # n + 1 /\ k # 0
      <4>1. k \in 0 .. n /\ k - 1 \in 0 .. n
        BY <3>2
      <4> QED
        BY <2>2, <2>4, <3>2, <4>1
    <3>3. CASE k = 0
      BY <2>2, <2>4, <3>3
    <3> QED
      BY <3>1, <3>2, <3>3
  <2>6. v = [k \in 0 .. n + 1 |-> v[k]]
    OBVIOUS
  <2> HIDE DEF v
  <2>7. IsWalk(f, first, n + 1, v)
    BY <2>5, <2>6 DEF IsWalk, NextInChain
  <2> QED
    BY <2>7
<1> HIDE DEF S
<1>3. S = Nat
  <2>1. S \in SUBSET Nat
    BY DEF S
  <2> QED
    BY <1>1, <1>2, <2>1, SetInduction
<1> QED
  BY <1>3 DEF S

LEMMA WalksAgree ==
  ASSUME NEW f, NEW first, NEW n \in Nat, NEW m \in Nat, NEW v, NEW w,
         IsWalk(f, first, n, v), IsWalk(f, first, m, w)
  PROVE  \A k \in Nat : k =< n /\ k =< m => v[k] = w[k]
<1> DEFINE S == {k \in Nat : k =< n /\ k =< m => v[k] = w[k]}
<1>1. \A k \in 0 .. n : v[k] = IF k = 0 THEN first ELSE NextInChain(f, v[k - 1])
  BY DEF IsWalk, NextInChain
<1>2. \A k \in 0 .. m : w[k] = IF k = 0 THEN first ELSE NextInChain(f, w[k - 1])
  BY DEF IsWalk, NextInChain
<1>3. 0 \in S
  BY <1>1, <1>2
<1>4. ASSUME NEW k \in S
      PROVE  k + 1 \in S
  <2> SUFFICES ASSUME k + 1 =< n, k + 1 =< m PROVE v[k + 1] = w[k + 1]
    OBVIOUS
  <2>1. v[k] = w[k] /\ (k + 1) - 1 = k /\ k + 1 # 0
    OBVIOUS
  <2>2. v[k + 1] = NextInChain(f, v[k])
    BY <1>1, <2>1
  <2>3. w[k + 1] = NextInChain(f, w[k])
    BY <1>2, <2>1
  <2> QED
    BY <2>1, <2>2, <2>3
<1> HIDE DEF S
<1>5. S = Nat
  <2>1. S \in SUBSET Nat
    BY DEF S
  <2> QED
    BY <1>3, <1>4, <2>1, SetInduction
<1> QED
  BY <1>5 DEF S

LEMMA FindIsWalk ==
  ASSUME NEW f, NEW first, NEW n \in Nat
  PROVE  \E w : IsWalk(f, first, n, w) /\ find_data_block(f, first, n) = w[n]
<1> DEFINE w == CHOOSE w : IsWalk(f, first, n, w)
<1>1. IsWalk(f, first, n, w)
  BY WalkExists
<1>2. find_data_block(f, first, n) = w[n]
  BY DEF find_data_block, IsWalk
<1> QED
  BY <1>1, <1>2

(* find_data_block, by its first case and its second.                      *)
LEMMA FindFirst ==
  ASSUME NEW f, NEW first
  PROVE  find_data_block(f, first, 0) = first
<1>1. PICK w : IsWalk(f, first, 0, w) /\ find_data_block(f, first, 0) = w[0]
  BY FindIsWalk
<1> QED
  BY <1>1 DEF IsWalk

LEMMA FindNext ==
  ASSUME NEW f, NEW first, NEW n \in Nat
  PROVE  find_data_block(f, first, n + 1) = NextInChain(f, find_data_block(f, first, n))
<1>1. PICK v : IsWalk(f, first, n, v) /\ find_data_block(f, first, n) = v[n]
  BY FindIsWalk
<1>2. PICK w : IsWalk(f, first, n + 1, w) /\ find_data_block(f, first, n + 1) = w[n + 1]
  BY FindIsWalk
<1>3. v[n] = w[n]
  BY <1>1, <1>2, WalksAgree
<1>4. w[n + 1] = NextInChain(f, w[n])
  BY <1>2 DEF IsWalk, NextInChain
<1> QED
  BY <1>1, <1>2, <1>3, <1>4

-----------------------------------------------------------------------------
(***************************************************************************)
(* What a chain does whatever the tables are.                              *)
(***************************************************************************)

(* A chain that has ended stays ended.                                     *)
LEMMA ChainEnded ==
  ASSUME NEW f, NEW first, NEW n \in Nat, NEW m \in Nat, n =< m,
         find_data_block(f, first, n) = FAT_EOC
  PROVE  find_data_block(f, first, m) = FAT_EOC
<1> DEFINE S == {k \in Nat : find_data_block(f, first, n + k) = FAT_EOC}
<1>1. 0 \in S
  OBVIOUS
<1>2. ASSUME NEW k \in S
      PROVE  k + 1 \in S
  <2>1. n + k \in Nat /\ n + (k + 1) = (n + k) + 1
    OBVIOUS
  <2>2. find_data_block(f, first, (n + k) + 1) = FAT_EOC
    BY <2>1, FindNext DEF NextInChain
  <2> QED
    BY <2>1, <2>2
<1> HIDE DEF S
<1>3. S = Nat
  <2>1. S \in SUBSET Nat
    BY DEF S
  <2> QED
    BY <1>1, <1>2, <2>1, SetInduction
<1>4. m - n \in S /\ n + (m - n) = m
  BY <1>3
<1> QED
  BY <1>4 DEF S

(* Two tables that agree on the first n blocks of a chain have the same    *)
(* block after them.                                                       *)
LEMMA SameChain ==
  ASSUME NEW f, NEW g, NEW first, NEW n \in Nat,
         \A k \in 0 .. n - 1 :
           LET b == find_data_block(f, first, k) IN b = FAT_EOC \/ g[b] = f[b]
  PROVE  find_data_block(g, first, n) = find_data_block(f, first, n)
<1> DEFINE S == {k \in Nat : k =< n =>
                   find_data_block(g, first, k) = find_data_block(f, first, k)}
<1>1. 0 \in S
  BY FindFirst
<1>2. ASSUME NEW k \in S
      PROVE  k + 1 \in S
  <2> SUFFICES ASSUME k + 1 =< n
               PROVE  find_data_block(g, first, k + 1) = find_data_block(f, first, k + 1)
    OBVIOUS
  <2>1. find_data_block(g, first, k) = find_data_block(f, first, k)
    BY <1>2
  <2>2. k \in 0 .. n - 1
    OBVIOUS
  <2> QED
    BY <2>1, <2>2, FindNext DEF NextInChain
<1> HIDE DEF S
<1>3. S = Nat
  <2>1. S \in SUBSET Nat
    BY DEF S
  <2> QED
    BY <1>1, <1>2, <2>1, SetInduction
<1> QED
  BY <1>3 DEF S

(* A file without blocks has none at any position.                         *)
LEMMA EmptyChain ==
  ASSUME NEW f, NEW n \in Nat
  PROVE  find_data_block(f, FAT_EOC, n) = FAT_EOC
BY FindFirst, ChainEnded

-----------------------------------------------------------------------------
(***************************************************************************)
(* What the chains of a sound volume do.                                   *)
(***************************************************************************)

(* They lead through allocated data blocks only.                           *)
LEMMA ChainBlock ==
  ASSUME NEW fat \in Fat, NEW root, NEW L, VolumeSound(fat, root, L),
         NEW i \in L, NEW n \in Nat,
         find_data_block(fat, root[i].first_index, n) # FAT_EOC
  PROVE  /\ find_data_block(fat, root[i].first_index, n) \in DataBlocks
         /\ fat[find_data_block(fat, root[i].first_index, n)] # 0
<1> DEFINE c(k) == find_data_block(fat, root[i].first_index, k)
           S    == {k \in Nat : c(k) # FAT_EOC => c(k) \in DataBlocks /\ fat[c(k)] # 0}
<1>1. 0 \in S
  BY FindFirst DEF VolumeSound, HeadSound
<1>2. ASSUME NEW k \in S
      PROVE  k + 1 \in S
  <2>1. c(k + 1) = NextInChain(fat, c(k))
    BY FindNext
  <2> SUFFICES ASSUME c(k + 1) # FAT_EOC
               PROVE  c(k + 1) \in DataBlocks /\ fat[c(k + 1)] # 0
    OBVIOUS
  <2>2. c(k) # FAT_EOC /\ c(k + 1) = fat[c(k)]
    BY <2>1 DEF NextInChain
  <2>3. c(k) \in DataBlocks /\ fat[c(k)] # 0
    BY <1>2, <2>2
  <2> HIDE DEF c
  <2>4. IsLink(fat, c(k))
    BY <2>2, <2>3 DEF IsLink
  <2>5. fat[fat[c(k)]] # 0
    BY <2>3, <2>4 DEF VolumeSound, LinksSound
  <2>6. fat[c(k)] \in DataBlocks
    BY <2>2, <2>3, BlockFacts DEF Fat, FatEntry, DataBlocks
  <2> QED
    BY <2>2, <2>5, <2>6
<1> HIDE DEF S
<1>3. S = Nat
  <2>1. S \in SUBSET Nat
    BY DEF S
  <2> QED
    BY <1>1, <1>2, <2>1, SetInduction
<1> QED
  BY <1>3 DEF S

(* No block is in two chains, or in one chain twice.                       *)
LEMMA ChainsMeetNowhere ==
  ASSUME NEW fat \in Fat, NEW root, NEW L, VolumeSound(fat, root, L),
         NEW i \in L, NEW j \in L, NEW m \in Nat, NEW n \in Nat,
         find_data_block(fat, root[i].first_index, m) # FAT_EOC,
         find_data_block(fat, root[i].first_index, m) =
           find_data_block(fat, root[j].first_index, n)
  PROVE  i = j /\ m = n
<1> DEFINE c(h, k) == find_data_block(fat, root[h].first_index, k)
           S == {k \in Nat : \A l \in Nat :
                   c(i, k) # FAT_EOC /\ c(i, k) = c(j, l) => i = j /\ k = l}
<1>1. ASSUME NEW h \in L, NEW k \in Nat, c(h, k + 1) # FAT_EOC
      PROVE  /\ c(h, k) \in DataBlocks /\ fat[c(h, k)] # 0
             /\ c(h, k) # FAT_EOC /\ fat[c(h, k)] = c(h, k + 1)
             /\ IsLink(fat, c(h, k))
  <2>1. c(h, k) # FAT_EOC /\ fat[c(h, k)] = c(h, k + 1)
    BY <1>1, FindNext DEF NextInChain
  <2>2. c(h, k) \in DataBlocks /\ fat[c(h, k)] # 0
    BY <2>1, ChainBlock
  <2> QED
    BY <1>1, <2>1, <2>2 DEF IsLink
<1>2. ASSUME NEW h \in L, NEW k \in L, NEW l \in Nat,
             c(h, 0) # FAT_EOC, c(h, 0) = c(k, l)
      PROVE  h = k /\ l = 0
  <2>1. c(h, 0) = root[h].first_index /\ c(k, 0) = root[k].first_index
    BY FindFirst
  <2>2. CASE l = 0
    <3> HIDE DEF c
    <3> QED
      BY <1>2, <2>1, <2>2 DEF VolumeSound, HeadsDiffer
  <2>3. CASE l # 0
    <3>1. l - 1 \in Nat /\ (l - 1) + 1 = l
      BY <2>3
    <3>2. c(k, l - 1) \in DataBlocks /\ fat[c(k, l - 1)] = c(k, l)
      BY <1>1, <1>2, <3>1
    <3> HIDE DEF c
    <3> QED
      BY <1>2, <2>1, <3>2 DEF VolumeSound, HeadSound
  <2> QED
    BY <2>2, <2>3
<1>3. 0 \in S
  BY <1>2
<1>4. ASSUME NEW k \in S
      PROVE  k + 1 \in S
  <2> SUFFICES ASSUME NEW l \in Nat, c(i, k + 1) # FAT_EOC, c(i, k + 1) = c(j, l)
               PROVE  i = j /\ k + 1 = l
    OBVIOUS
  <2>1. CASE l = 0
    <3>1. i = j /\ k + 1 = 0
      <4>1. k + 1 \in Nat
        OBVIOUS
      <4> QED
        BY <1>2, <2>1, <4>1
    <3> QED
      BY <3>1
  <2>2. CASE l # 0
    <3>1. l - 1 \in Nat /\ (l - 1) + 1 = l
      BY <2>2
    <3>2. /\ c(i, k) \in DataBlocks /\ fat[c(i, k)] = c(i, k + 1)
          /\ c(i, k) # FAT_EOC
          /\ IsLink(fat, c(i, k))
      BY <1>1
    <3>3. c(j, l - 1) \in DataBlocks /\ fat[c(j, l - 1)] = c(j, l)
      BY <1>1, <3>1
    <3>4. c(i, k) = c(j, l - 1)
      <4> HIDE DEF c
      <4> QED
        BY <3>2, <3>3 DEF VolumeSound, LinksSound
    <3>5. i = j /\ k = l - 1
      BY <1>4, <3>1, <3>2, <3>4
    <3> QED
      BY <3>5
  <2> QED
    BY <2>1, <2>2
<1> HIDE DEF S
<1>5. S = Nat
  <2>1. S \in SUBSET Nat
    BY DEF S
  <2> QED
    BY <1>3, <1>4, <2>1, SetInduction
<1> QED
  BY <1>5 DEF S

(* A chain has fewer blocks than the volume, or it would have one twice.   *)
LEMMA ChainEnds ==
  ASSUME NEW fat \in Fat, NEW root, NEW L, VolumeSound(fat, root, L), NEW i \in L
  PROVE  find_data_block(fat, root[i].first_index, NumBlocks - 1) = FAT_EOC
<1> SUFFICES ASSUME find_data_block(fat, root[i].first_index, NumBlocks - 1) # FAT_EOC
             PROVE  FALSE
  OBVIOUS
<1> DEFINE c == [k \in Blocks |-> find_data_block(fat, root[i].first_index, k)]
<1>1. NumBlocks - 1 \in Nat
  BY NumBlocksAssumption
<1>2. ASSUME NEW k \in Blocks
      PROVE  /\ find_data_block(fat, root[i].first_index, k) # FAT_EOC
             /\ c[k] \in DataBlocks
  <2>1. k \in Nat /\ k =< NumBlocks - 1
    BY NumBlocksAssumption DEF Blocks
  <2>2. find_data_block(fat, root[i].first_index, k) # FAT_EOC
    BY <1>1, <2>1, ChainEnded
  <2> QED
    BY <2>1, <2>2, ChainBlock
<1>3. c \in [Blocks -> DataBlocks]
  BY <1>2
<1>4. IsFiniteSet(Blocks) /\ Cardinality(Blocks) = NumBlocks
  BY <1>1, NumBlocksAssumption, FS_Interval DEF Blocks
<1>5. IsFiniteSet(DataBlocks) /\ Cardinality(DataBlocks) < Cardinality(Blocks)
  <2>1. IsFiniteSet(Blocks \ {0}) /\ Cardinality(Blocks \ {0}) = Cardinality(Blocks) - 1
    BY <1>4, BlockFacts, FS_RemoveElement
  <2> QED
    BY <1>4, <2>1, NumBlocksAssumption DEF DataBlocks
<1> HIDE DEF c
<1>6. PICK x, y \in Blocks : x # y /\ c[x] = c[y]
  BY <1>3, <1>4, <1>5, FS_PigeonHole
<1>7. x \in Nat /\ y \in Nat
  BY BlockFacts
<1> QED
  BY <1>2, <1>6, <1>7, ChainsMeetNowhere DEF c

(* Entry by entry soundness is integrity of whole chains.                  *)
LEMMA SoundIsIntegral ==
  ASSUME NEW fat \in Fat, NEW root, NEW L, VolumeSound(fat, root, L)
  PROVE  ChainIntegrity(fat, root, L)
<1>1. ASSUME NEW i \in L, NEW j \in L, i # j,
             NEW b \in BlocksOf(fat, root, i), b \in BlocksOf(fat, root, j)
      PROVE  FALSE
  <2>1. b # FAT_EOC /\ 0 .. NumBlocks - 1 \in SUBSET Nat
    BY NumBlocksAssumption DEF BlocksOf
  <2>2. PICK m \in 0 .. NumBlocks - 1 : b = find_data_block(fat, root[i].first_index, m)
    BY DEF BlocksOf, ChainOf
  <2>3. PICK n \in 0 .. NumBlocks - 1 : b = find_data_block(fat, root[j].first_index, n)
    BY <1>1 DEF BlocksOf, ChainOf
  <2>4. m \in Nat /\ n \in Nat
    BY <2>1
  <2>5. /\ find_data_block(fat, root[i].first_index, m) # FAT_EOC
        /\ find_data_block(fat, root[i].first_index, m) =
             find_data_block(fat, root[j].first_index, n)
    BY <2>1, <2>2, <2>3
  <2>6. i = j
    BY <2>4, <2>5, ChainsMeetNowhere
  <2> QED
    BY <1>1, <2>6
<1>2. \A i \in L : find_data_block(fat, root[i].first_index, NumBlocks - 1) = FAT_EOC
  BY ChainEnds
<1>3. \A i, j \in L : i # j =>
        BlocksOf(fat, root, i) \intersect BlocksOf(fat, root, j) = {}
  BY <1>1
<1> QED
  BY <1>2, <1>3 DEF ChainIntegrity

-----------------------------------------------------------------------------
(***************************************************************************)
(* What a change of the FAT does to the chains of a sound volume.          *)
(***************************************************************************)

(* The walk that reaches the block where it ends: its position is below    *)
(* the number of blocks.                                                   *)
LEMMA ChainPosition ==
  ASSUME NEW fat \in Fat, NEW root, NEW L, VolumeSound(fat, root, L),
         NEW i \in L, NEW n \in Nat,
         find_data_block(fat, root[i].first_index, n) # FAT_EOC
  PROVE  n \in 0 .. NumBlocks - 1
<1>1. NumBlocks - 1 \in Nat
  BY NumBlocksAssumption
<1>2. ~ (NumBlocks - 1 =< n)
  BY <1>1, ChainEnds, ChainEnded
<1> QED
  BY <1>1, <1>2

LEMMA InChain ==
  ASSUME NEW fat \in Fat, NEW root, NEW L, VolumeSound(fat, root, L), NEW i \in L
  PROVE  \A b : b \in BlocksOf(fat, root, i) <=>
           /\ b # FAT_EOC
           /\ \E n \in Nat : find_data_block(fat, root[i].first_index, n) = b
<1>1. 0 .. NumBlocks - 1 \subseteq Nat
  BY NumBlocksAssumption
<1>2. \A b : b \in BlocksOf(fat, root, i) <=>
        /\ b # FAT_EOC
        /\ \E n \in 0 .. NumBlocks - 1 : find_data_block(fat, root[i].first_index, n) = b
  BY DEF BlocksOf, ChainOf
<1> QED
  BY <1>1, <1>2, ChainPosition

(* A free block, the reserved entry and the block of another file may      *)
(* change: no walk from this file reads them.                              *)
LEMMA ChainUntouched ==
  ASSUME NEW fat \in Fat, NEW root, NEW L, VolumeSound(fat, root, L), NEW i \in L,
         NEW g,
         \A b \in DataBlocks : fat[b] # 0 =>
           \/ g[b] = fat[b]
           \/ \E j \in L \ {i}, n \in Nat :
                find_data_block(fat, root[j].first_index, n) = b
  PROVE  \A n \in Nat : find_data_block(g, root[i].first_index, n) =
                        find_data_block(fat, root[i].first_index, n)
<1> TAKE n \in Nat
<1>1. ASSUME NEW k \in 0 .. n - 1,
             find_data_block(fat, root[i].first_index, k) # FAT_EOC
      PROVE  g[find_data_block(fat, root[i].first_index, k)] =
             fat[find_data_block(fat, root[i].first_index, k)]
  <2> DEFINE b == find_data_block(fat, root[i].first_index, k)
  <2>1. k \in Nat
    OBVIOUS
  <2>2. b \in DataBlocks /\ fat[b] # 0
    BY <1>1, <2>1, ChainBlock
  <2>3. ASSUME NEW j \in L \ {i}, NEW m \in Nat,
               find_data_block(fat, root[j].first_index, m) = b
        PROVE  FALSE
    BY <1>1, <2>1, <2>3, ChainsMeetNowhere
  <2> HIDE DEF b
  <2>4. g[b] = fat[b]
    BY <2>2, <2>3
  <2> QED
    BY <2>4 DEF b
<1> QED
  BY <1>1, SameChain

(* A block linked behind the last one of a chain is its next.              *)
LEMMA ChainExtended ==
  ASSUME NEW fat \in Fat, NEW root, NEW L, VolumeSound(fat, root, L), NEW i \in L,
         NEW n \in Nat,
         NEW last \in DataBlocks, fat[last] = FAT_EOC,
         find_data_block(fat, root[i].first_index, n) = last,
         NEW block \in DataBlocks, fat[block] = 0,
         NEW g, g[last] = block, g[block] = FAT_EOC,
         \A b \in Blocks : b # block /\ b # last => g[b] = fat[b]
  PROVE  /\ \A k \in 0 .. n : find_data_block(g, root[i].first_index, k) =
                              find_data_block(fat, root[i].first_index, k)
         /\ find_data_block(g, root[i].first_index, n + 1) = block
         /\ \A k \in Nat : k > n + 1 => find_data_block(g, root[i].first_index, k) = FAT_EOC
<1> DEFINE first == root[i].first_index
<1>1. last # FAT_EOC /\ block # FAT_EOC
  BY BlockFacts
<1>2. ASSUME NEW k \in 0 .. n - 1, find_data_block(fat, first, k) # FAT_EOC
      PROVE  g[find_data_block(fat, first, k)] = fat[find_data_block(fat, first, k)]
  <2>1. k \in Nat /\ k # n
    OBVIOUS
  <2>2. /\ find_data_block(fat, first, k) \in DataBlocks
        /\ fat[find_data_block(fat, first, k)] # 0
    BY <1>2, <2>1, ChainBlock
  <2>3. find_data_block(fat, first, k) # last
    BY <1>2, <2>1, ChainsMeetNowhere
  <2>4. /\ find_data_block(fat, first, k) \in Blocks
        /\ find_data_block(fat, first, k) # block
    BY <2>2, BlockFacts
  <2> QED
    BY <2>3, <2>4
<1>3. ASSUME NEW k \in 0 .. n
      PROVE  find_data_block(g, first, k) = find_data_block(fat, first, k)
  BY <1>2, SameChain
<1>4. find_data_block(g, first, n) = last
  BY <1>3
<1>5. find_data_block(g, first, n + 1) = block
  BY <1>1, <1>4, FindNext DEF NextInChain
<1>6. find_data_block(g, first, (n + 1) + 1) = FAT_EOC
  BY <1>1, <1>5, FindNext DEF NextInChain
<1>7. ASSUME NEW k \in Nat, k > n + 1
      PROVE  find_data_block(g, first, k) = FAT_EOC
  BY <1>6, <1>7, ChainEnded
<1> QED
  BY <1>3, <1>5, <1>7
=============================================================================
