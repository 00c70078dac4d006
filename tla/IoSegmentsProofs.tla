----------------------------- MODULE IoSegmentsProofs -----------------------------
(***************************************************************************)
(* The arithmetic of a transfer, for every offset, count and block size.   *)
(***************************************************************************)
EXTENDS IoSegments, SequenceTheorems, TLAPS

LEMMA DivMod ==
  ASSUME NEW n \in Nat
  PROVE  /\ n \div BlockSize \in Nat
         /\ n % BlockSize \in 0 .. BlockSize - 1
         /\ n = BlockSize * (n \div BlockSize) + (n % BlockSize)
BY BlockSizeAssumption

(* A transfer of at least one byte needs at least one block.               *)
LEMMA TargetBlocksPositive ==
  ASSUME NEW offset \in Nat, NEW count \in Nat, count > 0
  PROVE  find_num_target_blocks(offset, count) \in Nat \ {0}
<1> DEFINE last == offset + count
<1>1. last \in Nat /\ last > 0
  OBVIOUS
<1>2. last \div BlockSize # 0 \/ last % BlockSize # 0
  BY <1>1, DivMod, BlockSizeAssumption
<1> QED
  BY <1>1, <1>2, DivMod DEF find_num_target_blocks

(* A quotient and a remainder are the only ones.                           *)
LEMMA DivUnique ==
  ASSUME NEW q \in Nat, NEW r \in 0 .. BlockSize - 1
  PROVE  /\ (BlockSize * q + r) \div BlockSize = q
         /\ (BlockSize * q + r) % BlockSize = r
BY BlockSizeAssumption

-----------------------------------------------------------------------------
(***************************************************************************)
(* The numbers of fs_read and fs_write.  The first block takes what fits,  *)
(* and count is that, the full blocks, and a remainder below a block.      *)
(***************************************************************************)
LEMMA TransferNumbers ==
  ASSUME NEW offset \in Nat, NEW count \in Nat, count > 0
  PROVE  /\ PartialAmount(offset, count) \in 0 .. count
         /\ num_full_blocks(offset, count) \in Nat
         /\ Remainder(offset, count) \in 0 .. BlockSize - 1
         /\ count = PartialAmount(offset, count)
                      + BlockSize * num_full_blocks(offset, count) + Remainder(offset, count)
         /\ StartsInside(offset) =>
              /\ PartialAmount(offset, count) > 0
              /\ (offset % BlockSize) + PartialAmount(offset, count) =< BlockSize
         /\ ~StartsInside(offset) => PartialAmount(offset, count) = 0
         /\ StartsInside(offset) /\ PartialAmount(offset, count) # count =>
              (offset % BlockSize) + PartialAmount(offset, count) = BlockSize
         /\ find_num_target_blocks(offset, count) =
              full_block_start_index(offset) + num_full_blocks(offset, count)
                + (IF Remainder(offset, count) > 0 THEN 1 ELSE 0)
<1> DEFINE q == offset \div BlockSize
           r == offset % BlockSize
           p == PartialAmount(offset, count)
           target == find_num_target_blocks(offset, count)
           full == num_full_blocks(offset, count)
           rem == Remainder(offset, count)
<1> USE BlockSizeAssumption
<1>1. q \in Nat /\ r \in 0 .. BlockSize - 1 /\ offset = BlockSize * q + r
  BY DivMod
<1>2. /\ p = IF r = 0 THEN 0 ELSE IF r + count < BlockSize THEN count ELSE BlockSize - r
      /\ p \in 0 .. count
  BY <1>1 DEF PartialAmount, StartsInside
<1>3. count - p \in Nat
  BY <1>2
<1> DEFINE cq == (count - p) \div BlockSize
           cr == (count - p) % BlockSize
<1>4. cq \in Nat /\ cr \in 0 .. BlockSize - 1 /\ count - p = BlockSize * cq + cr
  BY <1>3, DivMod
<1>5. target = (offset + count) \div BlockSize
                 + (IF (offset + count) % BlockSize # 0 THEN 1 ELSE 0)
  BY DEF find_num_target_blocks
<1>6. full = target - q - (IF p # 0 THEN 1 ELSE 0) - (IF cr # 0 THEN 1 ELSE 0)
  BY DEF num_full_blocks
<1>7. rem = count - p - BlockSize * full
  BY DEF Remainder
<1>8. full_block_start_index(offset) = q + (IF r # 0 THEN 1 ELSE 0)
  BY DEF full_block_start_index, StartsInside
<1>9. StartsInside(offset) <=> r # 0
  BY DEF StartsInside
<1> HIDE DEF q, r, p, target, full, rem, cq, cr
<1>10. CASE r = 0
  <2>1. p = 0 /\ q + cq \in Nat /\ offset + count = BlockSize * (q + cq) + cr
    BY <1>1, <1>2, <1>4, <1>10
  <2>2. target = q + cq + (IF cr # 0 THEN 1 ELSE 0)
    BY <1>4, <1>5, <2>1, DivUnique
  <2>3. full = cq /\ rem = cr
    <3>1. full = cq
      BY <1>1, <1>4, <1>6, <2>1, <2>2
    <3> QED
      BY <1>4, <1>7, <3>1
  <2> QED
    BY <1>1, <1>2, <1>4, <1>8, <1>9, <1>10, <2>1, <2>2, <2>3 DEF p, target, full, rem
<1>11. CASE r # 0 /\ r + count < BlockSize
  <2>1. /\ p = count /\ p > 0 /\ offset + count = BlockSize * q + (r + count)
        /\ r + count \in 0 .. BlockSize - 1 /\ r + count # 0
    BY <1>1, <1>2, <1>11
  <2>2. target = q + 1
    <3>1. PICK s \in 0 .. BlockSize - 1 : s = r + count
      BY <2>1
    <3>2. (BlockSize * q + s) \div BlockSize = q /\ (BlockSize * q + s) % BlockSize = s
      BY <1>1, DivUnique
    <3> QED
      BY <1>1, <1>5, <2>1, <3>1, <3>2
  <2>3. count - p = BlockSize * 0 + 0 /\ cr = 0 /\ cq = 0
    <3>1. count - p = BlockSize * 0 + 0 /\ 0 \in 0 .. BlockSize - 1
      BY <2>1
    <3> QED
      BY <3>1, DivUnique DEF cr, cq
  <2>4. full = 0 /\ rem = 0
    BY <1>1, <1>6, <1>7, <2>1, <2>2, <2>3
  <2> QED
    BY <1>1, <1>2, <1>8, <1>9, <1>11, <2>1, <2>2, <2>4 DEF p, target, full, rem, r
<1>12. CASE r # 0 /\ ~ (r + count < BlockSize)
  <2>1. /\ p = BlockSize - r /\ p > 0 /\ q + 1 + cq \in Nat
        /\ offset + p = BlockSize * (q + 1)
    BY <1>1, <1>2, <1>4, <1>12
  <2>2. offset + count = BlockSize * (q + 1 + cq) + cr
    BY <1>1, <1>2, <1>4, <2>1
  <2>3. target = q + 1 + cq + (IF cr # 0 THEN 1 ELSE 0)
    <3>1. PICK u \in Nat : u = q + 1 + cq
      BY <2>1
    <3>2. (BlockSize * u + cr) \div BlockSize = u /\ (BlockSize * u + cr) % BlockSize = cr
      BY <1>4, DivUnique
    <3>3. (offset + count) \div BlockSize = u /\ (offset + count) % BlockSize = cr
      BY <2>2, <3>1, <3>2
    <3> QED
      BY <1>5, <3>1, <3>3
  <2>4. full = cq
    BY <1>1, <1>4, <1>6, <2>1, <2>3
  <2>5. rem = cr
    BY <1>4, <1>7, <2>4
  <2> QED
    BY <1>1, <1>2, <1>4, <1>8, <1>9, <1>12, <2>1, <2>3, <2>4, <2>5
    DEF p, target, full, rem, r
<1> QED
  BY <1>1, <1>10, <1>11, <1>12
-----------------------------------------------------------------------------
(***************************************************************************)
(* The pieces, one by one.                                                 *)
(***************************************************************************)
Piece == [block: Nat, at: Nat, from: Nat, size: Nat]

(* A function on 1 .. n is a sequence of length n.                         *)
LEMMA FunctionIsSeq ==
  ASSUME NEW S, NEW n \in Nat, NEW f \in [1 .. n -> S]
  PROVE  f \in Seq(S) /\ Len(f) = n
<1>1. f \in Seq(S)
  BY SeqDef
<1>2. Len(f) \in Nat /\ 1 .. Len(f) = 1 .. n
  BY <1>1, LenProperties
<1> QED
  BY <1>1, <1>2

LEMMA ConcatPieces ==
  ASSUME NEW r \in Seq(Piece), NEW s \in Seq(Piece), NEW t \in Seq(Piece)
  PROVE  /\ (r \o s) \o t \in Seq(Piece)
         /\ Len((r \o s) \o t) = Len(r) + Len(s) + Len(t)
         /\ \A i \in 1 .. Len(r) : ((r \o s) \o t)[i] = r[i]
         /\ \A i \in 1 .. Len(s) : ((r \o s) \o t)[Len(r) + i] = s[i]
         /\ \A i \in 1 .. Len(t) : ((r \o s) \o t)[Len(r) + Len(s) + i] = t[i]
<1>1. Len(r) \in Nat /\ Len(s) \in Nat /\ Len(t) \in Nat
  BY LenProperties
<1> DEFINE rs == r \o s
           rst == rs \o t
<1>2. /\ rs \in Seq(Piece) /\ Len(rs) = Len(r) + Len(s)
      /\ \A i \in 1 .. Len(r) + Len(s) : rs[i] = IF i <= Len(r) THEN r[i] ELSE s[i - Len(r)]
  BY ConcatProperties
<1>rs. rs \in Seq(Piece)
  BY <1>2
<1> HIDE DEF rs
<1>3. /\ rst \in Seq(Piece) /\ Len(rst) = Len(rs) + Len(t)
      /\ \A i \in 1 .. Len(rs) + Len(t) :
           rst[i] = IF i <= Len(rs) THEN rs[i] ELSE t[i - Len(rs)]
  BY <1>rs, ConcatProperties
<1> HIDE DEF rst
<1>4. \A i \in 1 .. Len(r) : rst[i] = r[i]
  BY <1>1, <1>2, <1>3
<1>5. \A i \in 1 .. Len(s) : rst[Len(r) + i] = s[i]
  BY <1>1, <1>2, <1>3
<1>6. \A i \in 1 .. Len(t) : rst[Len(r) + Len(s) + i] = t[i]
  <2>1. SUFFICES ASSUME NEW i \in 1 .. Len(t)
                 PROVE  rst[Len(r) + Len(s) + i] = t[i]
    OBVIOUS
  <2>2. PICK j \in 1 .. Len(rs) + Len(t) : j = Len(r) + Len(s) + i
    BY <1>1, <1>2
  <2>3. ~ (j <= Len(rs)) /\ j - Len(rs) = i
    BY <1>1, <1>2, <2>2
  <2>4. rst[j] = t[j - Len(rs)]
    BY <1>3, <2>3
  <2> QED
    BY <2>2, <2>3, <2>4
<1> QED
  BY <1>2, <1>3, <1>4, <1>5, <1>6 DEF rst, rs

LEMMA PieceParts ==
  ASSUME NEW offset \in Nat, NEW count \in Nat, count > 0
  PROVE  /\ PartialPiece(offset, count) \in Seq(Piece)
         /\ Len(PartialPiece(offset, count)) = IF StartsInside(offset) THEN 1 ELSE 0
         /\ StartsInside(offset) =>
              PartialPiece(offset, count)[1] =
                [block |-> offset \div BlockSize, at |-> offset % BlockSize,
                 from |-> 0, size |-> PartialAmount(offset, count)]
         /\ FullPieces(offset, count) \in Seq(Piece)
         /\ Len(FullPieces(offset, count)) = num_full_blocks(offset, count)
         /\ LastPiece(offset, count) \in Seq(Piece)
         /\ Len(LastPiece(offset, count)) = IF Remainder(offset, count) > 0 THEN 1 ELSE 0
         /\ Remainder(offset, count) > 0 =>
              LastPiece(offset, count)[1] =
                [block |-> find_num_target_blocks(offset, count) - 1, at |-> 0,
                 from |-> count - Remainder(offset, count), size |-> Remainder(offset, count)]
<1> DEFINE head == [block |-> offset \div BlockSize, at |-> offset % BlockSize,
                    from |-> 0, size |-> PartialAmount(offset, count)]
           tail == [block |-> find_num_target_blocks(offset, count) - 1, at |-> 0,
                    from |-> count - Remainder(offset, count),
                    size |-> Remainder(offset, count)]
           full == num_full_blocks(offset, count)
<1>1. /\ PartialAmount(offset, count) \in 0 .. count
      /\ full \in Nat
      /\ Remainder(offset, count) \in 0 .. BlockSize - 1
      /\ count - Remainder(offset, count) \in Nat
  <2>1. /\ PartialAmount(offset, count) \in 0 .. count
        /\ full \in Nat
        /\ Remainder(offset, count) \in 0 .. BlockSize - 1
    BY TransferNumbers
  <2> HIDE DEF full
  <2>2. Remainder(offset, count) =< count
    <3>1. count = PartialAmount(offset, count) + BlockSize * full + Remainder(offset, count)
      BY TransferNumbers DEF full
    <3>2. BlockSize * full \in Nat
      BY <2>1, BlockSizeAssumption
    <3> QED
      BY <2>1, <3>1, <3>2
  <2> QED
    BY <2>1, <2>2, BlockSizeAssumption
<1>2. head \in Piece
  BY <1>1, DivMod, BlockSizeAssumption DEF Piece
<1>3. tail \in Piece
  BY <1>1, TargetBlocksPositive DEF Piece
<1>4. FullPieces(offset, count) \in [1 .. full -> Piece]
  <2>1. full_block_start_index(offset) \in Nat
    BY DivMod DEF full_block_start_index
  <2>2. ASSUME NEW k \in 1 .. full
        PROVE  [block |-> full_block_start_index(offset) + k - 1, at |-> 0,
                from |-> PartialAmount(offset, count) + BlockSize * (k - 1),
                size |-> BlockSize] \in Piece
    <3>1. k - 1 \in Nat /\ BlockSize * (k - 1) \in Nat
      BY <1>1, BlockSizeAssumption
    <3> QED
      BY <1>1, <2>1, <3>1, BlockSizeAssumption DEF Piece
  <2> QED
    BY <2>2 DEF FullPieces
<1> HIDE DEF head, tail, full
<1>5. /\ PartialPiece(offset, count) = IF StartsInside(offset) THEN << head >> ELSE << >>
      /\ LastPiece(offset, count) = IF Remainder(offset, count) > 0 THEN << tail >> ELSE << >>
  BY DEF PartialPiece, LastPiece, head, tail
<1>6. /\ << head >> \in Seq(Piece) /\ Len(<< head >>) = 1 /\ << head >>[1] = head
      /\ << tail >> \in Seq(Piece) /\ Len(<< tail >>) = 1 /\ << tail >>[1] = tail
      /\ << >> \in Seq(Piece) /\ Len(<< >>) = 0
  BY <1>2, <1>3
<1>7. FullPieces(offset, count) \in Seq(Piece) /\ Len(FullPieces(offset, count)) = full
  BY <1>1, <1>4, FunctionIsSeq
<1> QED
  BY <1>5, <1>6, <1>7 DEF head, tail, full

HeadPieces(offset)        == IF StartsInside(offset) THEN 1 ELSE 0
TailPieces(offset, count) == IF Remainder(offset, count) > 0 THEN 1 ELSE 0

(* Where each piece comes from: the first block if the transfer starts     *)
(* inside one, then the full blocks, then the remainder.                   *)
LEMMA PieceList ==
  ASSUME NEW offset \in Nat, NEW count \in Nat, count > 0
  PROVE  /\ Pieces(offset, count) \in Seq(Piece)
         /\ Len(Pieces(offset, count)) =
              HeadPieces(offset) + num_full_blocks(offset, count) + TailPieces(offset, count)
         /\ HeadPieces(offset) = 1 =>
              Pieces(offset, count)[1] =
                [block |-> offset \div BlockSize, at |-> offset % BlockSize,
                 from |-> 0, size |-> PartialAmount(offset, count)]
         /\ \A k \in 1 .. num_full_blocks(offset, count) :
              Pieces(offset, count)[HeadPieces(offset) + k] =
                [block |-> full_block_start_index(offset) + k - 1, at |-> 0,
                 from |-> PartialAmount(offset, count) + BlockSize * (k - 1),
                 size |-> BlockSize]
         /\ TailPieces(offset, count) = 1 =>
              Pieces(offset, count)[HeadPieces(offset) + num_full_blocks(offset, count) + 1] =
                [block |-> find_num_target_blocks(offset, count) - 1, at |-> 0,
                 from |-> count - Remainder(offset, count), size |-> Remainder(offset, count)]
<1> DEFINE np == HeadPieces(offset)
           nf == num_full_blocks(offset, count)
           nl == TailPieces(offset, count)
<1>np. /\ np = IF StartsInside(offset) THEN 1 ELSE 0
       /\ nl = IF Remainder(offset, count) > 0 THEN 1 ELSE 0
       /\ nf = num_full_blocks(offset, count)
  BY DEF HeadPieces, TailPieces
<1> HIDE DEF np, nf, nl
<1> DEFINE a == PartialPiece(offset, count)
           b == FullPieces(offset, count)
           c == LastPiece(offset, count)
<1>1. /\ a \in Seq(Piece) /\ Len(a) = np /\ np \in 0 .. 1
      /\ b \in Seq(Piece) /\ Len(b) = nf /\ nf \in Nat
      /\ c \in Seq(Piece) /\ Len(c) = nl /\ nl \in 0 .. 1
  <2>1. a \in Seq(Piece) /\ Len(a) = np
    BY PieceParts, <1>np
  <2>2. b \in Seq(Piece) /\ Len(b) = nf
    BY PieceParts, <1>np
  <2>3. c \in Seq(Piece) /\ Len(c) = nl
    BY PieceParts, <1>np
  <2>4. nf \in Nat
    BY TransferNumbers, <1>np
  <2> QED
    BY <1>np, <2>1, <2>2, <2>3, <2>4
<1>2. \A k \in 1 .. nf :
        b[k] = [block |-> full_block_start_index(offset) + k - 1, at |-> 0,
                from |-> PartialAmount(offset, count) + BlockSize * (k - 1),
                size |-> BlockSize]
  BY <1>np DEF FullPieces
<1>3. np = 1 => a[1] = [block |-> offset \div BlockSize, at |-> offset % BlockSize,
                       from |-> 0, size |-> PartialAmount(offset, count)]
  <2> SUFFICES ASSUME np = 1
               PROVE  a[1] = [block |-> offset \div BlockSize, at |-> offset % BlockSize,
                              from |-> 0, size |-> PartialAmount(offset, count)]
    OBVIOUS
  <2>1. StartsInside(offset)
    BY <1>np
  <2> QED
    BY <2>1 DEF PartialPiece
<1>4. nl = 1 => c[1] = [block |-> find_num_target_blocks(offset, count) - 1, at |-> 0,
                       from |-> count - Remainder(offset, count),
                       size |-> Remainder(offset, count)]
  <2> SUFFICES ASSUME nl = 1
               PROVE  c[1] = [block |-> find_num_target_blocks(offset, count) - 1,
                              at |-> 0, from |-> count - Remainder(offset, count),
                              size |-> Remainder(offset, count)]
    OBVIOUS
  <2>1. Remainder(offset, count) > 0
    BY <1>np
  <2> QED
    BY <2>1 DEF LastPiece
<1>5. Pieces(offset, count) = (a \o b) \o c
  BY DEF Pieces
<1> HIDE DEF a, b, c
<1>abc. a \in Seq(Piece) /\ b \in Seq(Piece) /\ c \in Seq(Piece)
  BY <1>1
<1> DEFINE s == (a \o b) \o c
<1>len. /\ s \in Seq(Piece)
        /\ Len(s) = Len(a) + Len(b) + Len(c)
        /\ \A i \in 1 .. Len(a) : s[i] = a[i]
        /\ \A i \in 1 .. Len(b) : s[Len(a) + i] = b[i]
        /\ \A i \in 1 .. Len(c) : s[Len(a) + Len(b) + i] = c[i]
  BY <1>abc, ConcatPieces
<1>def. Pieces(offset, count) = s
  BY <1>5
<1> HIDE DEF s
<1>6. /\ s \in Seq(Piece)
      /\ Len(s) = np + nf + nl
      /\ \A i \in 1 .. np : s[i] = a[i]
      /\ \A i \in 1 .. nf : s[np + i] = b[i]
      /\ \A i \in 1 .. nl : s[np + nf + i] = c[i]
  BY <1>1, <1>len
<1>7. np = 1 => s[1] = a[1]
  BY <1>6
<1>8. nl = 1 => s[np + nf + 1] = c[1]
  BY <1>6
<1> QED
  BY <1>2, <1>3, <1>4, <1>def, <1>6, <1>7, <1>8 DEF np, nf, nl

(***************************************************************************)
(* The pieces are consecutive, one block each, from the one that holds the *)
(* offset to the one that holds the last byte.                             *)
(***************************************************************************)
LEMMA PieceShape ==
  ASSUME NEW offset \in Nat, NEW count \in Nat, count > 0,
         NEW len, len = Len(Pieces(offset, count))
  PROVE  /\ len \in Nat \ {0}
         /\ len = find_num_target_blocks(offset, count) - offset \div BlockSize
         /\ \A i \in 1 .. len :
              LET piece == Pieces(offset, count)[i] IN
              /\ piece \in Piece
              /\ piece.block = offset \div BlockSize + i - 1
              /\ piece.at = IF i = 1 THEN offset % BlockSize ELSE 0
              /\ piece.from = IF i = 1 THEN 0
                              ELSE BlockSize * (offset \div BlockSize + i - 1) - offset
              /\ piece.from + piece.size =
                   IF i = len THEN count ELSE BlockSize * (offset \div BlockSize + i) - offset
              /\ piece.size > 0
              /\ piece.at + piece.size =< BlockSize
<1> DEFINE q == offset \div BlockSize
           r == offset % BlockSize
           p == PartialAmount(offset, count)
           np == HeadPieces(offset)
           nf == num_full_blocks(offset, count)
           rem == Remainder(offset, count)
           nl == TailPieces(offset, count)
           target == find_num_target_blocks(offset, count)
           pieces == Pieces(offset, count)
<1>1. q \in Nat /\ r \in 0 .. BlockSize - 1 /\ offset = BlockSize * q + r
  BY DivMod
<1>2. /\ p \in 0 .. count /\ nf \in Nat /\ rem \in 0 .. BlockSize - 1
      /\ count = p + BlockSize * nf + rem
      /\ np = 1 => p > 0 /\ r + p =< BlockSize
      /\ np = 0 => p = 0
      /\ np = 1 /\ p # count => r + p = BlockSize
      /\ np = 0 => r = 0
      /\ np \in 0 .. 1 /\ nl \in 0 .. 1 /\ (nl = 1 <=> rem > 0)
  <2>1. /\ np = IF StartsInside(offset) THEN 1 ELSE 0
        /\ nl = IF rem > 0 THEN 1 ELSE 0
        /\ StartsInside(offset) <=> r # 0
    BY DEF HeadPieces, TailPieces, StartsInside
  <2>2. /\ p \in 0 .. count /\ nf \in Nat /\ rem \in 0 .. BlockSize - 1
        /\ count = p + BlockSize * nf + rem
        /\ StartsInside(offset) => p > 0 /\ r + p =< BlockSize
        /\ ~StartsInside(offset) => p = 0
        /\ StartsInside(offset) /\ p # count => r + p = BlockSize
    BY TransferNumbers
  <2> HIDE DEF q, r, p, np, nf, rem, nl
  <2> QED
    BY <2>1, <2>2
<1>3. target = q + np + nf + nl
  <2>1. target = full_block_start_index(offset) + nf + nl
    BY TransferNumbers DEF TailPieces
  <2> QED
    BY <2>1 DEF full_block_start_index, HeadPieces
<1>4. np = 0 => r = 0
  BY <1>2
<1>5. np \in 0 .. 1 /\ nl \in 0 .. 1 /\ (nl = 1 <=> rem > 0)
  BY <1>2
<1>6. /\ pieces \in Seq(Piece)
      /\ len = np + nf + nl
      /\ np = 1 => pieces[1] = [block |-> q, at |-> r, from |-> 0, size |-> p]
      /\ \A k \in 1 .. nf :
           pieces[np + k] = [block |-> q + np + k - 1, at |-> 0,
                             from |-> p + BlockSize * (k - 1), size |-> BlockSize]
      /\ nl = 1 => pieces[np + nf + 1] = [block |-> target - 1, at |-> 0,
                                          from |-> count - rem, size |-> rem]
  <2>1. full_block_start_index(offset) = q + np
    BY DEF full_block_start_index, HeadPieces
  <2> QED
    BY <2>1, PieceList
<1>sum. len = np + nf + nl
  BY <1>6
<1>one. np = 1 => pieces[1] = [block |-> q, at |-> r, from |-> 0, size |-> p]
  BY <1>6
<1>7. ASSUME NEW i \in 1 .. len
      PROVE  pieces[i] \in Piece
  BY <1>6, ElementOfSeq
<1> USE BlockSizeAssumption
<1> HIDE DEF q, r, p, np, nf, rem, nl, target, pieces
<1>8. len \in Nat \ {0} /\ len = target - q
  <2>1. np + nf + nl # 0
    BY <1>2, <1>5
  <2> QED
    BY <1>1, <1>2, <1>3, <1>5, <1>sum, <2>1
<1>len. /\ np \in Nat /\ nf \in Nat /\ nl \in Nat /\ nl =< 1 /\ np =< 1
        /\ len \in Nat /\ len = np + nf + nl /\ rem \in Nat /\ (nl = 1 <=> rem > 0)
  BY <1>2, <1>5, <1>sum, <1>8
<1> DEFINE Shape(i) ==
             /\ pieces[i].block = q + i - 1
             /\ pieces[i].at = IF i = 1 THEN r ELSE 0
             /\ pieces[i].from = IF i = 1 THEN 0 ELSE BlockSize * (q + i - 1) - offset
             /\ pieces[i].from + pieces[i].size =
                  IF i = len THEN count ELSE BlockSize * (q + i) - offset
             /\ pieces[i].size > 0
             /\ pieces[i].at + pieces[i].size =< BlockSize
(* What lies behind the partial block starts on a block boundary.          *)
<1>9. nf > 0 \/ nl = 1 => p = BlockSize * np - r
  <2>1. nf > 0 \/ nl = 1 => p # count
    BY <1>2, <1>5
  <2>2. np = 0 => p = 0 /\ r = 0
    BY <1>2, <1>4
  <2>3. np = 1 /\ p # count => r + p = BlockSize
    BY <1>2
  <2> QED
    BY <1>1, <1>2, <1>5, <2>1, <2>2, <2>3
<1>10. ASSUME np = 1
       PROVE  Shape(1)
  <2>1. /\ pieces[1].block = q /\ pieces[1].at = r
        /\ pieces[1].from = 0 /\ pieces[1].size = p
    BY <1>one, <1>10
  <2>2. CASE len = 1
    <3>1. nf = 0 /\ nl = 0 /\ rem = 0
      BY <1>len, <1>10, <2>2
    <3>2. p = count
      BY <1>2, <3>1
    <3> QED
      BY <1>1, <1>2, <1>10, <2>1, <2>2, <3>2
  <2>3. CASE len # 1
    <3>1. nf > 0 \/ nl = 1
      BY <1>len, <1>10, <2>3
    <3>2. p = BlockSize - r
      BY <1>1, <1>9, <1>10, <3>1
    <3>3. BlockSize * (q + 1) - offset = p
      BY <1>1, <3>2
    <3>4. p > 0 /\ r + p =< BlockSize /\ p \in Nat
      BY <1>2, <1>10
    <3>5. q + 1 - 1 = q
      BY <1>1
    <3> QED
      BY <1>1, <2>1, <2>3, <3>3, <3>4, <3>5
  <2> QED
    BY <2>2, <2>3
<1>11. ASSUME NEW k \in 1 .. nf
       PROVE  Shape(np + k)
  <2>1. PICK i \in 1 .. len : i = np + k
    BY <1>len
  <2>2. /\ pieces[i].block = q + i - 1 /\ pieces[i].at = 0
        /\ pieces[i].from = p + BlockSize * (k - 1) /\ pieces[i].size = BlockSize
    <3>1. pieces[np + k] = [block |-> q + np + k - 1, at |-> 0,
                            from |-> p + BlockSize * (k - 1), size |-> BlockSize]
      BY <1>6
    <3>2. q + np + k - 1 = q + i - 1
      BY <1>1, <1>len, <2>1
    <3>3. pieces[i] = [block |-> q + i - 1, at |-> 0,
                       from |-> p + BlockSize * (k - 1), size |-> BlockSize]
      BY <2>1, <3>1, <3>2
    <3> QED
      BY <3>3
  <2>3. p = BlockSize * np - r
    BY <1>2, <1>9
  <2>4. p + BlockSize * (k - 1) = BlockSize * (q + i - 1) - offset
    BY <1>1, <1>2, <1>5, <2>1, <2>3
  <2>5. i = 1 => np = 0 /\ k = 1 /\ p = 0 /\ r = 0
    BY <1>2, <1>4, <1>5, <2>1
  <2>6. pieces[i].from = IF i = 1 THEN 0 ELSE BlockSize * (q + i - 1) - offset
    BY <2>2, <2>4, <2>5
  <2>7. pieces[i].from + pieces[i].size = BlockSize * (q + i) - offset
    <3>1. PICK n \in Nat : n = q + i - 1
      BY <1>1, <1>len
    <3>2. q + i = n + 1 /\ BlockSize * (n + 1) = BlockSize * n + BlockSize
      BY <1>1, <1>len, <3>1
    <3> QED
      BY <1>1, <2>2, <2>4, <3>1, <3>2
  <2>8. i = len => BlockSize * (q + i) - offset = count
    <3>1. SUFFICES ASSUME i = len
                   PROVE  BlockSize * (q + i) - offset = count
      OBVIOUS
    <3>2. k = nf /\ nl = 0 /\ rem = 0
      BY <1>len, <2>1, <3>1
    <3>3. count = p + BlockSize * (k - 1) + BlockSize
      BY <1>2, <3>2
    <3> QED
      BY <2>2, <2>7, <3>3
  <2> QED
    BY <1>1, <2>1, <2>2, <2>5, <2>6, <2>7, <2>8
<1>12. ASSUME nl = 1
       PROVE  Shape(np + nf + 1)
  <2>1. PICK i \in 1 .. len : i = np + nf + 1
    <3>1. np + nf + 1 \in 1 .. len
      BY <1>len, <1>12
    <3> QED
      BY <3>1
  <2>2. i = len
    BY <1>len, <1>12, <2>1
  <2>3. /\ pieces[i].block = q + i - 1 /\ pieces[i].at = 0
        /\ pieces[i].from = count - rem /\ pieces[i].size = rem
    <3>1. pieces[np + nf + 1] = [block |-> target - 1, at |-> 0,
                                 from |-> count - rem, size |-> rem]
      BY <1>6, <1>12
    <3>2. target - 1 = q + i - 1
      BY <1>1, <1>3, <1>len, <1>12, <2>1
    <3>3. pieces[i] = [block |-> q + i - 1, at |-> 0, from |-> count - rem, size |-> rem]
      BY <2>1, <3>1, <3>2
    <3> QED
      BY <3>3
  <2>4. p = BlockSize * np - r
    BY <1>9, <1>12
  <2>5. count - rem = BlockSize * (q + i - 1) - offset
    <3>1. count - rem = p + BlockSize * nf
      BY <1>2
    <3>2. p + BlockSize * nf = BlockSize * (np + nf) - r
      BY <1>1, <1>2, <1>5, <2>4
    <3>3. BlockSize * (np + nf) - r = BlockSize * (q + (np + nf)) - offset
      BY <1>1, <1>2, <1>5
    <3> QED
      BY <1>1, <1>2, <1>5, <2>1, <3>1, <3>2, <3>3
  <2>6. i = 1 => p = 0 /\ nf = 0 /\ r = 0 /\ count = rem
    BY <1>2, <1>4, <1>5, <2>1
  <2> QED
    BY <1>1, <1>2, <1>5, <1>12, <2>1, <2>2, <2>3, <2>5, <2>6
<1>13. ASSUME NEW i \in 1 .. len
       PROVE  Shape(i)
  <2>1. CASE i =< np
    <3>1. np = 1 /\ i = 1
      BY <1>5, <2>1
    <3> QED
      BY <1>10, <3>1
  <2>2. CASE i > np /\ i =< np + nf
    <3>1. PICK k \in 1 .. nf : i = np + k
      <4>1. i - np \in 1 .. nf /\ i = np + (i - np)
        BY <1>2, <1>5, <2>2
      <4> QED
        BY <4>1
    <3> QED
      BY <1>11, <3>1
  <2>3. CASE i > np + nf
    <3>1. nl = 1 /\ i = np + nf + 1
      BY <1>len, <2>3
    <3> QED
      BY <1>12, <3>1
  <2> QED
    BY <1>2, <1>5, <2>1, <2>2, <2>3
<1> QED
  BY <1>7, <1>8, <1>13 DEF q, r, target, pieces

(* The same as numbers: what the fields of piece i are.                    *)
PieceAs(offset, count, i, block, at, from, size) ==
  LET piece == Pieces(offset, count)[i]
      len   == Len(Pieces(offset, count))
      q     == offset \div BlockSize
  IN
  /\ piece.block = block /\ piece.at = at /\ piece.from = from /\ piece.size = size
  /\ block = q + i - 1
  /\ at = IF i = 1 THEN offset % BlockSize ELSE 0
  /\ from = IF i = 1 THEN 0 ELSE BlockSize * (q + i - 1) - offset
  /\ from + size = IF i = len THEN count ELSE BlockSize * (q + i) - offset
  /\ size > 0
  /\ at + size =< BlockSize

(* Where the bytes of piece i are in the file and in the buffer.           *)
PieceWithin(offset, count, i, block, at, from, size) ==
  LET piece == Pieces(offset, count)[i] IN
  /\ piece.block = block /\ piece.at = at /\ piece.from = from /\ piece.size = size
  /\ block * BlockSize + at = offset + from
  /\ from + size =< count
  /\ size > 0

LEMMA PieceNumbers ==
  ASSUME NEW offset \in Nat, NEW count \in Nat, count > 0,
         NEW i \in 1 .. Len(Pieces(offset, count))
  PROVE  \E block, at, from, size \in Nat :
           PieceAs(offset, count, i, block, at, from, size)
<1> DEFINE x == Pieces(offset, count)[i]
<1>1. x \in Piece
  BY PieceShape
<1>2. /\ x.block = offset \div BlockSize + i - 1
      /\ x.at = IF i = 1 THEN offset % BlockSize ELSE 0
      /\ x.from = IF i = 1 THEN 0
                  ELSE BlockSize * (offset \div BlockSize + i - 1) - offset
      /\ x.from + x.size =
           IF i = Len(Pieces(offset, count)) THEN count
           ELSE BlockSize * (offset \div BlockSize + i) - offset
      /\ x.size > 0
      /\ x.at + x.size =< BlockSize
  BY PieceShape
<1>3. PieceAs(offset, count, i, x.block, x.at, x.from, x.size)
  BY <1>2 DEF PieceAs
<1> HIDE DEF x
<1>4. x.block \in Nat /\ x.at \in Nat /\ x.from \in Nat /\ x.size \in Nat
  BY <1>1 DEF Piece
<1> QED
  BY <1>3, <1>4

LEMMA PieceBounds ==
  ASSUME NEW offset \in Nat, NEW count \in Nat, count > 0,
         NEW i \in 1 .. Len(Pieces(offset, count))
  PROVE  /\ \E block, at, from, size \in Nat :
              PieceWithin(offset, count, i, block, at, from, size)
         /\ offset + count =< BlockSize * (offset \div BlockSize + Len(Pieces(offset, count)))
<1> DEFINE q == offset \div BlockSize
           r == offset % BlockSize
           len == Len(Pieces(offset, count))
<1> USE BlockSizeAssumption
<1>1. q \in Nat /\ r \in 0 .. BlockSize - 1 /\ offset = BlockSize * q + r
  BY DivMod
<1>len. len \in Nat \ {0} /\ i \in 1 .. len
  BY PieceShape
<1>2. PICK block \in Nat, at \in Nat, from \in Nat, size \in Nat :
        PieceAs(offset, count, i, block, at, from, size)
  BY PieceNumbers
<1>3. PICK lastBlock \in Nat, lastAt \in Nat, lastFrom \in Nat, lastSize \in Nat :
        PieceAs(offset, count, len, lastBlock, lastAt, lastFrom, lastSize)
  <2>1. len \in 1 .. len
    BY <1>len
  <2> QED
    BY <2>1, PieceNumbers
<1>a. /\ Pieces(offset, count)[i].block = block
      /\ Pieces(offset, count)[i].at = at
      /\ Pieces(offset, count)[i].from = from
      /\ Pieces(offset, count)[i].size = size
  BY <1>2 DEF PieceAs
<1>b. /\ block = q + i - 1
      /\ at = IF i = 1 THEN r ELSE 0
      /\ from = IF i = 1 THEN 0 ELSE BlockSize * (q + i - 1) - offset
      /\ from + size = IF i = len THEN count ELSE BlockSize * (q + i) - offset
      /\ size > 0
  BY <1>2 DEF PieceAs
<1>c. /\ lastAt = IF len = 1 THEN r ELSE 0
      /\ lastFrom = IF len = 1 THEN 0 ELSE BlockSize * (q + len - 1) - offset
      /\ lastFrom + lastSize = count
      /\ lastSize > 0
      /\ lastAt + lastSize =< BlockSize
  BY <1>3 DEF PieceAs
<1> HIDE DEF q, r, len
<1>4. block * BlockSize + at = offset + from
  <2>1. CASE i = 1
    <3>1. block = q /\ at = r /\ from = 0
      BY <1>1, <1>b, <2>1
    <3> QED
      BY <1>1, <3>1
  <2>2. CASE i # 1
    <3>1. from = BlockSize * block - offset /\ at = 0
      BY <1>b, <2>2
    <3> QED
      BY <1>b, <3>1
  <2> QED
    BY <2>1, <2>2
<1>5. PICK m \in Nat : m = q + len - 1
  <2>1. q + len - 1 \in Nat
    BY <1>1, <1>len
  <2> QED
    BY <2>1
<1>6. BlockSize * (m + 1) = BlockSize * m + BlockSize /\ m + 1 = q + len
      /\ BlockSize * m \in Nat
  BY <1>1, <1>5, <1>len
<1>7. offset + count =< BlockSize * (q + len)
  <2>1. CASE len = 1
    <3>1. m = q
      BY <1>1, <1>5, <2>1
    <3>2. count =< BlockSize - r /\ offset = BlockSize * m + r
      BY <1>1, <1>c, <2>1, <3>1
    <3> QED
      BY <1>1, <1>6, <3>2
  <2>2. CASE len # 1
    <3>1. lastFrom = BlockSize * m - offset /\ lastSize =< BlockSize
      BY <1>c, <1>5, <2>2
    <3> QED
      BY <1>c, <1>6, <3>1
  <2> QED
    BY <2>1, <2>2
<1>8. from + size =< count
  <2>1. CASE i = len
    BY <1>b, <2>1
  <2>2. CASE i # len
    <3>1. PICK n \in Nat : n = q + i
      BY <1>1, <1>len
    <3>2. n =< m /\ len # 1
      BY <1>1, <1>5, <1>len, <2>2, <3>1
    <3>3. BlockSize * n =< BlockSize * m /\ BlockSize * n \in Nat
      BY <3>2
    <3>4. from + size = BlockSize * n - offset
      BY <1>b, <2>2, <3>1
    <3>5. lastFrom = BlockSize * m - offset
      BY <1>c, <1>5, <3>2
    <3> QED
      BY <1>c, <1>6, <3>3, <3>4, <3>5
  <2> QED
    BY <2>1, <2>2
<1>9. PieceWithin(offset, count, i, block, at, from, size)
  BY <1>a, <1>b, <1>4, <1>8 DEF PieceWithin
<1> QED
  BY <1>7, <1>9 DEF q, len

(* The piece that moves a byte: that of the block the byte is in.          *)
LEMMA PieceOfByte ==
  ASSUME NEW offset \in Nat, NEW count \in Nat, count > 0,
         NEW k \in 0 .. count - 1
  PROVE  \E i \in 1 .. Len(Pieces(offset, count)) :
           LET piece == Pieces(offset, count)[i] IN
           /\ i = (offset + k) \div BlockSize - offset \div BlockSize + 1
           /\ k \in piece.from .. piece.from + piece.size - 1
<1> DEFINE q == offset \div BlockSize
           r == offset % BlockSize
           len == Len(Pieces(offset, count))
           b == (offset + k) \div BlockSize
           c == (offset + k) % BlockSize
<1> USE BlockSizeAssumption
<1>1. q \in Nat /\ r \in 0 .. BlockSize - 1 /\ offset = BlockSize * q + r
  BY DivMod
<1>2. b \in Nat /\ c \in 0 .. BlockSize - 1 /\ offset + k = BlockSize * b + c
  <2>1. offset + k \in Nat
    OBVIOUS
  <2> QED
    BY <2>1, DivMod
<1>3. len \in Nat \ {0}
  BY PieceShape
<1>4. offset + count =< BlockSize * (q + len)
  <2>1. len \in 1 .. len
    BY <1>3
  <2> QED
    BY <2>1, PieceBounds
<1>5. ASSUME NEW n \in 1 .. len
      PROVE  \E block, at, from, size \in Nat :
               PieceAs(offset, count, n, block, at, from, size)
  BY PieceNumbers
<1> HIDE DEF q, r, len, b, c
<1>6. b >= q
  <2>1. ASSUME b < q
        PROVE  FALSE
    <3>1. BlockSize * (b + 1) =< BlockSize * q /\ BlockSize * (b + 1) = BlockSize * b + BlockSize
      BY <1>1, <1>2, <2>1
    <3> QED
      BY <1>1, <1>2, <3>1
  <2> QED
    BY <1>1, <1>2, <2>1
<1>7. b < q + len
  <2>1. ASSUME b >= q + len
        PROVE  FALSE
    <3>1. BlockSize * (q + len) =< BlockSize * b
      BY <1>1, <1>2, <1>3, <2>1
    <3>2. BlockSize * (q + len) \in Nat /\ BlockSize * b \in Nat
      BY <1>1, <1>2, <1>3
    <3> QED
      BY <1>2, <1>4, <3>1, <3>2
  <2> QED
    BY <1>1, <1>2, <1>3, <2>1
<1>8. PICK i \in 1 .. len : i = b - q + 1
  <2>1. b - q + 1 \in 1 .. len
    BY <1>1, <1>2, <1>3, <1>6, <1>7
  <2> QED
    BY <2>1
<1>pick. PICK block \in Nat, at \in Nat, from \in Nat, size \in Nat :
           PieceAs(offset, count, i, block, at, from, size)
  BY <1>5
<1>9. /\ from = Pieces(offset, count)[i].from
      /\ size = Pieces(offset, count)[i].size
      /\ from = IF i = 1 THEN 0 ELSE BlockSize * (q + i - 1) - offset
      /\ from + size = IF i = len THEN count ELSE BlockSize * (q + i) - offset
  BY <1>pick DEF PieceAs, q, len
<1>10. q + i - 1 = b /\ q + i = b + 1 /\ BlockSize * (b + 1) = BlockSize * b + BlockSize
  BY <1>1, <1>2, <1>8
<1>11. from =< k
  BY <1>1, <1>2, <1>9, <1>10
<1>12. k < from + size
  BY <1>2, <1>9, <1>10
<1>13. k \in Pieces(offset, count)[i].from ..
              Pieces(offset, count)[i].from + Pieces(offset, count)[i].size - 1
  <2>1. k \in from .. from + size - 1
    BY <1>9, <1>11, <1>12
  <2> QED
    BY <1>9, <2>1
<1> QED
  BY <1>8, <1>13 DEF len, b, q

(* A byte of the file is among those of piece i exactly when it is in the  *)
(* block of the piece, between at and at + size - 1.                       *)
Placed(offset, count, i, n, k) ==
  LET piece == Pieces(offset, count)[i]
      p     == n * BlockSize + k
  IN
  /\ piece.block \in Nat /\ piece.at \in Nat /\ piece.from \in Nat /\ piece.size \in Nat
  /\ piece.block = offset \div BlockSize + i - 1
  /\ piece.from + piece.size =< count
  /\ p \in offset + piece.from .. offset + piece.from + piece.size - 1
       <=> n = piece.block /\ k \in piece.at .. piece.at + piece.size - 1
  /\ n = piece.block => p - offset = piece.from + k - piece.at
  /\ n < piece.block => p < offset + piece.from
  /\ n > piece.block => p >= offset + piece.from + piece.size

LEMMA PieceInFile ==
  ASSUME NEW offset \in Nat, NEW count \in Nat, count > 0,
         NEW i \in 1 .. Len(Pieces(offset, count)),
         NEW n \in Nat, NEW k \in 0 .. BlockSize - 1
  PROVE  Placed(offset, count, i, n, k)
<1> USE BlockSizeAssumption
<1>1. PICK block \in Nat, at \in Nat, from \in Nat, size \in Nat :
        PieceWithin(offset, count, i, block, at, from, size)
  BY PieceBounds
<1>2. PICK block2 \in Nat, at2 \in Nat, from2 \in Nat, size2 \in Nat :
        PieceAs(offset, count, i, block2, at2, from2, size2)
  BY PieceNumbers
<1>3. /\ Pieces(offset, count)[i].block = block
      /\ Pieces(offset, count)[i].at = at
      /\ Pieces(offset, count)[i].from = from
      /\ Pieces(offset, count)[i].size = size
      /\ block * BlockSize + at = offset + from
      /\ from + size =< count
  BY <1>1 DEF PieceWithin
<1>4. at + size =< BlockSize /\ block = offset \div BlockSize + i - 1
  BY <1>1, <1>2 DEF PieceWithin, PieceAs
<1>5. PICK a \in Nat : a = block * BlockSize
  BY <1>1
<1>6. PICK b \in Nat : b = n * BlockSize
  BY <1>1
<1>7. n < block => b + BlockSize =< a
  <2>1. SUFFICES ASSUME n < block PROVE b + BlockSize =< a
    OBVIOUS
  <2>2. (n + 1) * BlockSize =< block * BlockSize /\ (n + 1) * BlockSize = n * BlockSize + BlockSize
    BY <1>1, <2>1
  <2> QED
    BY <1>5, <1>6, <2>2
<1>8. block < n => a + BlockSize =< b
  <2>1. SUFFICES ASSUME block < n PROVE a + BlockSize =< b
    OBVIOUS
  <2>2. (block + 1) * BlockSize =< n * BlockSize /\ (block + 1) * BlockSize = block * BlockSize + BlockSize
    BY <1>1, <2>1
  <2> QED
    BY <1>5, <1>6, <2>2
<1>9. a + at = offset + from
  BY <1>3, <1>5
<1>10. n = block => b = a
  BY <1>5, <1>6
<1>11. /\ b + k \in offset + from .. offset + from + size - 1
            <=> n = block /\ k \in at .. at + size - 1
       /\ n = block => (b + k) - offset = from + k - at
       /\ n < block => b + k < offset + from
       /\ n > block => b + k >= offset + from + size
  <2>1. CASE n < block
    BY <1>4, <1>7, <1>9, <2>1
  <2>2. CASE block < n
    BY <1>4, <1>8, <1>9, <2>2
  <2>3. CASE n = block
    BY <1>4, <1>9, <1>10, <2>3
  <2> QED
    BY <2>1, <2>2, <2>3
<1> QED
  BY <1>3, <1>4, <1>6, <1>11 DEF Placed

(***************************************************************************)
(* A transfer of at least one byte moves byte k of the buffer to byte      *)
(* offset + k of the file, for each k below count, and nothing else.       *)
(***************************************************************************)
THEOREM TransferExact ==
  ASSUME NEW offset \in Nat, NEW count \in Nat, count > 0
  PROVE  MovesExactly(offset, count)
<1> DEFINE pieces == Pieces(offset, count)
           len == Len(pieces)
           Of(i) == {<<pieces[i].block * BlockSize + pieces[i].at + k, pieces[i].from + k>> :
                       k \in 0 .. pieces[i].size - 1}
           Moved == {<<offset + k, k>> : k \in 0 .. count - 1}
<1>1. DOMAIN pieces = 1 .. len
  <2>1. pieces \in Seq(Piece)
    BY PieceList
  <2> QED
    BY <2>1, LenProperties
<1>2. ASSUME NEW i \in 1 .. len
      PROVE  \E block, at, from, size \in Nat :
               PieceWithin(offset, count, i, block, at, from, size)
  BY PieceBounds
<1>3. \A k \in 0 .. count - 1 : \E i \in 1 .. len :
        k \in pieces[i].from .. pieces[i].from + pieces[i].size - 1
  BY PieceOfByte
<1>4. Placement(pieces) = UNION {Of(i) : i \in 1 .. len}
  BY <1>1 DEF Placement
<1>within. ASSUME NEW i \in 1 .. len, NEW block \in Nat, NEW at \in Nat, NEW from \in Nat,
                  NEW size \in Nat, PieceWithin(offset, count, i, block, at, from, size)
           PROVE  /\ pieces[i].block = block /\ pieces[i].at = at
                  /\ pieces[i].from = from /\ pieces[i].size = size
                  /\ block * BlockSize + at = offset + from
                  /\ from + size =< count
  BY <1>within DEF PieceWithin
<1> HIDE DEF pieces, len
<1>5. ASSUME NEW i \in 1 .. len, NEW p \in Of(i)
      PROVE  p \in Moved
  <2>1. PICK block \in Nat, at \in Nat, from \in Nat, size \in Nat :
          PieceWithin(offset, count, i, block, at, from, size)
    BY <1>2
  <2>2. /\ pieces[i].block = block /\ pieces[i].at = at
        /\ pieces[i].from = from /\ pieces[i].size = size
        /\ block * BlockSize + at = offset + from /\ from + size =< count
    BY <1>within, <2>1
  <2>3. PICK k \in 0 .. size - 1 : p = <<block * BlockSize + at + k, from + k>>
    BY <1>5, <2>2
  <2>4. PICK a \in Nat : a = block * BlockSize + at /\ a = offset + from
    BY <2>2
  <2>5. PICK m \in 0 .. count - 1 : m = from + k
    <3>1. from + k \in 0 .. count - 1
      <4> HIDE DEF Of
      <4> QED
        BY <2>2, <2>3
    <3> QED
      BY <3>1
  <2>6. a + k = offset + m
    <3>0. k \in Int
      OBVIOUS
    <3>1. a = offset + from /\ m = from + k /\ k \in Int
      BY <2>4, <2>5, <3>0
    <3> QED
      BY <3>1
  <2>7. p = <<offset + m, m>>
    BY <2>3, <2>4, <2>5, <2>6
  <2> QED
    BY <2>7
<1>6. ASSUME NEW k \in 0 .. count - 1
      PROVE  \E i \in 1 .. len : <<offset + k, k>> \in Of(i)
  <2>1. PICK i \in 1 .. len : k \in pieces[i].from .. pieces[i].from + pieces[i].size - 1
    BY <1>3
  <2>2. PICK block \in Nat, at \in Nat, from \in Nat, size \in Nat :
          PieceWithin(offset, count, i, block, at, from, size)
    BY <1>2
  <2>3. /\ pieces[i].block = block /\ pieces[i].at = at
        /\ pieces[i].from = from /\ pieces[i].size = size
        /\ block * BlockSize + at = offset + from
    BY <1>within, <2>2
  <2>4. PICK j \in 0 .. size - 1 : from + j = k
    <3>1. k \in from .. from + size - 1
      BY <2>1, <2>3
    <3>2. k - from \in 0 .. size - 1 /\ from + (k - from) = k
      BY <3>1
    <3> QED
      BY <3>2
  <2>5. PICK a \in Nat : a = block * BlockSize + at /\ a = offset + from
    BY <2>3
  <2>6. a + j = offset + k
    <3>1. a = offset + from /\ from + j = k /\ j \in Int
      BY <2>4, <2>5
    <3> QED
      BY <3>1
  <2>7. <<block * BlockSize + at + j, from + j>> = <<offset + k, k>>
    BY <2>4, <2>5, <2>6
  <2> QED
    BY <2>3, <2>7
<1>7. UNION {Of(i) : i \in 1 .. len} \subseteq Moved
  BY <1>5
<1>8. Moved \subseteq UNION {Of(i) : i \in 1 .. len}
  <2>1. ASSUME NEW p \in Moved
        PROVE  p \in UNION {Of(i) : i \in 1 .. len}
    <3>1. PICK k \in 0 .. count - 1 : p = <<offset + k, k>>
      OBVIOUS
    <3>2. PICK i \in 1 .. len : p \in Of(i)
      BY <1>6, <3>1
    <3> HIDE DEF Of
    <3> QED
      BY <3>2
  <2> QED
    BY <2>1
<1> HIDE DEF Of
<1> QED
  BY <1>4, <1>7, <1>8 DEF MovesExactly, pieces

-----------------------------------------------------------------------------
(***************************************************************************)
(* What the loops over the pieces rely on.                                 *)
(***************************************************************************)
LEMMA PieceCount ==
  ASSUME NEW offset \in Nat, NEW count \in Nat, count > 0
  PROVE  /\ Len(Pieces(offset, count)) \in Nat \ {0}
         /\ Len(Pieces(offset, count)) =
              find_num_target_blocks(offset, count) - offset \div BlockSize
BY PieceShape

(* No piece lies behind the last block of the transfer, and that is the    *)
(* block of the last piece.                                                *)
LEMMA PieceBlocks ==
  ASSUME NEW offset \in Nat, NEW count \in Nat, count > 0,
         NEW i \in 1 .. Len(Pieces(offset, count))
  PROVE  /\ Pieces(offset, count)[i].block \in Nat
         /\ Pieces(offset, count)[i].block =< find_num_target_blocks(offset, count) - 1
         /\ i = Len(Pieces(offset, count)) =>
              /\ Pieces(offset, count)[i].block = find_num_target_blocks(offset, count) - 1
              /\ Pieces(offset, count)[i].from + Pieces(offset, count)[i].size = count
<1> DEFINE q == offset \div BlockSize
           len == Len(Pieces(offset, count))
           target == find_num_target_blocks(offset, count)
<1>1. len \in Nat \ {0} /\ len = target - q
  BY PieceCount
<1>2. q \in Nat
  BY DivMod
<1>3. target \in Nat
  BY TargetBlocksPositive
<1>4. PICK block \in Nat, at \in Nat, from \in Nat, size \in Nat :
        PieceAs(offset, count, i, block, at, from, size)
  BY PieceNumbers
<1>5. /\ Pieces(offset, count)[i].block = block
      /\ Pieces(offset, count)[i].from = from
      /\ Pieces(offset, count)[i].size = size
      /\ block = q + i - 1
      /\ i = len => from + size = count
  BY <1>4 DEF PieceAs
<1>6. i \in 1 .. len
  OBVIOUS
<1> HIDE DEF q, len, target
<1>7. block =< target - 1 /\ (i = len => block = target - 1)
  BY <1>1, <1>2, <1>3, <1>5, <1>6
<1> QED
  BY <1>5, <1>7 DEF len, target

(* The pieces fill the buffer one after the other.                         *)
LEMMA PieceFollows ==
  ASSUME NEW offset \in Nat, NEW count \in Nat, count > 0,
         NEW i \in 1 .. Len(Pieces(offset, count))
  PROVE  /\ i = 1 => Pieces(offset, count)[i].from = 0
         /\ i # 1 =>
              /\ i - 1 \in 1 .. Len(Pieces(offset, count))
              /\ Pieces(offset, count)[i].from =
                   Pieces(offset, count)[i - 1].from + Pieces(offset, count)[i - 1].size
<1> DEFINE q == offset \div BlockSize
           len == Len(Pieces(offset, count))
<1>1. len \in Nat \ {0} /\ i \in 1 .. len
  BY PieceCount
<1>2. PICK block \in Nat, at \in Nat, from \in Nat, size \in Nat :
        PieceAs(offset, count, i, block, at, from, size)
  BY PieceNumbers
<1>3. /\ Pieces(offset, count)[i].from = from
      /\ from = IF i = 1 THEN 0 ELSE BlockSize * (q + i - 1) - offset
  BY <1>2 DEF PieceAs
<1>4. ASSUME i # 1
      PROVE  /\ i - 1 \in 1 .. len
             /\ Pieces(offset, count)[i].from =
                  Pieces(offset, count)[i - 1].from + Pieces(offset, count)[i - 1].size
  <2>1. PICK j \in 1 .. len : j = i - 1
    <3>1. i - 1 \in 1 .. len
      BY <1>1, <1>4
    <3> QED
      BY <3>1
  <2>2. PICK b2 \in Nat, at2 \in Nat, from2 \in Nat, size2 \in Nat :
          PieceAs(offset, count, j, b2, at2, from2, size2)
    BY PieceNumbers
  <2>3. /\ Pieces(offset, count)[j].from = from2
        /\ Pieces(offset, count)[j].size = size2
        /\ from2 + size2 = IF j = len THEN count ELSE BlockSize * (q + j) - offset
    BY <2>2 DEF PieceAs
  <2>4. j # len
    <3> HIDE DEF len
    <3> QED
      BY <1>1, <2>1
  <2>5. q + j = q + i - 1
    BY <1>1, <2>1, DivMod
  <2> QED
    BY <1>3, <1>4, <2>1, <2>3, <2>4, <2>5
<1> QED
  BY <1>3, <1>4

(* A count of 0 is read or written without a piece, unless the offset lies *)
(* inside a block; then the remainder is negative.                         *)
LEMMA NothingToMove ==
  ASSUME NEW offset \in Nat
  PROVE  Remainder(offset, 0) < 0 \/ (Pieces(offset, 0) = << >> /\ Remainder(offset, 0) = 0)
<1> DEFINE q == offset \div BlockSize
           r == offset % BlockSize
<1> USE BlockSizeAssumption
<1>1. q \in Nat /\ r \in 0 .. BlockSize - 1
  BY DivMod
<1>2. offset + 0 = offset
  OBVIOUS
<1>3. find_num_target_blocks(offset, 0) = q + (IF r # 0 THEN 1 ELSE 0)
  BY <1>2 DEF find_num_target_blocks
<1>4. PartialAmount(offset, 0) = 0
  <2>1. r + 0 < BlockSize
    BY <1>1
  <2> QED
    BY <2>1 DEF PartialAmount, StartsInside
<1>5. 0 % BlockSize = 0 /\ 0 - 0 = 0
  OBVIOUS
<1>6. num_full_blocks(offset, 0) = IF r # 0 THEN 1 ELSE 0
  <2>1. num_full_blocks(offset, 0) = find_num_target_blocks(offset, 0) - q - 0 - 0
    BY <1>4, <1>5 DEF num_full_blocks
  <2> HIDE DEF q, r
  <2> QED
    BY <1>1, <1>3, <2>1
<1>7. Remainder(offset, 0) = 0 - 0 - BlockSize * num_full_blocks(offset, 0)
  BY <1>4 DEF Remainder
<1>8. CASE r # 0
  BY <1>6, <1>7, <1>8
<1>9. CASE r = 0
  <2>1. num_full_blocks(offset, 0) = 0 /\ Remainder(offset, 0) = 0
    BY <1>6, <1>7, <1>9
  <2>2. PartialPiece(offset, 0) = << >> /\ LastPiece(offset, 0) = << >>
    BY <1>9, <2>1 DEF PartialPiece, StartsInside, LastPiece
  <2>3. FullPieces(offset, 0) = << >>
    BY <2>1 DEF FullPieces
  <2>4. << >> \o << >> = << >>
    OBVIOUS
  <2> QED
    BY <2>1, <2>2, <2>3, <2>4 DEF Pieces
<1> QED
  BY <1>8, <1>9
=============================================================================
