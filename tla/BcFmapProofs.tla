----------------------------- MODULE BcFmapProofs -----------------------------
(***************************************************************************)
(* Proofs about BcFmap for every block size, word, record length and       *)
(* number of crashes.                                                      *)
(***************************************************************************)
EXTENDS BcFmap, TLAPS

-----------------------------------------------------------------------------
(* Type correctness.                                                       *)

(* The fields that bc_map_open and bc_map_alloc leave.                     *)
Opening == [magic : BOOLEAN, fsize : 0 .. Word - 1, of : 0 .. MaxUse,
            msize : 0 .. Word - 1]
Allocation == [magic : BOOLEAN, fsize : 0 .. Word - 1, of : 0 .. MaxUse,
               mapped : BOOLEAN, msize : 0 .. Word - 1, err : BOOLEAN]

LEMMA OpenedTyped ==
  ASSUME TypeOK
  PROVE  Opened \in Opening /\ Opened.of \in {of, 0}
BY FmapAssumption DEF TypeOK, Opened, Opening

(* Sizes are taken modulo the word.                                        *)
LEMMA WordSized ==
  /\ \A n \in Nat : n % Word \in 0 .. Word - 1
  /\ \A st \in Nat, len \in Nat : Enlarged(st, len) \in 0 .. Word - 1
  /\ \A st \in Nat : Blocks(st) % Word \in 0 .. Word - 1
<1>1. Word \in Nat \ {0} /\ BlockSize \in Nat \ {0}  BY FmapAssumption
<1>2. \A n \in Nat : n % Word \in 0 .. Word - 1  BY <1>1
<1>3. \A n \in Nat : n \div BlockSize \in Nat /\ n \div 10 \in Nat  BY <1>1
<1>4. \A n \in Nat : n * BlockSize \in Nat  BY <1>1
<1>5. ASSUME NEW st \in Nat, NEW len \in Nat
      PROVE  Enlarged(st, len) \in 0 .. Word - 1
  <2> DEFINE asked == (st + len) % Word
             more == (asked + (asked \div 10)) % Word
  <2>1. asked \in Nat  BY <1>2
  <2>2. asked + (asked \div 10) \in Nat  BY <2>1, <1>3
  <2>3. more \in Nat  BY <2>2, <1>2
  <2>4. (more \div BlockSize) + 1 \in Nat  BY <2>3, <1>3
  <2> HIDE DEF more
  <2>5. (((more \div BlockSize) + 1) * BlockSize) % Word \in 0 .. Word - 1
    BY <2>4, <1>4, <1>2
  <2> QED  BY <2>5 DEF Enlarged, more
<1>6. ASSUME NEW st \in Nat
      PROVE  Blocks(st) % Word \in 0 .. Word - 1
  BY <1>2, <1>3, <1>4 DEF Blocks
<1> QED  BY <1>2, <1>5, <1>6

(* The four ways bc_map_alloc ends: refused at the size limit, mapped with *)
(* room already, mapped now, and failed; the last two may have enlarged    *)
(* the file.                                                               *)
NeedsMore(len) == Opened.fsize < BlockSize \/ Full(Opened.of, len, Opened.fsize)
NewSize(len) ==
  IF NeedsMore(len) THEN Enlarged(Opened.fsize, len) ELSE Blocks(Opened.fsize) % Word
AllocRefused(after) ==
  /\ after.err
  /\ after.fsize = Opened.fsize /\ after.mapped = mapped /\ after.msize = Opened.msize
AllocHad(after, len) ==
  /\ ~after.err
  /\ mapped /\ ~Full(Opened.of, len, Opened.fsize)
  /\ after.fsize = Opened.fsize /\ after.mapped = mapped /\ after.msize = Opened.msize
AllocMapped(after, len) ==
  /\ ~after.err
  /\ after.fsize = (IF NeedsMore(len) THEN NewSize(len) ELSE Opened.fsize)
  /\ after.mapped = TRUE /\ after.msize = NewSize(len)
AllocFailed(after, len) ==
  /\ after.err
  /\ \/ after.fsize = Opened.fsize
     \/ after.fsize = IF NeedsMore(len) THEN NewSize(len) ELSE Opened.fsize
  /\ after.mapped = FALSE /\ after.msize = IF mapped THEN 0 ELSE Opened.msize

LEMMA AllocCases ==
  ASSUME TypeOK, NEW len, NEW after \in Alloc(len)
  PROVE  /\ after = [magic |-> Opened.magic, fsize |-> after.fsize, of |-> Opened.of,
                     mapped |-> after.mapped, msize |-> after.msize, err |-> after.err]
         /\ after.err \in BOOLEAN
         /\ \/ AllocRefused(after) \/ AllocHad(after, len)
            \/ AllocMapped(after, len) \/ AllocFailed(after, len)
<1> DEFINE o == Opened
           st == o.fsize
           big == NewSize(len)
           opened == [magic |-> o.magic, fsize |-> st, of |-> o.of,
                      mapped |-> mapped, msize |-> o.msize, err |-> FALSE]
           failed == [magic |-> o.magic, fsize |-> st, of |-> o.of, mapped |-> FALSE,
                      msize |-> IF mapped THEN 0 ELSE o.msize, err |-> TRUE]
           made == [magic |-> o.magic, fsize |-> IF NeedsMore(len) THEN big ELSE st,
                    of |-> o.of, mapped |-> TRUE, msize |-> big, err |-> FALSE]
           torn == [magic |-> o.magic, fsize |-> IF NeedsMore(len) THEN big ELSE st,
                    of |-> o.of, mapped |-> FALSE,
                    msize |-> IF mapped THEN 0 ELSE o.msize, err |-> TRUE]
           refused == [magic |-> o.magic, fsize |-> st, of |-> o.of,
                       mapped |-> mapped, msize |-> o.msize, err |-> TRUE]
<1>1. \/ after = refused
      \/ after = opened /\ mapped /\ ~Full(o.of, len, st)
      \/ after = made
      \/ after = failed
      \/ after = torn
  BY DEF Alloc, NewSize, NeedsMore
<1>2. CASE after = refused  BY <1>2 DEF AllocRefused
<1>3. CASE after = opened /\ mapped /\ ~Full(o.of, len, st)  BY <1>3 DEF AllocHad
<1>4. CASE after = made  BY <1>4 DEF AllocMapped
<1>5. CASE after = failed  BY <1>5 DEF AllocFailed
<1>6. CASE after = torn  BY <1>6 DEF AllocFailed
<1> QED  BY <1>1, <1>2, <1>3, <1>4, <1>5, <1>6

LEMMA AllocTyped ==
  ASSUME TypeOK, NEW len \in Nat, NEW after \in Alloc(len)
  PROVE  /\ after \in Allocation
         /\ after.of = Opened.of
         /\ after.magic = Opened.magic
<1>1. Opened \in Opening  BY OpenedTyped
<1>2. Opened.fsize \in Nat /\ Opened.fsize \in 0 .. Word - 1
  BY <1>1, FmapAssumption DEF Opening
<1>3. NewSize(len) \in 0 .. Word - 1
  BY <1>2, WordSized DEF NewSize
<1>4. 0 \in 0 .. Word - 1  BY FmapAssumption
<1>5. mapped \in BOOLEAN  BY DEF TypeOK
<1>6. after.fsize \in 0 .. Word - 1 /\ after.msize \in 0 .. Word - 1
  BY <1>1, <1>3, <1>4, AllocCases
     DEF Opening, AllocRefused, AllocHad, AllocMapped, AllocFailed
<1>7. after.mapped \in BOOLEAN /\ after.err \in BOOLEAN
  BY <1>5, AllocCases DEF AllocRefused, AllocHad, AllocMapped, AllocFailed
<1> QED  BY <1>1, <1>6, <1>7, AllocCases DEF Opening, Allocation

(* The types, and that a file without a header is empty and not open.      *)
FmapTypeInv == TypeOK /\ (fd => magic) /\ (~magic => of = 0)

LEMMA OpenedHeader ==
  ASSUME FmapTypeInv
  PROVE  Opened.magic = TRUE /\ Opened.of = of
BY DEF FmapTypeInv, Opened

LEMMA BecomesTyped ==
  ASSUME FmapTypeInv, NEW len \in Nat, NEW after \in Alloc(len), Becomes(after),
         of' \in 0 .. MaxUse, copied' \in [end : Nat, room : Nat]
  PROVE  FmapTypeInv'
<1>1. after \in Allocation /\ after.magic = TRUE
  BY AllocTyped, OpenedHeader DEF FmapTypeInv
<1> QED  BY <1>1 DEF FmapTypeInv, TypeOK, Becomes, Allocation

LEMMA NoCopyTyped == NoCopy \in [end : Nat, room : Nat]
BY DEF NoCopy

(* A write that stays within MaxUse.                                       *)
LEMMA WriteTyped ==
  ASSUME FmapTypeInv, NEW len \in Nat, NEW o \in Nat, o + len <= MaxUse,
         bc_map_write(o, len)
  PROVE  FmapTypeInv'
<1>1. PICK after \in Alloc(len) :
        /\ Becomes(after)
        /\ \/ after.err /\ of' = after.of /\ copied' = NoCopy
           \/ /\ ~after.err
              /\ of' = MaxOf(after.of, o + len)
              /\ copied' = [end |-> HdrSize + o + len, room |-> after.msize]
  BY DEF bc_map_write
<1>2. after \in Allocation  BY AllocTyped DEF FmapTypeInv
<1>3. after.of \in 0 .. MaxUse /\ after.msize \in Nat
  BY <1>2, FmapAssumption DEF Allocation
<1>4. of' \in 0 .. MaxUse
  BY <1>1, <1>3, FmapAssumption DEF MaxOf
<1>5. copied' \in [end : Nat, room : Nat]
  BY <1>1, <1>3, FmapAssumption, NoCopyTyped
<1> QED  BY <1>1, <1>4, <1>5, BecomesTyped

LEMMA FmapTypeInit == Init => FmapTypeInv
<1> SUFFICES ASSUME Init PROVE FmapTypeInv
  OBVIOUS
<1>1. magic = FALSE /\ fd = FALSE /\ mapped = FALSE  BY DEF Init
<1>2. magic \in BOOLEAN /\ fd \in BOOLEAN /\ mapped \in BOOLEAN  BY <1>1
<1>3. /\ fsize \in 0 .. Word - 1 /\ msize \in 0 .. Word - 1
      /\ of \in 0 .. MaxUse /\ crashes \in 0 .. MaxCrash
  BY FmapAssumption DEF Init
<1>4. copied \in [end : Nat, room : Nat]  BY NoCopyTyped DEF Init
<1>5. of = 0  BY DEF Init
<1> QED  BY <1>1, <1>2, <1>3, <1>4, <1>5 DEF FmapTypeInv, TypeOK

LEMMA FmapTypeNext == FmapTypeInv /\ [Next]_vars => FmapTypeInv'
<1> SUFFICES ASSUME FmapTypeInv, [Next]_vars PROVE FmapTypeInv'
  OBVIOUS
<1> USE FmapAssumption
<1>0. of \in 0 .. MaxUse  BY DEF FmapTypeInv, TypeOK
<1>1. ASSUME NEW len \in Lengths \cup {0}, bc_map_alloc(len)
      PROVE  FmapTypeInv'
  <2>1. PICK after \in Alloc(len) :
          Becomes(after) /\ of' = after.of /\ copied' = NoCopy
    BY <1>1 DEF bc_map_alloc
  <2>2. len \in Nat /\ after \in Allocation  BY AllocTyped DEF FmapTypeInv
  <2> QED  BY <2>1, <2>2, NoCopyTyped, BecomesTyped DEF Allocation
<1>2. ASSUME NEW len \in Lengths, bc_map_append(len)
      PROVE  FmapTypeInv'
  <2>1. Opened.of = of  BY OpenedHeader
  <2> QED  BY <1>2, <1>0, <2>1, WriteTyped DEF bc_map_append
<1>3. ASSUME NEW len \in Lengths, NEW o \in 0 .. MaxUse, Rewrite(o, len)
      PROVE  FmapTypeInv'
  <2>1. o + len <= MaxUse  BY <1>3, <1>0 DEF Rewrite
  <2> QED  BY <1>3, <2>1, WriteTyped DEF Rewrite
<1>4. ASSUME NEW len \in 0 .. MaxUse, bc_map_trunc(len)
      PROVE  FmapTypeInv'
  <2>1. PICK after \in Alloc(0) :
          /\ Becomes(after)
          /\ of' = IF after.err THEN after.of ELSE len
          /\ copied' = NoCopy
    BY <1>4 DEF bc_map_trunc
  <2>2. after \in Allocation  BY AllocTyped DEF FmapTypeInv
  <2> QED  BY <2>1, <2>2, NoCopyTyped, BecomesTyped DEF Allocation
<1>5. CASE bc_map_close
  <2>1. fd' = FALSE /\ mapped' = FALSE  BY <1>5 DEF bc_map_close
  <2>2. fd' \in BOOLEAN /\ mapped' \in BOOLEAN  BY <2>1
  <2>3. msize' \in 0 .. Word - 1
    BY <1>5 DEF bc_map_close, FmapTypeInv, TypeOK
  <2> QED
    BY <1>5, <2>1, <2>2, <2>3, NoCopyTyped DEF bc_map_close, FmapTypeInv, TypeOK
<1>6. CASE Crash
  <2>1. fd' = FALSE /\ mapped' = FALSE  BY <1>6 DEF Crash
  <2>2. fd' \in BOOLEAN /\ mapped' \in BOOLEAN  BY <2>1
  <2>3. /\ fsize' \in 0 .. Word - 1 /\ msize' \in 0 .. Word - 1
        /\ crashes' \in 0 .. MaxCrash
    BY <1>6 DEF Crash, FmapTypeInv, TypeOK
  <2> QED  BY <1>6, <2>1, <2>2, <2>3, NoCopyTyped DEF Crash, FmapTypeInv, TypeOK
<1>7. CASE UNCHANGED vars
  BY <1>7 DEF vars, FmapTypeInv, TypeOK
<1> QED  BY <1>1, <1>2, <1>3, <1>4, <1>5, <1>6, <1>7 DEF Next

(* The sizes, the header and the mapping of a file map keep their types,   *)
(* and what is mapped is open, whatever wraps and whichever call fails.    *)
THEOREM FmapTypeCorrect == Spec => []TypeOK
<1>1. FmapTypeInv => TypeOK  BY DEF FmapTypeInv
<1> QED  BY <1>1, FmapTypeInit, FmapTypeNext, PTL DEF Spec

-----------------------------------------------------------------------------
(* Bounds.  A file is a whole number of blocks, so rounding down loses     *)
(* nothing; it has room for its header and what is written, and a spare    *)
(* byte; and what is mapped is all of it.                                  *)

WholeBlocks(n) == \E k \in Nat : n = k * BlockSize
SizeInv ==
  /\ WholeBlocks(fsize)
  /\ magic => fsize >= BlockSize /\ HdrSize + of < fsize
  /\ mapped => msize = fsize
  /\ CopyInBounds
FmapInv == FmapTypeInv /\ SizeInv

(* Without wrapping, a file is enlarged by more than is asked for.         *)
LEMMA EnlargedFits ==
  ASSUME Roomy, NEW len \in Lengths \cup {0}, NEW st \in Nat,
         st <= HdrSize + MaxUse + len
  PROVE  /\ WholeBlocks(Enlarged(st, len))
         /\ Enlarged(st, len) > st + len
<1> USE FmapAssumption
<1> DEFINE asked == st + len
           more == asked + (asked \div 10)
           most == HdrSize + MaxUse + len + len
           blocks == (more \div BlockSize) + 1
<1>1. len \in Nat /\ asked \in Nat /\ most \in Nat /\ asked <= most  OBVIOUS
<1>2. asked \div 10 <= most \div 10 /\ asked \div 10 \in Nat /\ most \div 10 \in Nat
  BY <1>1
<1>3. most + (most \div 10) + BlockSize < Word  BY DEF Roomy
<1>4. more \in Nat /\ more + BlockSize < Word /\ asked <= more  BY <1>1, <1>2, <1>3
<1>5. asked < Word  BY <1>1, <1>4
<1>6. asked % Word = asked  BY <1>1, <1>5
<1>7. more < Word  BY <1>4
<1>8. more % Word = more  BY <1>4, <1>7
<1> HIDE DEF more
<1>9. more \div BlockSize \in Nat /\ (more \div BlockSize) * BlockSize <= more
  BY <1>4
<1>10. blocks \in Nat /\ blocks * BlockSize = (more \div BlockSize) * BlockSize + BlockSize
  BY <1>9
<1>11. blocks * BlockSize > more  BY <1>4
<1>12. blocks * BlockSize \in Nat /\ blocks * BlockSize < Word
  <2>1. (more \div BlockSize) * BlockSize \in Nat  BY <1>9
  <2> QED  BY <1>4, <1>9, <1>10, <2>1
<1>13. (blocks * BlockSize) % Word = blocks * BlockSize  BY <1>12
<1>14. Enlarged(st, len) = blocks * BlockSize
  BY <1>6, <1>8, <1>13 DEF Enlarged, more
<1>15. WholeBlocks(Enlarged(st, len))  BY <1>10, <1>14 DEF WholeBlocks
<1>16. blocks * BlockSize > st + len  BY <1>1, <1>4, <1>11, <1>12
<1> QED  BY <1>14, <1>15, <1>16

LEMMA WholeBlocksKept ==
  ASSUME NEW st \in 0 .. Word - 1, WholeBlocks(st)
  PROVE  Blocks(st) % Word = st
<1> USE FmapAssumption
<1>1. PICK k \in Nat : st = k * BlockSize  BY DEF WholeBlocks
<1>2. st \div BlockSize = k  BY <1>1
<1>3. Blocks(st) = st  BY <1>1, <1>2 DEF Blocks
<1> QED  BY <1>3

(* What bc_map_alloc leaves: a file that is not shorter, mapped completely *)
(* if at all, and on success with room for len more bytes.                 *)
LEMMA AllocFits ==
  ASSUME Roomy, FmapInv, NEW len \in Lengths \cup {0}, NEW after \in Alloc(len)
  PROVE  /\ WholeBlocks(after.fsize)
         /\ after.fsize \in Nat /\ after.fsize >= BlockSize
         /\ HdrSize + of < after.fsize
         /\ magic => after.fsize >= fsize
         /\ after.mapped => after.msize = after.fsize
         /\ ~after.err => after.mapped /\ HdrSize + of + len < after.fsize
<1> USE FmapAssumption DEF FmapInv
<1>1. len \in Nat /\ TypeOK  BY DEF FmapTypeInv
<1>2. Opened \in Opening  BY <1>1, OpenedTyped
<1>3. Opened.of = of /\ of \in 0 .. MaxUse  BY <1>1, OpenedHeader DEF TypeOK
<1> DEFINE st == Opened.fsize
<1>4. st \in 0 .. Word - 1 /\ st \in Nat  BY <1>2 DEF Opening
<1>5. /\ WholeBlocks(st) /\ st >= BlockSize /\ HdrSize + of < st
      /\ magic => st = fsize
  <2>1. CASE magic
    BY <2>1 DEF Opened, SizeInv
  <2>2. CASE ~magic
    <3>1. ~fd /\ of = 0  BY <2>2 DEF FmapTypeInv
    <3>2. st = BlockSize  BY <2>2, <3>1 DEF Opened
    <3>3. 1 \in Nat /\ BlockSize = 1 * BlockSize  OBVIOUS
    <3> QED  BY <2>2, <3>1, <3>2, <3>3 DEF WholeBlocks
  <2> QED  BY <2>1, <2>2
<1>6. mapped => Opened.msize = st
  BY DEF Opened, SizeInv, FmapTypeInv, TypeOK
<1> HIDE DEF st
<1>7. NeedsMore(len) => HdrSize + of + len >= st
  BY <1>3, <1>4, <1>5 DEF NeedsMore, Full, st
<1>8. ~NeedsMore(len) => HdrSize + of + len < st
  BY <1>1, <1>3, <1>4 DEF NeedsMore, Full, st
<1>9. CASE NeedsMore(len)
  <2>1. st <= HdrSize + MaxUse + len  BY <1>1, <1>3, <1>4, <1>7, <1>9
  <2>2. WholeBlocks(NewSize(len)) /\ NewSize(len) > st + len
    BY <1>4, <1>9, <2>1, EnlargedFits DEF NewSize, st
  <2>3. NewSize(len) \in Nat
    <3>1. NewSize(len) = Enlarged(st, len)  BY <1>9 DEF NewSize, st
    <3>2. Enlarged(st, len) \in 0 .. Word - 1  BY <1>1, <1>4, WordSized
    <3> QED  BY <3>1, <3>2
  <2>4. after.fsize \in {st, NewSize(len)} /\ (after.mapped => after.msize = after.fsize)
    BY <1>1, <1>6, <1>9, AllocCases
       DEF AllocRefused, AllocHad, AllocMapped, AllocFailed, st
  <2>5. ~after.err => after.mapped /\ after.fsize = NewSize(len)
    BY <1>1, <1>3, <1>4, <1>7, <1>9, AllocCases
       DEF AllocRefused, AllocHad, AllocMapped, AllocFailed, Full, st
  <2>6. after.fsize \in Nat /\ after.fsize >= st /\ WholeBlocks(after.fsize)
    BY <1>1, <1>4, <1>5, <2>2, <2>3, <2>4
  <2>7. ~after.err => HdrSize + of + len < after.fsize
    BY <1>1, <1>3, <1>4, <1>5, <2>2, <2>3, <2>5
  <2> QED  BY <1>3, <1>4, <1>5, <2>4, <2>5, <2>6, <2>7
<1>10. CASE ~NeedsMore(len)
  <2>1. NewSize(len) = st  BY <1>4, <1>5, <1>10, WholeBlocksKept DEF NewSize, st
  <2>2. /\ after.fsize = st /\ (after.mapped => after.msize = after.fsize)
        /\ ~after.err => after.mapped
    BY <1>1, <1>6, <1>10, <2>1, AllocCases
       DEF AllocRefused, AllocHad, AllocMapped, AllocFailed, st
  <2> QED  BY <1>3, <1>4, <1>5, <1>8, <1>10, <2>2
<1> QED  BY <1>9, <1>10

(* A step that allocates and then writes at most len bytes after what is   *)
(* there, copying within the mapping or not at all.                        *)
LEMMA BecomesFits ==
  ASSUME Roomy, FmapInv, NEW len \in Lengths \cup {0}, NEW after \in Alloc(len),
         Becomes(after), of' \in Nat,
         after.err => of' <= of,
         ~after.err => of' <= of + len,
         copied'.end <= copied'.room
  PROVE  SizeInv' /\ (magic => fsize' >= fsize)
<1> USE FmapAssumption
<1>1. /\ WholeBlocks(after.fsize)
      /\ after.fsize \in Nat /\ after.fsize >= BlockSize
      /\ HdrSize + of < after.fsize
      /\ magic => after.fsize >= fsize
      /\ after.mapped => after.msize = after.fsize
      /\ ~after.err => HdrSize + of + len < after.fsize
  BY AllocFits
<1>2. fsize' = after.fsize /\ mapped' = after.mapped /\ msize' = after.msize
  BY DEF Becomes
<1>3. of \in Nat /\ len \in Nat  BY DEF FmapInv, FmapTypeInv, TypeOK
<1>4. HdrSize + of' < after.fsize
  <2>1. CASE after.err  BY <1>1, <1>3, <2>1
  <2>2. CASE ~after.err  BY <1>1, <1>3, <2>2
  <2> QED  BY <2>1, <2>2
<1>5. WholeBlocks(fsize)'  BY <1>1, <1>2 DEF WholeBlocks
<1> QED  BY <1>1, <1>2, <1>4, <1>5 DEF SizeInv, CopyInBounds

LEMMA WriteFits ==
  ASSUME Roomy, FmapInv, NEW len \in Lengths, NEW o \in Nat, o <= of,
         bc_map_write(o, len)
  PROVE  SizeInv' /\ (magic => fsize' >= fsize)
<1> USE FmapAssumption
<1>1. PICK after \in Alloc(len) :
        /\ Becomes(after)
        /\ \/ after.err /\ of' = after.of /\ copied' = NoCopy
           \/ /\ ~after.err
              /\ of' = MaxOf(after.of, o + len)
              /\ copied' = [end |-> HdrSize + o + len, room |-> after.msize]
  BY DEF bc_map_write
<1>2. len \in Nat /\ TypeOK /\ of \in Nat  BY DEF FmapInv, FmapTypeInv, TypeOK
<1>3. after.of = of  BY <1>2, AllocTyped, OpenedHeader DEF FmapInv
<1>4. /\ ~after.err => after.msize = after.fsize /\ HdrSize + of + len < after.fsize
      /\ after.fsize \in Nat
  BY AllocFits
<1>5. /\ of' \in Nat
      /\ after.err => of' <= of
      /\ ~after.err => of' <= of + len
  BY <1>1, <1>2, <1>3 DEF MaxOf
<1>6. copied'.end <= copied'.room
  <2>1. CASE after.err  BY <1>1, <2>1 DEF NoCopy
  <2>2. CASE ~after.err
    <3>1. copied' = [end |-> HdrSize + o + len, room |-> after.msize]  BY <1>1, <2>2
    <3> QED  BY <1>2, <1>4, <2>2, <3>1
  <2> QED  BY <2>1, <2>2
<1> QED  BY <1>1, <1>5, <1>6, BecomesFits

LEMMA SizeInit == Init => SizeInv
<1> SUFFICES ASSUME Init PROVE SizeInv
  OBVIOUS
<1>1. fsize = 0 * BlockSize  BY FmapAssumption DEF Init
<1> QED  BY <1>1 DEF Init, SizeInv, WholeBlocks, CopyInBounds, NoCopy

LEMMA SizeNext ==
  ASSUME Roomy, FmapInv, [Next]_vars
  PROVE  SizeInv' /\ (magic => fsize' >= fsize)
<1> USE FmapAssumption
<1>0. of \in 0 .. MaxUse /\ TypeOK /\ fsize \in Nat /\ 0 <= 0
  BY DEF FmapInv, FmapTypeInv, TypeOK
<1>1. ASSUME NEW len \in Lengths \cup {0}, bc_map_alloc(len)
      PROVE  SizeInv' /\ (magic => fsize' >= fsize)
  <2>1. PICK after \in Alloc(len) :
          Becomes(after) /\ of' = after.of /\ copied' = NoCopy
    BY <1>1 DEF bc_map_alloc
  <2>2. len \in Nat  OBVIOUS
  <2>3. of' = of  BY <1>0, <2>1, <2>2, AllocTyped, OpenedHeader DEF FmapInv
  <2>4. copied'.end <= copied'.room  BY <2>1 DEF NoCopy
  <2> QED  BY <1>0, <2>1, <2>2, <2>3, <2>4, BecomesFits
<1>2. ASSUME NEW len \in Lengths, bc_map_append(len)
      PROVE  SizeInv' /\ (magic => fsize' >= fsize)
  <2>1. Opened.of = of  BY OpenedHeader DEF FmapInv
  <2> QED  BY <1>2, <1>0, <2>1, WriteFits DEF bc_map_append
<1>3. ASSUME NEW len \in Lengths, NEW o \in 0 .. MaxUse, Rewrite(o, len)
      PROVE  SizeInv' /\ (magic => fsize' >= fsize)
  <2>1. o <= of  BY <1>3, <1>0 DEF Rewrite
  <2> QED  BY <1>3, <2>1, WriteFits DEF Rewrite
<1>4. ASSUME NEW len \in 0 .. MaxUse, bc_map_trunc(len)
      PROVE  SizeInv' /\ (magic => fsize' >= fsize)
  <2>1. PICK after \in Alloc(0) :
          /\ Becomes(after)
          /\ of' = IF after.err THEN after.of ELSE len
          /\ copied' = NoCopy
    BY <1>4 DEF bc_map_trunc
  <2>2. after.of = of  BY <1>0, AllocTyped, OpenedHeader DEF FmapInv
  <2>3. len < of  BY <1>4 DEF bc_map_trunc
  <2>4. copied'.end <= copied'.room  BY <2>1 DEF NoCopy
  <2>5. of' \in Nat /\ of' <= of  BY <1>0, <2>1, <2>2, <2>3
  <2> QED  BY <1>0, <2>1, <2>4, <2>5, BecomesFits
<1>5. CASE bc_map_close
  <2>1. UNCHANGED <<magic, fsize, of>> /\ mapped' = FALSE /\ copied' = NoCopy
    BY <1>5 DEF bc_map_close
  <2> QED
    BY <1>0, <2>1 DEF FmapInv, SizeInv, WholeBlocks, CopyInBounds, NoCopy
<1>6. CASE Crash
  <2>1. UNCHANGED <<magic, of>> /\ mapped' = FALSE /\ copied' = NoCopy
    BY <1>6 DEF Crash
  <2>2. WholeBlocks(0) /\ WholeBlocks(BlockSize)
    <3>1. 0 = 0 * BlockSize /\ BlockSize = 1 * BlockSize  OBVIOUS
    <3> QED  BY <3>1 DEF WholeBlocks
  <2>3. WholeBlocks(fsize') /\ (magic => fsize' = fsize)
    BY <1>6, <2>2 DEF Crash, FmapInv, SizeInv
  <2>4. WholeBlocks(fsize)'  BY <2>3 DEF WholeBlocks
  <2> QED
    BY <1>0, <2>1, <2>3, <2>4 DEF FmapInv, SizeInv, CopyInBounds, NoCopy
<1>7. CASE UNCHANGED vars
  BY <1>0, <1>7 DEF vars, FmapInv, SizeInv, WholeBlocks, CopyInBounds
<1> QED  BY <1>1, <1>2, <1>3, <1>4, <1>5, <1>6, <1>7 DEF Next

LEMMA FmapInvariant == Roomy => (Spec => []FmapInv)
<1> SUFFICES ASSUME Roomy PROVE Spec => []FmapInv
  OBVIOUS
<1>1. Init => FmapInv  BY FmapTypeInit, SizeInit DEF FmapInv
<1>2. FmapInv /\ [Next]_vars => FmapInv'
  BY FmapTypeNext, SizeNext DEF FmapInv
<1> QED  BY <1>1, <1>2, PTL DEF Spec

(* Below the size limit no copy of bc_map_write runs past the end of the   *)
(* mapping, whatever was written, cut, closed or lost before.              *)
THEOREM CopiesInBounds == Roomy => (Spec => []CopyInBounds)
<1>1. FmapInv => CopyInBounds  BY DEF FmapInv, SizeInv
<1> QED  BY <1>1, FmapInvariant, PTL

(* Below the size limit the mapping never reaches beyond the file, so that *)
(* touching it raises no SIGBUS.                                           *)
THEOREM MappingWithinFile == Roomy => (Spec => []MappingInFile)
<1>1. FmapInv => MappingInFile
  BY FmapAssumption DEF FmapInv, FmapTypeInv, TypeOK, SizeInv, MappingInFile
<1> QED  BY <1>1, FmapInvariant, PTL

(* Below the size limit no call, failed call or crash shortens a file that *)
(* holds data.                                                             *)
THEOREM FileNeverShrinks == Roomy => (Spec => NeverShrinks)
<1> SUFFICES ASSUME Roomy PROVE Spec => NeverShrinks
  OBVIOUS
<1>1. FmapInv /\ [Next]_vars => [magic => fsize' >= fsize]_vars
  BY SizeNext
<1> QED  BY <1>1, FmapInvariant, PTL DEF Spec, NeverShrinks
=============================================================================
