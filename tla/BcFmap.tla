-------------------------------- MODULE BcFmap --------------------------------
(***************************************************************************)
(* One file map of the record database (bc_fmap.c): a file that starts     *)
(* with a header, whose field "of" counts the bytes written after it, and  *)
(* a shared memory mapping of the file.  The file grows in blocks, by the  *)
(* length asked for plus a tenth.  Sizes are computed in unsigned words    *)
(* and wrap at Word (2^32 in the code).                                    *)
(***************************************************************************)
EXTENDS Integers

CONSTANTS
  HdrSize,    \* sizeof(bc_hdr_t)
  BlockSize,  \* BC_MAP_BLOCK_SIZE
  MaxMapSize, \* MAX_BC_MAP_SIZE
  Word,       \* 2^32
  Lengths,    \* lengths of the records written
  MaxUse,     \* bytes the database ever puts into the map
  IOErrors,   \* whether ftruncate and mmap may fail
  MaxCrash    \* times the process is killed

ASSUME FmapAssumption ==
  /\ HdrSize \in Nat \ {0} /\ BlockSize \in Nat /\ HdrSize < BlockSize
  /\ MaxMapSize \in Nat /\ Word \in Nat /\ MaxMapSize < Word
  /\ BlockSize < Word
  /\ Lengths \subseteq Nat \ {0}
  /\ MaxUse \in Nat /\ MaxCrash \in Nat /\ IOErrors \in BOOLEAN

VARIABLES
  magic,   \* the file has a header
  fsize,   \* st_size
  of,      \* hdr->of, in the file whether it is mapped or not
  fd,      \* the file is open (map->fd # 0)
  mapped,  \* map->hdr # NULL
  msize,   \* map->size
  copied,  \* the last copy into the mapping: its end, and the mapping's size
  crashes

vars == <<magic, fsize, of, fd, mapped, msize, copied, crashes>>

NoCopy == [end |-> 0, room |-> 0]

-----------------------------------------------------------------------------
(* bc_map_open: nothing if it is open; a file without a header is cut to   *)
(* one block and gets a header.  The result is what open leaves.           *)
Opened ==
  IF fd \/ magic
  THEN [magic |-> magic, fsize |-> fsize, of |-> of,
        msize |-> IF fd THEN msize ELSE fsize]
  ELSE [magic |-> TRUE, fsize |-> BlockSize, of |-> 0, msize |-> BlockSize]

Blocks_Up(n) == ((n \div BlockSize) + 1) * BlockSize
Blocks(n) == (n \div BlockSize) * BlockSize

(* The size bc_map_alloc enlarges a file of st bytes to, in unsigned words.*)
Enlarged_NoBase(st, len) == Blocks(len) + BlockSize
Enlarged(st, len) ==
  LET asked == (st + len) % Word
      more == (asked + (asked \div 10)) % Word
  IN (((more \div BlockSize) + 1) * BlockSize) % Word

(* The file stays so far below the word that no enlargement wraps: with    *)
(* blocks of 64 kilobytes, up to about 3.9 gigabytes of records.           *)
Roomy ==
  \A len \in Lengths \cup {0} :
    LET most == HdrSize + MaxUse + len + len
    IN most + (most \div 10) + BlockSize < Word

(* The map is full when len more bytes would not leave it a spare byte.    *)
Full_NoHeader(o, len, st) == o + len >= st
Full(o, len, st) == HdrSize + o + len >= st

(* bc_map_alloc: open, and map the file with room for len more bytes.      *)
(* Either it succeeds, with after.err = FALSE, or an enlargement or the    *)
(* mapping fails and leaves the file open and not mapped.                  *)
Alloc(len) ==
  LET o == Opened
      st == o.fsize
      big == IF st < BlockSize \/ Full(o.of, len, st)
             THEN Enlarged(st, len) ELSE Blocks(st) % Word
      opened == [magic |-> o.magic, fsize |-> st, of |-> o.of,
                 mapped |-> mapped, msize |-> o.msize, err |-> FALSE]
      failed == [opened EXCEPT !.mapped = FALSE, !.err = TRUE,
                               !.msize = IF mapped THEN 0 ELSE @]
  IN IF Blocks(st) % Word >= MaxMapSize
     THEN {[opened EXCEPT !.err = TRUE]}
     ELSE IF mapped /\ ~Full(o.of, len, st) THEN {opened}
     ELSE {[opened EXCEPT !.mapped = TRUE, !.msize = big,
              !.fsize = IF st < BlockSize \/ Full(o.of, len, st)
                        THEN big ELSE @]}
          \cup IF ~IOErrors THEN {}
               ELSE {failed,                                     \* ftruncate
                     [failed EXCEPT !.fsize =                    \* mmap
                        IF st < BlockSize \/ Full(o.of, len, st)
                        THEN big ELSE @]}

Becomes(after) ==
  /\ magic' = after.magic
  /\ fsize' = after.fsize
  /\ fd' = TRUE
  /\ mapped' = after.mapped
  /\ msize' = after.msize
  /\ UNCHANGED crashes

-----------------------------------------------------------------------------
(* bc_alloc, bc_idx_open, bc_arch_open and bc_table_open                   *)
bc_map_alloc(len) ==
  \E after \in Alloc(len) :
    /\ Becomes(after)
    /\ of' = after.of
    /\ copied' = NoCopy

MaxOf(a, b) == IF a > b THEN a ELSE b

(* bc_map_write at offset o: room for len bytes after hdr->of, the copy,   *)
(* then hdr->of.                                                           *)
bc_map_write(o, len) ==
  \E after \in Alloc(len) :
    /\ Becomes(after)
    /\ \/ /\ after.err
          /\ of' = after.of
          /\ copied' = NoCopy
       \/ /\ ~after.err
          /\ of' = MaxOf(after.of, o + len)
          /\ copied' = [end |-> HdrSize + o + len, room |-> after.msize]

bc_map_append(len) == of + len <= MaxUse /\ bc_map_write(Opened.of, len)

(* A record or an index entry that exists is written over.                 *)
Rewrite(o, len) == magic /\ o + len <= of /\ bc_map_write(o, len)

(* bc_map_trunc is bc_map_alloc(0) and a lower hdr->of.                    *)
bc_map_trunc(len) ==
  /\ len < of
  /\ \E after \in Alloc(0) :
       /\ Becomes(after)
       /\ of' = IF after.err THEN after.of ELSE len
       /\ copied' = NoCopy

(* bc_map_close, by bc_close or bc_idle: unmap and close the file.         *)
bc_map_close_StillMapped ==
  /\ fd
  /\ fd' = FALSE
  /\ UNCHANGED <<magic, fsize, of, mapped, msize, copied, crashes>>
bc_map_close ==
  /\ fd
  /\ fd' = FALSE
  /\ mapped' = FALSE
  /\ msize' = IF mapped THEN 0 ELSE msize
  /\ copied' = NoCopy
  /\ UNCHANGED <<magic, fsize, of, crashes>>

(* The process is killed; the file may have been created without a header. *)
Crash ==
  /\ crashes < MaxCrash
  /\ crashes' = crashes + 1
  /\ fd' = FALSE
  /\ mapped' = FALSE
  /\ msize' = 0
  /\ fsize' \in IF magic THEN {fsize} ELSE {0, BlockSize}
  /\ copied' = NoCopy
  /\ UNCHANGED <<magic, of>>

Init ==
  /\ magic = FALSE
  /\ fsize = 0
  /\ of = 0
  /\ fd = FALSE
  /\ mapped = FALSE
  /\ msize = 0
  /\ copied = NoCopy
  /\ crashes = 0

Next ==
  \/ \E len \in Lengths \cup {0} : bc_map_alloc(len)
  \/ \E len \in Lengths : bc_map_append(len)
  \/ \E len \in Lengths, o \in 0 .. MaxUse : Rewrite(o, len)
  \/ \E len \in 0 .. MaxUse : bc_map_trunc(len)
  \/ bc_map_close
  \/ Crash

Spec == Init /\ [][Next]_vars

-----------------------------------------------------------------------------
TypeOK ==
  /\ magic \in BOOLEAN /\ fd \in BOOLEAN /\ mapped \in BOOLEAN
  /\ fsize \in 0 .. Word - 1 /\ msize \in 0 .. Word - 1
  /\ of \in 0 .. MaxUse
  /\ copied \in [end : Nat, room : Nat]
  /\ crashes \in 0 .. MaxCrash
  /\ mapped => fd

(* A copy into the mapping ends within it.                                 *)
CopyInBounds == copied.end <= copied.room

(* The mapping lies within the file: touching it never raises SIGBUS.      *)
MappingInFile == mapped => msize <= fsize

(* Enlarging, mapping, closing and crashing never shorten a file that      *)
(* holds data.                                                             *)
NeverShrinks == [][magic => fsize' >= fsize]_vars
=============================================================================
