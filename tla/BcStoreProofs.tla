---------------------------- MODULE BcStoreProofs ----------------------------
(***************************************************************************)
(* Proofs about BcStore for every number of threads, hashes, buckets,      *)
(* positions and records.                                                  *)
(***************************************************************************)
EXTENDS BcStore, WellFoundedInduction, TLAPS

-----------------------------------------------------------------------------
(* Facts about the helpers.                                                *)

(* The larger of two numbers, as the counts and offsets of the files use   *)
(* it (Max of FiniteSetsExt is a CHOOSE).                                  *)
LEMMA MaxPair ==
  ASSUME NEW a \in Int, NEW b \in Int
  PROVE  /\ Max({a, b}) \in Int
         /\ Max({a, b}) >= a
         /\ Max({a, b}) >= b
         /\ Max({a, b}) \in {a, b}
<1>1. \E x \in {a, b} : \A y \in {a, b} : x >= y
  <2>1. CASE a >= b  BY <2>1
  <2>2. CASE b >= a  BY <2>2
  <2> QED  BY <2>1, <2>2
<1>2. Max({a, b}) \in {a, b} /\ \A y \in {a, b} : Max({a, b}) >= y
  BY <1>1 DEF Max
<1> QED  BY <1>2

LEMMA MaxWithin ==
  ASSUME NEW n \in Int, NEW a \in 0 .. n, NEW b \in 0 .. n
  PROVE  Max({a, b}) \in 0 .. n
<1>1. a \in Int /\ b \in Int  OBVIOUS
<1>2. Max({a, b}) \in {a, b}  BY <1>1, MaxPair
<1> QED  BY <1>2

(* A scan of the index that finds something has a highest position.        *)
LEMMA MaxInRange ==
  ASSUME NEW n \in Int, NEW S, S \subseteq 0 .. n, S # {}
  PROVE  /\ Max(S) \in S
         /\ \A y \in S : Max(S) >= y
<1> DEFINE T == {n - x : x \in S}
<1>a. \A x \in S : x \in Int /\ 0 <= x /\ x <= n  OBVIOUS
<1>b. \A x \in S : n - x \in Nat  BY <1>a
<1>1. T \subseteq Nat /\ T # {}  BY <1>b
<1>2. IsWellFoundedOn(OpToRel(<, Nat), Nat)
  BY NatLessThanWellFounded
<1>3. PICK m \in T : \A y \in T : ~ (<<y, m>> \in OpToRel(<, Nat))
  BY <1>1, <1>2, WFMin
<1>4. m \in Nat /\ \A y \in T : m <= y
  <2> SUFFICES ASSUME NEW y \in T PROVE m \in Nat /\ m <= y
    BY <1>1
  <2>1. m \in Nat /\ y \in Nat  BY <1>1
  <2>2. ~ (<<y, m>> \in {ss \in Nat \X Nat : ss[1] < ss[2]})
    BY <1>3 DEF OpToRel
  <2> QED  BY <2>1, <2>2
<1>5. PICK x \in S : m = n - x  OBVIOUS
<1>6. \A y \in S : x >= y
  <2> SUFFICES ASSUME NEW y \in S PROVE x >= y  OBVIOUS
  <2>1. n - y \in T  OBVIOUS
  <2>2. n - x <= n - y  BY <2>1, <1>4, <1>5
  <2>3. x \in Int /\ y \in Int  BY <1>a
  <2> QED  BY <2>2, <2>3
<1> QED  BY <1>5, <1>6 DEF Max

(* bc_journal of a position is one of the journals.                        *)
LEMMA JournalOf ==
  ASSUME NEW p \in 0 .. MaxPos
  PROVE  bc_journal(p) \in Journal
<1>1. MaxPos \in Nat /\ BlocksPerJournal \in Nat \ {0}
  BY BoundAssumption
<1>2. p \div BlocksPerJournal \in Nat /\ MaxPos \div BlocksPerJournal \in Nat
  BY <1>1
<1>3. p \div BlocksPerJournal <= MaxPos \div BlocksPerJournal
  BY <1>1
<1> QED  BY <1>2, <1>3 DEF Journal, bc_journal

-----------------------------------------------------------------------------
(* Type correctness.  The files stay well typed because the locals of each *)
(* call are: an entry about to be stored is an entry, the position it goes *)
(* to is in the index file, and what was copied into a journal fits in it. *)

WriteLabel == {"idx_set", "table_reset", "append", "append_of",
               "rw_idx", "undo_idx", "undo_tab"}
ClearLabel == {"clear_next", "clear_set", "clear_idx"}
ArchLabel == {"aw_data", "aw_of", "aw_arch"}

CallTyped(t) ==
  /\ pc[t] \in WriteLabel \cup ClearLabel \cup ArchLabel => loc[t].rec \in IdxRec
  /\ pc[t] \in WriteLabel => loc[t].hash \in Hash
  /\ pc[t] \in (WriteLabel \ {"idx_set"}) \cup ClearLabel
       => loc[t].pos \in Pos /\ loc[t].pos < cnt
  /\ pc[t] \in {"append_of", "aw_of"} => Fits(loc[t].rec)
  /\ pc[t] \in WriteLabel \cup ArchLabel => loc[t].rec.size = Size[loc[t].rec.crc]

TypeInv == TypeOK /\ \A t \in Thread : CallTyped(t)

(* A new entry for a position up to the count is an entry.                 *)
LEMMA NewRecTyped ==
  ASSUME TypeOK, NEW p \in 0 .. MaxPos, NEW h \in Hash, NEW d \in Data
  PROVE  /\ NewRec(p, h, d) \in IdxRec
         /\ NewRec(p, h, d).size = Size[NewRec(p, h, d).crc]
<1>1. of[bc_journal(p)] \in Nat
  BY JournalOf, BoundAssumption DEF TypeOK
<1> QED  BY <1>1, JournalOf, SizeAssumption DEF NewRec, IdxRec

(* Adding to the archive.                                                  *)
LEMMA ArchSetTyped ==
  ASSUME arch \in Seq(IdxRec), NEW n \in Nat, NEW rec \in IdxRec
  PROVE  ArchSet(n, rec) \in Seq(IdxRec)
<1>1. CASE n < Len(arch)
  <2>1. n + 1 \in 1 .. Len(arch)  BY <1>1
  <2>2. [arch EXCEPT ![n + 1] = rec] \in Seq(IdxRec)  BY <2>1
  <2> QED  BY <1>1, <2>2 DEF ArchSet
<1>2. CASE ~(n < Len(arch))
  BY <1>2 DEF ArchSet
<1> QED  BY <1>1, <1>2

LEMMA TypeInit == Init => TypeInv
<1> SUFFICES ASSUME Init PROVE TypeInv
  OBVIOUS
<1>1. TypeOK
  BY BoundAssumption
  DEF Init, TypeOK, Pos, NoLoc, Loc, Label, Result, BC_TABLE_SEARCH_POS
<1>2. \A t \in Thread : CallTyped(t)
  BY DEF Init, CallTyped, WriteLabel, ClearLabel, ArchLabel
<1> QED  BY <1>1, <1>2 DEF TypeInv

(* The two halves of TypeOK: what is in the files, and the threads.        *)
FilesOK ==
  /\ idx \in [Pos -> IdxRec \cup {Blank}]
  /\ cnt \in 0 .. MaxPos
  /\ tab \in [Bucket -> Pos \cup {BC_TABLE_NULL_POS}]
  /\ arch \in Seq(IdxRec)
  /\ cell \in [Journal -> [0 .. MaxOf - 1 -> (Data \X Nat) \cup {Blank}]]
  /\ of \in [Journal -> 0 .. MaxOf]
  /\ acked \subseteq Pos

ThreadsOK ==
  /\ lock \in Thread \cup {NoThread}
  /\ pc \in [Thread -> Label]
  /\ loc \in [Thread -> Loc]
  /\ ret \in [Thread -> Result]
  /\ crashes \in 0 .. MaxCrash

LEMMA TypeHalves == TypeOK <=> FilesOK /\ ThreadsOK
  BY DEF TypeOK, FilesOK, ThreadsOK

(* A step of thread t leaves the calls of the other threads as they are.   *)
LEMMA OtherCalls ==
  ASSUME TypeInv, NEW t \in Thread, NEW u \in Thread \ {t},
         pc'[u] = pc[u], loc'[u] = loc[u], cnt' \in Int, cnt' >= cnt
  PROVE  CallTyped(u)'
<1>1. CallTyped(u)  BY DEF TypeInv
<1>2. cnt \in Int /\ MaxPos \in Int  BY BoundAssumption DEF TypeInv, TypeOK
<1> QED  BY <1>1, <1>2 DEF CallTyped, Fits, Pos

(* The ways a step moves its thread on: to another label of the same call, *)
(* into a call, and out of it.                                             *)
LEMMA GotoTyped ==
  ASSUME TypeInv, NEW t \in Thread, NEW l \in Label,
         pc' = [pc EXCEPT ![t] = l], UNCHANGED <<lock, loc, ret, crashes>>,
         cnt' \in Int, cnt' >= cnt
  PROVE  /\ ThreadsOK'
         /\ pc'[t] = l /\ loc'[t] = loc[t]
         /\ CallTyped(t)' => \A u \in Thread : CallTyped(u)'
<1>1. ThreadsOK  BY TypeHalves DEF TypeInv
<1>2. ThreadsOK' /\ pc'[t] = l /\ loc'[t] = loc[t]  BY <1>1 DEF ThreadsOK
<1>3. \A u \in Thread \ {t} : CallTyped(u)'
  BY <1>1, OtherCalls DEF ThreadsOK
<1> QED  BY <1>2, <1>3

LEMMA EnterTyped ==
  ASSUME TypeInv, NEW t \in Thread, NEW l \in Label, NEW r \in Loc,
         pc' = [pc EXCEPT ![t] = l], loc' = [loc EXCEPT ![t] = r],
         lock' \in Thread \cup {NoThread}, ret' \in [Thread -> Result],
         UNCHANGED crashes, cnt' \in Int, cnt' >= cnt
  PROVE  /\ ThreadsOK'
         /\ pc'[t] = l /\ loc'[t] = r
         /\ CallTyped(t)' => \A u \in Thread : CallTyped(u)'
<1>1. ThreadsOK  BY TypeHalves DEF TypeInv
<1>2. ThreadsOK' /\ pc'[t] = l /\ loc'[t] = r
  BY <1>1 DEF ThreadsOK, Result
<1>3. \A u \in Thread \ {t} : CallTyped(u)'
  BY <1>1, OtherCalls DEF ThreadsOK
<1> QED  BY <1>2, <1>3

LEMMA ReturnTyped ==
  ASSUME TypeInv, NEW t \in Thread, NEW e \in Result, Return(t, e),
         UNCHANGED crashes, cnt' \in Int, cnt' >= cnt
  PROVE  /\ ThreadsOK'
         /\ \A u \in Thread : CallTyped(u)'
<1>1. ThreadsOK  BY TypeHalves DEF TypeInv
<1>2. NoLoc \in Loc  BY DEF NoLoc, Loc
<1>3. ThreadsOK' /\ pc'[t] = "idle"
  BY <1>1, <1>2 DEF ThreadsOK, Return, Goto, Unlocked, Label
<1>4. \A u \in Thread \ {t} : CallTyped(u)'
  BY <1>1, OtherCalls DEF ThreadsOK, Return, Goto
<1>5. CallTyped(t)'
  BY <1>3 DEF CallTyped, WriteLabel, ClearLabel, ArchLabel
<1> QED  BY <1>3, <1>4, <1>5

(* bc_table_reset stores a special value of the hash table.                *)
LEMMA TableResetTyped ==
  ASSUME TypeInv, NEW h \in Hash
  PROVE  TableReset(h) \in [Bucket -> Pos \cup {BC_TABLE_NULL_POS}]
BY HashAssumption, BoundAssumption
DEF TypeInv, TypeOK, TableReset, BC_TABLE_SEARCH_POS, Pos

(* The copy of a record leaves a journal a journal.                        *)
LEMMA StoredTyped ==
  ASSUME TypeInv, NEW rec \in IdxRec
  PROVE  [cell EXCEPT ![rec.jrnl] = Stored(@, rec.of, rec.crc)]
           \in [Journal -> [0 .. MaxOf - 1 -> (Data \X Nat) \cup {Blank}]]
<1>1. rec.jrnl \in Journal /\ rec.of \in Nat /\ rec.crc \in Data
  BY DEF IdxRec
<1>2. \A k \in 0 .. MaxOf - 1 : rec.of <= k => k - rec.of \in Nat
  BY <1>1, BoundAssumption
<1>3. \A k \in 0 .. MaxOf - 1 : rec.of <= k => <<rec.crc, k - rec.of>> \in Data \X Nat
  BY <1>1, <1>2
<1>4. cell[rec.jrnl] \in [0 .. MaxOf - 1 -> (Data \X Nat) \cup {Blank}]
  BY <1>1 DEF TypeInv, TypeOK
<1>5. Stored(cell[rec.jrnl], rec.of, rec.crc)
        \in [0 .. MaxOf - 1 -> (Data \X Nat) \cup {Blank}]
  BY <1>3, <1>4, Zenon DEF Stored
<1> QED  BY <1>1, <1>5 DEF TypeInv, TypeOK

(* Each store of a call keeps the types.                                   *)
LEMMA TypeStep ==
  ASSUME TypeInv, NEW t \in Thread, Step(t)
  PROVE  TypeInv'
<1> DEFINE rec == loc[t].rec
           pos == loc[t].pos
<1>a. FilesOK /\ ThreadsOK  BY TypeHalves DEF TypeInv
<1>b. /\ CallTyped(t) /\ loc[t] \in Loc /\ pc[t] \in Label
      /\ pc \in [Thread -> Label]
  BY <1>a DEF TypeInv, ThreadsOK
<1>c. cnt \in 0 .. MaxPos /\ cnt \in Int /\ MaxPos \in Nat \ {0} /\ MaxOf \in Nat
  BY <1>a, BoundAssumption DEF FilesOK
<1>d. SUFFICES FilesOK' /\ ThreadsOK' /\ \A u \in Thread : CallTyped(u)'
  BY TypeHalves DEF TypeInv, TypeOK, FilesOK, ThreadsOK
<1>e. ASSUME NEW e \in Result, Return(t, e), UNCHANGED <<cnt, crashes>>, FilesOK'
      PROVE  FilesOK' /\ ThreadsOK' /\ \A u \in Thread : CallTyped(u)'
  BY <1>c, <1>e, ReturnTyped
<1>f. ASSUME NEW l \in Label, Goto(t, l), UNCHANGED <<lock, loc, ret, crashes>>,
             cnt' \in Int, cnt' >= cnt
      PROVE  /\ ThreadsOK' /\ pc'[t] = l /\ loc'[t] = loc[t]
             /\ CallTyped(t)' => \A u \in Thread : CallTyped(u)'
  BY <1>f, GotoTyped DEF Goto
<1>g. ASSUME NEW l \in Label, NEW r \in Loc, Goto(t, l), loc' = [loc EXCEPT ![t] = r],
             lock' \in Thread \cup {NoThread}, ret' \in [Thread -> Result],
             UNCHANGED <<cnt, crashes>>
      PROVE  /\ ThreadsOK' /\ pc'[t] = l /\ loc'[t] = r
             /\ CallTyped(t)' => \A u \in Thread : CallTyped(u)'
  <2>1. cnt' \in Int /\ cnt' >= cnt  BY <1>g, <1>c
  <2>2. pc' = [pc EXCEPT ![t] = l] /\ crashes' = crashes  BY <1>g DEF Goto
  <2> QED  BY <1>g, <2>1, <2>2, EnterTyped
<1> USE DEF WriteLabel, ClearLabel, ArchLabel
<1>1. CASE bc_idx_set(t)
  <2>1. CASE pc'[t] = "idle"
    <3>1. Return(t, "ERR_IO") /\ UNCHANGED <<files, crashes, acked>>
      BY <1>1, <2>1, <1>b DEF bc_idx_set, Goto
    <3> QED  BY <3>1, <1>a, <1>e DEF FilesOK, files, Result
  <2>2. CASE pc'[t] # "idle"
    <3>1. /\ pc[t] = "idx_set" /\ pos \in Pos
          /\ idx' = [idx EXCEPT ![pos] = rec]
          /\ cnt' = Max({cnt, pos + 1})
          /\ acked' = acked \ {pos}
          /\ Goto(t, "table_reset")
          /\ UNCHANGED <<tab, arch, cell, of, lock, loc, ret, crashes>>
      BY <1>1, <2>2, <1>b DEF bc_idx_set, Return, Goto
    <3>2. pos \in 0 .. MaxPos - 1 /\ rec \in IdxRec /\ loc[t].hash \in Hash
      BY <3>1, <1>b DEF Pos, CallTyped
    <3>3. cnt' \in 0 .. MaxPos /\ cnt' >= cnt /\ cnt' > pos
      <4>1. pos + 1 \in 1 .. MaxPos /\ pos + 1 \in Int  BY <3>2, <1>c
      <4>2. Max({cnt, pos + 1}) \in {cnt, pos + 1}
            /\ Max({cnt, pos + 1}) >= cnt /\ Max({cnt, pos + 1}) >= pos + 1
        BY <4>1, <1>c, MaxPair
      <4> QED  BY <3>1, <3>2, <4>1, <4>2, <1>c
    <3>4. FilesOK'
      BY <3>1, <3>2, <3>3, <1>a DEF FilesOK
    <3>5. /\ ThreadsOK' /\ pc'[t] = "table_reset" /\ loc'[t] = loc[t]
          /\ CallTyped(t)' => \A u \in Thread : CallTyped(u)'
      BY <3>1, <3>3, <1>f DEF Label
    <3>6. CallTyped(t)'
      BY <3>1, <3>2, <3>3, <3>5, <1>b DEF CallTyped, Pos
    <3> QED  BY <3>4, <3>5, <3>6
  <2> QED  BY <2>1, <2>2
<1>2. CASE bc_idx_set_table(t)
  <2>1. loc[t].hash \in Hash  BY <1>2, <1>b DEF bc_idx_set_table, CallTyped
  <2>2. FilesOK'
    BY <1>2, <2>1, <1>a, TableResetTyped DEF FilesOK, bc_idx_set_table
  <2>3. /\ ThreadsOK' /\ pc'[t] = "append" /\ loc'[t] = loc[t]
        /\ CallTyped(t)' => \A u \in Thread : CallTyped(u)'
    BY <1>2, <1>c, <1>f DEF Label, bc_idx_set_table
  <2>4. CallTyped(t)'
    BY <1>2, <1>b, <2>3 DEF CallTyped, bc_idx_set_table
  <2> QED  BY <2>2, <2>3, <2>4
<1>3. CASE bc_write_data(t)
  <2>1. rec \in IdxRec  BY <1>3, <1>b DEF bc_write_data, CallTyped
  <2>2. FilesOK'
    BY <1>3, <2>1, <1>a, StoredTyped DEF FilesOK, bc_write_data
  <2>3. PICK l \in {"append_of", "undo_idx"} :
          Goto(t, l) /\ (l = "append_of" => Fits(rec))
    BY <1>3 DEF bc_write_data
  <2>4. /\ ThreadsOK' /\ pc'[t] = l /\ loc'[t] = loc[t]
        /\ CallTyped(t)' => \A u \in Thread : CallTyped(u)'
    BY <1>3, <2>3, <1>c, <1>f DEF Label, bc_write_data
  <2>5. CallTyped(t)'
    BY <1>3, <1>b, <2>3, <2>4 DEF CallTyped, Fits, bc_write_data
  <2> QED  BY <2>2, <2>4, <2>5
<1>4. CASE bc_write_of(t)
  <2>1. rec \in IdxRec /\ pos \in Pos /\ Fits(rec)
    BY <1>4, <1>b DEF bc_write_of, CallTyped
  <2>2. of[rec.jrnl] \in 0 .. MaxOf /\ rec.of + rec.size \in 0 .. MaxOf
    <3>1. rec.jrnl \in Journal /\ rec.of \in Nat /\ rec.size \in Nat
      BY <2>1 DEF IdxRec
    <3>2. of[rec.jrnl] \in 0 .. MaxOf  BY <3>1, <1>a DEF FilesOK
    <3> QED  BY <2>1, <3>1, <3>2, <1>c DEF Fits
  <2>3. Max({of[rec.jrnl], rec.of + rec.size}) \in 0 .. MaxOf
    <3>1. MaxOf \in Int  BY BoundAssumption
    <3> HIDE DEF rec
    <3> QED  BY <2>2, <3>1, MaxWithin
  <2>4. FilesOK'
    BY <1>4, <2>1, <2>3, <1>a DEF FilesOK, bc_write_of
  <2> QED  BY <1>4, <2>4, <1>e DEF bc_write_of, Result
<1>5. CASE bc_rewrite(t)
  <2>1. rec \in IdxRec /\ pos \in Pos
    BY <1>5, <1>b DEF bc_rewrite, CallTyped
  <2>2. FilesOK'
    BY <1>5, <2>1, <1>a DEF FilesOK, bc_rewrite
  <2>3. CASE pc'[t] = "idle"
    <3>1. Return(t, "ERR_IO") /\ UNCHANGED <<cnt, crashes>>
      BY <1>5, <2>3, <1>b DEF bc_rewrite, Goto
    <3> QED  BY <3>1, <2>2, <1>e DEF Result
  <2>4. CASE pc'[t] # "idle"
    <3>1. Goto(t, "append") /\ UNCHANGED <<cnt, lock, loc, ret, crashes>>
      BY <1>5, <2>4, <1>b DEF bc_rewrite, Return, Goto
    <3>2. /\ ThreadsOK' /\ pc'[t] = "append" /\ loc'[t] = loc[t]
          /\ CallTyped(t)' => \A u \in Thread : CallTyped(u)'
      BY <3>1, <1>c, <1>f DEF Label
    <3>3. CallTyped(t)'
      BY <1>5, <1>b, <3>1, <3>2 DEF CallTyped, bc_rewrite
    <3> QED  BY <2>2, <3>2, <3>3
  <2> QED  BY <2>3, <2>4
<1>6. CASE bc_write_undo(t)
  <2>1. FilesOK'
    BY <1>6, <1>a, <1>b DEF FilesOK, CallTyped, bc_write_undo
  <2>2. /\ ThreadsOK' /\ pc'[t] = "undo_tab" /\ loc'[t] = loc[t]
        /\ CallTyped(t)' => \A u \in Thread : CallTyped(u)'
    BY <1>6, <1>c, <1>f DEF Label, bc_write_undo
  <2>3. CallTyped(t)'
    BY <1>6, <1>b, <2>2 DEF CallTyped, bc_write_undo
  <2> QED  BY <2>1, <2>2, <2>3
<1>7. CASE bc_write_undo_table(t)
  <2>1. loc[t].hash \in Hash  BY <1>7, <1>b DEF bc_write_undo_table, CallTyped
  <2>2. FilesOK'
    BY <1>7, <2>1, <1>a, TableResetTyped DEF FilesOK, bc_write_undo_table
  <2> QED  BY <1>7, <2>2, <1>e DEF bc_write_undo_table, Result
<1>8. CASE bc_arch_next(t)
  <2>1. FilesOK'  BY <1>8, <1>a DEF FilesOK, files, bc_arch_next
  <2>2. Len(arch) \in Nat  BY <1>a DEF FilesOK
  <2>3. PICK r \in Loc : /\ r = [loc[t] EXCEPT !.npos = Len(arch)]
                         /\ loc' = [loc EXCEPT ![t] = r]
    BY <1>8, <1>a, <1>b, <2>2 DEF bc_arch_next, Loc
  <2>4. /\ ThreadsOK' /\ pc'[t] = "clear_set" /\ loc'[t] = r
        /\ CallTyped(t)' => \A u \in Thread : CallTyped(u)'
    <3>1. Goto(t, "clear_set") /\ UNCHANGED <<cnt, lock, ret, crashes>>
      BY <1>8 DEF bc_arch_next, files
    <3>2. "clear_set" \in Label  BY DEF Label
    <3>3. lock' \in Thread \cup {NoThread} /\ ret' \in [Thread -> Result]
      BY <3>1, <1>a DEF ThreadsOK
    <3> QED  BY <2>3, <3>1, <3>2, <3>3, <1>g
  <2>5. r.rec = rec /\ r.pos = pos  BY <2>3, <1>b DEF Loc
  <2>6. CallTyped(t)'
    BY <1>8, <1>b, <1>c, <2>4, <2>5 DEF CallTyped, bc_arch_next, files
  <2> QED  BY <2>1, <2>4, <2>6
<1>9. CASE bc_arch_set(t)
  <2>1. rec \in IdxRec /\ pos \in Pos /\ rec.hash \in Hash
    BY <1>9, <1>b DEF bc_arch_set, CallTyped, IdxRec
  <2>2. FilesOK'
    <3>1. arch' \in Seq(IdxRec)
      <4>1. arch \in Seq(IdxRec) /\ loc[t].npos \in Nat
        BY <1>a, <1>b DEF FilesOK, Loc
      <4>2. ArchSet(loc[t].npos, rec) \in Seq(IdxRec)
        BY <4>1, <2>1, ArchSetTyped
      <4> QED  BY <1>9, <4>1, <4>2 DEF bc_arch_set
    <3>2. tab' \in [Bucket -> Pos \cup {BC_TABLE_NULL_POS}]
      BY <1>9, <2>1, <1>a, TableResetTyped DEF FilesOK, bc_arch_set, ClearFails
    <3> QED  BY <1>9, <3>1, <3>2, <1>a DEF FilesOK, bc_arch_set
  <2>3. CASE pc'[t] = "idle"
    <3>1. \E e \in Result : Return(t, e) /\ UNCHANGED <<cnt, crashes>>
      BY <1>9, <2>3, <1>b DEF bc_arch_set, ClearFails, Goto, Result
    <3> QED  BY <3>1, <2>2, <1>e
  <2>4. CASE pc'[t] # "idle"
    <3>1. PICK l \in {"clear_idx", "purge_next"} :
            Goto(t, l) /\ UNCHANGED <<cnt, lock, loc, ret, crashes>>
      BY <1>9, <2>4, <1>b DEF bc_arch_set, ClearFails, Return, Goto
    <3>2. /\ ThreadsOK' /\ pc'[t] = l /\ loc'[t] = loc[t]
          /\ CallTyped(t)' => \A u \in Thread : CallTyped(u)'
      BY <3>1, <1>c, <1>f DEF Label
    <3>3. CallTyped(t)'
      BY <1>9, <1>b, <3>1, <3>2 DEF CallTyped, bc_arch_set
    <3> QED  BY <2>2, <3>2, <3>3
  <2> QED  BY <2>3, <2>4
<1>10. CASE bc_clear_idx(t)
  <2>1. rec \in IdxRec /\ pos \in Pos /\ rec.hash \in Hash
    BY <1>10, <1>b DEF bc_clear_idx, CallTyped, IdxRec
  <2>2. FilesOK'
    <3>1. tab' \in [Bucket -> Pos \cup {BC_TABLE_NULL_POS}]
      BY <1>10, <2>1, <1>a, TableResetTyped DEF FilesOK, bc_clear_idx, ClearFails
    <3> QED  BY <1>10, <3>1, <1>a DEF FilesOK, bc_clear_idx
  <2>3. CASE pc'[t] = "idle"
    <3>1. \E e \in Result : Return(t, e) /\ UNCHANGED <<cnt, crashes>>
      BY <1>10, <2>3, <1>b DEF bc_clear_idx, ClearFails, Goto, Result
    <3> QED  BY <3>1, <2>2, <1>e
  <2>4. CASE pc'[t] # "idle"
    <3>1. Goto(t, "purge_next") /\ UNCHANGED <<cnt, lock, loc, ret, crashes>>
      BY <1>10, <2>4, <1>b DEF bc_clear_idx, ClearFails, Return, Goto
    <3>2. /\ ThreadsOK' /\ pc'[t] = "purge_next" /\ loc'[t] = loc[t]
          /\ CallTyped(t)' => \A u \in Thread : CallTyped(u)'
      BY <3>1, <1>c, <1>f DEF Label
    <3>3. CallTyped(t)'  BY <3>2 DEF CallTyped
    <3> QED  BY <2>2, <3>2, <3>3
  <2> QED  BY <2>3, <2>4
<1>11. CASE bc_purge_next(t)
  <2> DEFINE tpos == (pos - 1) % PosWrap
  <2>1. FilesOK'  BY <1>11, <1>a DEF FilesOK, files, bc_purge_next
  <2>2. tpos \in Nat  BY <1>b, BoundAssumption DEF Loc
  <2>3. cnt' = cnt /\ crashes' = crashes  BY <1>11 DEF bc_purge_next, files
  <2>4. CASE Return(t, "ok")
    BY <2>1, <2>3, <2>4, <1>e DEF Result
  <2>5. CASE /\ Live(tpos)
             /\ loc' = [loc EXCEPT ![t].pos = tpos, ![t].rec = idx[tpos]]
             /\ Goto(t, "clear_next")
             /\ UNCHANGED <<lock, ret>>
    <3>1. tpos \in Pos /\ tpos < cnt /\ idx[tpos] \in IdxRec
      BY <2>5, <1>a DEF Live, FilesOK
    <3>2. PICK r \in Loc : /\ r = [loc[t] EXCEPT !.pos = tpos, !.rec = idx[tpos]]
                           /\ loc' = [loc EXCEPT ![t] = r]
      <4>1. [loc[t] EXCEPT !.pos = tpos, !.rec = idx[tpos]] \in Loc
        BY <2>2, <3>1, <1>b DEF Loc
      <4>2. loc' = [loc EXCEPT ![t] = [loc[t] EXCEPT !.pos = tpos, !.rec = idx[tpos]]]
        BY <2>5, <1>a DEF ThreadsOK
      <4> QED  BY <4>1, <4>2
    <3>3. /\ ThreadsOK' /\ pc'[t] = "clear_next" /\ loc'[t] = r
          /\ CallTyped(t)' => \A u \in Thread : CallTyped(u)'
      <4>1. "clear_next" \in Label  BY DEF Label
      <4>2. lock' \in Thread \cup {NoThread} /\ ret' \in [Thread -> Result]
        BY <2>5, <1>a DEF ThreadsOK
      <4> QED  BY <2>3, <2>5, <3>2, <4>1, <4>2, <1>g
    <3>4. r.rec = idx[tpos] /\ r.pos = tpos  BY <3>2, <1>b DEF Loc
    <3>5. CallTyped(t)'
      BY <2>3, <3>1, <3>3, <3>4 DEF CallTyped
    <3> QED  BY <2>1, <3>3, <3>5
  <2>6. CASE /\ loc' = [loc EXCEPT ![t].pos = tpos]
             /\ UNCHANGED <<pc, lock, ret>>
    <3>1. PICK r \in Loc : /\ r = [loc[t] EXCEPT !.pos = tpos]
                           /\ loc' = [loc EXCEPT ![t] = r]
      BY <2>2, <2>6, <1>a, <1>b DEF Loc, ThreadsOK
    <3>2. Goto(t, "purge_next")
      BY <1>11, <2>6, <1>b DEF bc_purge_next, Goto
    <3>3. /\ ThreadsOK' /\ pc'[t] = "purge_next" /\ loc'[t] = r
          /\ CallTyped(t)' => \A u \in Thread : CallTyped(u)'
      <4>1. "purge_next" \in Label  BY DEF Label
      <4>2. lock' \in Thread \cup {NoThread} /\ ret' \in [Thread -> Result]
        BY <2>6, <1>a DEF ThreadsOK
      <4> QED  BY <2>3, <3>1, <3>2, <4>1, <4>2, <1>g
    <3>4. CallTyped(t)'  BY <3>3 DEF CallTyped
    <3> QED  BY <2>1, <3>3, <3>4
  <2> QED  BY <1>11, <2>4, <2>5, <2>6 DEF bc_purge_next
<1>12. CASE bc_arch_write_data(t)
  <2>1. rec \in IdxRec  BY <1>12, <1>b DEF bc_arch_write_data, CallTyped
  <2>2. FilesOK'
    BY <1>12, <2>1, <1>a, StoredTyped DEF FilesOK, bc_arch_write_data
  <2>3. CASE pc'[t] = "idle"
    <3>1. Return(t, "ERR_IO") /\ UNCHANGED <<cnt, crashes>>
      BY <1>12, <2>3, <1>b DEF bc_arch_write_data, Goto
    <3> QED  BY <3>1, <2>2, <1>e DEF Result
  <2>4. CASE pc'[t] # "idle"
    <3>1. /\ Goto(t, "aw_of") /\ Fits(rec)
          /\ UNCHANGED <<cnt, lock, loc, ret, crashes>>
      BY <1>12, <2>4, <1>b DEF bc_arch_write_data, Return, Goto
    <3>2. /\ ThreadsOK' /\ pc'[t] = "aw_of" /\ loc'[t] = loc[t]
          /\ CallTyped(t)' => \A u \in Thread : CallTyped(u)'
      BY <3>1, <1>c, <1>f DEF Label
    <3>3. CallTyped(t)'
      BY <1>12, <1>b, <3>1, <3>2 DEF CallTyped, Fits, bc_arch_write_data
    <3> QED  BY <2>2, <3>2, <3>3
  <2> QED  BY <2>3, <2>4
<1>13. CASE bc_arch_write_of(t)
  <2>1. rec \in IdxRec /\ Fits(rec)
    BY <1>13, <1>b DEF bc_arch_write_of, CallTyped
  <2>2. of[rec.jrnl] \in 0 .. MaxOf /\ rec.of + rec.size \in 0 .. MaxOf
    <3>1. rec.jrnl \in Journal /\ rec.of \in Nat /\ rec.size \in Nat
      BY <2>1 DEF IdxRec
    <3>2. of[rec.jrnl] \in 0 .. MaxOf  BY <3>1, <1>a DEF FilesOK
    <3> QED  BY <2>1, <3>1, <3>2, <1>c DEF Fits
  <2>3. Max({of[rec.jrnl], rec.of + rec.size}) \in 0 .. MaxOf
    <3>1. MaxOf \in Int  BY BoundAssumption
    <3> HIDE DEF rec
    <3> QED  BY <2>2, <3>1, MaxWithin
  <2>4. FilesOK'
    BY <1>13, <2>1, <2>3, <1>a DEF FilesOK, bc_arch_write_of
  <2>5. /\ ThreadsOK' /\ pc'[t] = "aw_arch" /\ loc'[t] = loc[t]
        /\ CallTyped(t)' => \A u \in Thread : CallTyped(u)'
    BY <1>13, <1>c, <1>f DEF Label, bc_arch_write_of
  <2>6. CallTyped(t)'
    BY <1>13, <1>b, <2>5 DEF CallTyped, bc_arch_write_of
  <2> QED  BY <2>4, <2>5, <2>6
<1>14. CASE bc_arch_write_add(t)
  <2>1. rec \in IdxRec  BY <1>14, <1>b DEF bc_arch_write_add, CallTyped
  <2>2. FilesOK'
    BY <1>14, <2>1, <1>a, ArchSetTyped, Len(arch) \in Nat DEF FilesOK, bc_arch_write_add
  <2>3. \E e \in Result : Return(t, e) /\ UNCHANGED <<cnt, crashes>>
    BY <1>14 DEF bc_arch_write_add, Result
  <2> QED  BY <2>2, <2>3, <1>e
<1> QED
  BY <1>1, <1>2, <1>3, <1>4, <1>5, <1>6, <1>7, <1>8, <1>9, <1>10, <1>11,
     <1>12, <1>13, <1>14 DEF Step

-----------------------------------------------------------------------------
(* bc_idx_find for any contents of the files.  Either it leaves the table  *)
(* as it is, or it leaves a bucket at or above each of its live entries.   *)
InBucket(p, b) == Live(p) /\ bc_table_hash[idx[p].hash] = b

LEMMA FindTable ==
  ASSUME TypeOK, NEW h \in Hash
  PROVE  LET b == bc_table_hash[h]
             new == bc_idx_find(h).tab
         IN /\ new \in [Bucket -> Pos \cup {BC_TABLE_NULL_POS}]
            /\ \A c \in Bucket \ {b} : new[c] = tab[c]
            /\ \/ new = tab
               \/ \A p \in Pos : InBucket(p, b) =>
                    \/ new[b] = BC_TABLE_SEARCH_POS
                    \/ new[b] # BC_TABLE_NULL_POS /\ new[b] >= p
<1> DEFINE b == bc_table_hash[h]
           known == tab[b] # BC_TABLE_SEARCH_POS /\ tab[b] <= cnt - 1
           start == IF known THEN tab[b] ELSE cnt - 1
           match == {i \in 0 .. start : idx[i] # Blank /\ idx[i].hash = h}
           found == IF match = {} THEN -1 ELSE Max(match)
           seen == Seen(b, found, start)
           high == IF known THEN tab[b] ELSE IF seen = {} THEN -1 ELSE Max(seen)
           find == IF tab[b] = BC_TABLE_NULL_POS THEN [pos |-> -1, tab |-> tab]
                   ELSE [pos |-> found,
                         tab |-> IF high # -1 THEN TableSet(b, high)
                                 ELSE IF found = -1
                                      THEN [tab EXCEPT ![b] = BC_TABLE_NULL_POS]
                                      ELSE tab]
<1>1. bc_idx_find(h) = find  BY DEF bc_idx_find
<1>2. /\ b \in Bucket /\ tab[b] \in Pos \cup {BC_TABLE_NULL_POS}
      /\ tab \in [Bucket -> Pos \cup {BC_TABLE_NULL_POS}]
      /\ cnt \in 0 .. MaxPos /\ MaxPos \in Nat \ {0}
      /\ idx \in [Pos -> IdxRec \cup {Blank}]
  BY HashAssumption, BoundAssumption DEF TypeOK
<1>3. BC_TABLE_NULL_POS = MaxPos + 1 /\ BC_TABLE_POS_MASK = MaxPos
      /\ BC_TABLE_SEARCH_POS = 0 /\ Pos = 0 .. MaxPos - 1
  BY DEF BC_TABLE_NULL_POS, BC_TABLE_POS_MASK, BC_TABLE_SEARCH_POS, Pos
<1> HIDE DEF b
<1>4. CASE tab[b] = BC_TABLE_NULL_POS
  <2>1. bc_idx_find(h).tab = tab  BY <1>1, <1>4
  <2> QED  BY <2>1, <1>2 DEF b
<1>5. CASE tab[b] # BC_TABLE_NULL_POS /\ known
  <2>1. high = tab[b] /\ tab[b] \in Pos  BY <1>5, <1>2
  <2>2. TableSet(b, tab[b]) = tab  BY <2>1, <1>2, <1>3 DEF TableSet
  <2>3. tab[b] # -1  BY <2>1, <1>3
  <2>4. bc_idx_find(h).tab = tab  BY <1>1, <1>5, <2>1, <2>2, <2>3
  <2> QED  BY <2>4, <1>2 DEF b
<1>6. CASE tab[b] # BC_TABLE_NULL_POS /\ ~known
  <2>1. start = cnt - 1 /\ start \in Int /\ tab[b] \in Pos
    BY <1>6, <1>2
  <2>2. match \subseteq 0 .. start  OBVIOUS
  <2>3. found \in -1 .. cnt - 1 /\ (found # -1 => found \in match)
    BY <2>1, <2>2, <1>2, MaxInRange
  <2> HIDE DEF match, found
  <2>4. Max({found, 0}) \in 0 .. cnt /\ (found = -1 => Max({found, 0}) = 0)
        /\ (found # -1 => Max({found, 0}) = found)
    <3>1. found \in Int /\ 0 \in Int  BY <2>3, <1>2
    <3>2. Max({found, 0}) \in {found, 0} /\ Max({found, 0}) >= found
          /\ Max({found, 0}) >= 0
      BY <3>1, MaxPair
    <3> QED  BY <2>3, <3>2, <1>2
  <2>5. seen = {i \in Max({found, 0}) .. cnt - 1 :
                  idx[i] # Blank /\ bc_table_hash[idx[i].hash] = b}
    BY <2>1 DEF Seen
  <2> HIDE DEF seen
  <2>6. seen \subseteq 0 .. cnt - 1
    <3> SUFFICES ASSUME NEW i \in seen PROVE i \in 0 .. cnt - 1  OBVIOUS
    <3>1. i \in Max({found, 0}) .. cnt - 1  BY <2>5
    <3> QED  BY <3>1, <2>4, <1>2
  <2>7. seen # {} => Max(seen) \in seen /\ \A y \in seen : Max(seen) >= y
    BY <2>6, <2>1, MaxInRange
  <2>8. \A p \in Pos : InBucket(p, b) => p \in 0 .. cnt - 1
    BY <1>2, <1>3 DEF InBucket, Live
  <2>9. found # -1 => found \in seen
    <3>1. found # -1 => idx[found] # Blank /\ idx[found].hash = h
                        /\ found \in 0 .. cnt - 1
      BY <2>1, <2>3 DEF match
    <3> QED  BY <2>4, <2>5, <3>1 DEF b
  <2>10. \A p \in Pos : InBucket(p, b) => seen # {} /\ Max(seen) >= p
    <3> SUFFICES ASSUME NEW p \in Pos, InBucket(p, b)
                 PROVE  seen # {} /\ Max(seen) >= p
      OBVIOUS
    <3>1. p \in 0 .. cnt - 1 /\ idx[p] # Blank /\ bc_table_hash[idx[p].hash] = b
      BY <2>8 DEF InBucket, Live
    <3>2. CASE p >= Max({found, 0})
      <4>1. p \in seen  BY <3>1, <3>2, <2>4, <2>5
      <4> QED  BY <4>1, <2>7
    <3>3. CASE p < Max({found, 0})
      <4>1. found # -1 /\ p < found  BY <3>1, <3>3, <2>4
      <4>2. seen # {} /\ Max(seen) >= found /\ Max(seen) \in 0 .. cnt - 1
        BY <4>1, <2>6, <2>7, <2>9
      <4> QED  BY <3>1, <4>1, <4>2, <2>3, <1>2
    <3> QED  BY <3>1, <3>2, <3>3, <2>4, <1>2
  <2>11. CASE seen = {}
    <3>1. high = -1 /\ found = -1  BY <1>6, <2>9, <2>11
    <3>2. bc_idx_find(h).tab = [tab EXCEPT ![b] = BC_TABLE_NULL_POS]
      BY <1>1, <1>6, <3>1
    <3>3. \A p \in Pos : ~InBucket(p, b)  BY <2>10, <2>11
    <3> QED  BY <3>2, <3>3, <1>2 DEF b
  <2>12. CASE seen # {}
    <3>1. high = Max(seen) /\ Max(seen) \in 0 .. cnt - 1
      BY <1>6, <2>6, <2>7, <2>12
    <3>2. bc_idx_find(h).tab = TableSet(b, high)
      BY <1>1, <1>6, <3>1, <1>2
    <3>3. high \in Pos /\ high < BC_TABLE_POS_MASK  BY <3>1, <1>2, <1>3
    <3>4. CASE tab[b] < high
      <4>1. TableSet(b, high) = [tab EXCEPT ![b] = high]
        BY <3>3, <3>4 DEF TableSet
      <4>2. high # BC_TABLE_NULL_POS  BY <3>1, <1>2, <1>3
      <4>3. \A p \in Pos : InBucket(p, b) => high >= p
        BY <2>10, <3>1
      <4>4. bc_idx_find(h).tab = [tab EXCEPT ![b] = high]  BY <3>2, <4>1
      <4> HIDE DEF high
      <4> QED  BY <3>3, <4>2, <4>3, <4>4, <1>2 DEF b
    <3>5. CASE ~(tab[b] < high)
      <4>1. ~(tab[b] >= BC_TABLE_POS_MASK)  BY <2>1, <1>2, <1>3
      <4>2. TableSet(b, high) = tab  BY <3>5, <4>1 DEF TableSet
      <4> QED  BY <3>2, <4>2, <1>2 DEF b
    <3> QED  BY <3>4, <3>5
  <2> QED  BY <2>11, <2>12
<1> QED  BY <1>4, <1>5, <1>6

-----------------------------------------------------------------------------
(* Calls keep the types.                                                   *)

(* The locals of a call that has just begun.                               *)
LEMMA EntryTyped ==
  ASSUME TypeInv, NEW t \in Thread, NEW l \in Label, NEW r \in Loc,
         Enter(t, l, r), UNCHANGED <<files, crashes, acked>>,
         l \in WriteLabel \cup ArchLabel =>
           r.rec \in IdxRec /\ r.rec.size = Size[r.rec.crc],
         l \in WriteLabel => r.hash \in Hash,
         l = "rw_idx" => r.pos \in Pos /\ r.pos < cnt,
         l \in {"idx_set", "rw_idx", "purge_next", "aw_data"}
  PROVE  TypeInv'
<1>1. FilesOK /\ ThreadsOK  BY TypeHalves DEF TypeInv
<1>2. FilesOK' /\ cnt' = cnt /\ cnt \in Int /\ cnt' >= cnt
  BY <1>1, BoundAssumption DEF FilesOK, files
<1>3. /\ pc' = [pc EXCEPT ![t] = l] /\ loc' = [loc EXCEPT ![t] = r]
      /\ lock' \in Thread \cup {NoThread} /\ ret' \in [Thread -> Result]
  BY <1>1 DEF Enter, Goto, ThreadsOK, Result
<1>4. /\ ThreadsOK' /\ pc'[t] = l /\ loc'[t] = r
      /\ CallTyped(t)' => \A u \in Thread : CallTyped(u)'
  BY <1>2, <1>3, EnterTyped
<1>5. CallTyped(t)'
  BY <1>2, <1>4 DEF CallTyped, WriteLabel, ClearLabel, ArchLabel
<1> QED
  BY <1>2, <1>4, <1>5 DEF TypeInv, TypeOK, FilesOK, ThreadsOK

(* A call that returns at once.                                            *)
LEMMA RefusalTyped ==
  ASSUME TypeInv, NEW t \in Thread, NEW e \in Result, Return(t, e),
         UNCHANGED <<files, crashes, acked>>
  PROVE  TypeInv'
<1>1. FilesOK /\ ThreadsOK  BY TypeHalves DEF TypeInv
<1>2. FilesOK' /\ cnt' \in Int /\ cnt' >= cnt
  BY <1>1, BoundAssumption DEF FilesOK, files
<1>3. ThreadsOK' /\ \A u \in Thread : CallTyped(u)'
  BY <1>2, ReturnTyped
<1> QED  BY <1>2, <1>3 DEF TypeInv, TypeOK, FilesOK, ThreadsOK

LEMMA WriteTyped ==
  ASSUME TypeInv, NEW t \in Thread, NEW p \in 0 .. MaxPos, NEW h \in Hash,
         NEW d \in Data, bc_write(t, p, h, d)
  PROVE  TypeInv'
<1> DEFINE new == [NoLoc EXCEPT !.op = "write", !.pos = p, !.hash = h]
<1>1. TypeOK /\ MaxPos \in Nat /\ p \in Nat /\ Size[d] \in Nat \ {0}
  BY BoundAssumption, SizeAssumption DEF TypeInv
<1>2. CASE Return(t, "ERR_IO") \/ Return(t, "ERR_EXIST")
  <2>1. UNCHANGED <<files, crashes, acked>>  BY DEF bc_write
  <2>2. "ERR_IO" \in Result /\ "ERR_EXIST" \in Result  BY DEF Result
  <2> QED  BY <1>2, <2>1, <2>2, RefusalTyped
<1>3. CASE Enter(t, "idx_set", [new EXCEPT !.rec = NewRec(p, h, d)])
  <2> DEFINE r == [new EXCEPT !.rec = NewRec(p, h, d)]
  <2>1. NewRec(p, h, d) \in IdxRec
        /\ NewRec(p, h, d).size = Size[NewRec(p, h, d).crc]
    BY <1>1, NewRecTyped
  <2>2. r \in Loc /\ r.rec = NewRec(p, h, d) /\ r.hash = h
    BY <1>1, <2>1 DEF NoLoc, Loc
  <2>3. UNCHANGED <<files, crashes, acked>>  BY DEF bc_write
  <2>4. "idx_set" \in Label  BY DEF Label
  <2> HIDE DEF r
  <2> QED
    BY <1>3, <2>1, <2>2, <2>3, <2>4, EntryTyped DEF r
<1>4. CASE /\ Live(p)
           /\ Enter(t, "rw_idx",
                [new EXCEPT !.rec = [idx[p] EXCEPT !.size = Size[d], !.crc = d]])
  <2> DEFINE q == [idx[p] EXCEPT !.size = Size[d], !.crc = d]
             r == [new EXCEPT !.rec = q]
  <2>1. p \in Pos /\ p < cnt /\ idx[p] \in IdxRec
    BY <1>1, <1>4 DEF Live, TypeOK
  <2>2. q \in IdxRec /\ q.size = Size[q.crc]
    BY <1>1, <2>1 DEF IdxRec
  <2>3. r \in Loc /\ r.rec = q /\ r.hash = h /\ r.pos = p
    BY <1>1, <2>2 DEF NoLoc, Loc
  <2>4. UNCHANGED <<files, crashes, acked>>  BY DEF bc_write
  <2>5. "rw_idx" \in Label  BY DEF Label
  <2>6. Enter(t, "rw_idx", r)  BY <1>4
  <2> HIDE DEF r, q
  <2> QED
    BY <2>1, <2>2, <2>3, <2>4, <2>5, <2>6, EntryTyped
<1> QED  BY <1>2, <1>3, <1>4 DEF bc_write

(* A call that makes one store under the mutex and leaves its thread idle. *)
LEMMA SingleStoreTyped ==
  ASSUME TypeInv, NEW t \in Thread, FilesOK', cnt' >= cnt,
         UNCHANGED <<lock, pc, loc, crashes>>,
         \E e \in Result : ret' = [ret EXCEPT ![t] = e]
  PROVE  TypeInv'
<1>1. FilesOK /\ ThreadsOK  BY TypeHalves DEF TypeInv
<1>2. ThreadsOK'  BY <1>1 DEF ThreadsOK
<1>3. ASSUME NEW u \in Thread PROVE CallTyped(u)'
  <2>1. CallTyped(u)  BY DEF TypeInv
  <2>2. cnt \in Int /\ cnt' \in Int /\ MaxPos \in Int
    BY <1>1, BoundAssumption DEF FilesOK
  <2> QED  BY <2>1, <2>2 DEF CallTyped, Fits, Pos
<1> QED  BY <1>2, <1>3 DEF TypeInv, TypeOK, FilesOK, ThreadsOK

LEMMA TypeCall ==
  ASSUME TypeInv, NEW t \in Thread, Call(t)
  PROVE  TypeInv'
<1>a. FilesOK /\ ThreadsOK /\ TypeOK  BY TypeHalves DEF TypeInv
<1>b. cnt \in 0 .. MaxPos /\ cnt \in Int /\ MaxPos \in Nat \ {0}
  BY <1>a, BoundAssumption DEF FilesOK
<1>c. "ok" \in Result /\ "ERR_NOENT" \in Result /\ "ERR_IO" \in Result
      /\ "ERR_ILSEQ" \in Result
  BY DEF Result
<1>1. ASSUME NEW h \in Hash, bc_find(t, h)
      PROVE  TypeInv'
  <2>1. bc_idx_find(h).tab \in [Bucket -> Pos \cup {BC_TABLE_NULL_POS}]
    BY <1>a, FindTable
  <2>2. FilesOK'  BY <1>1, <2>1, <1>a DEF FilesOK, bc_find
  <2>3. cnt' >= cnt  BY <1>1, <1>b DEF bc_find
  <2>4. \E e \in Result : ret' = [ret EXCEPT ![t] = e]
    BY <1>1, <1>c DEF bc_find
  <2> QED  BY <1>1, <2>2, <2>3, <2>4, SingleStoreTyped DEF bc_find
<1>2. ASSUME NEW h \in Hash, bc_table_reset(t, h)
      PROVE  TypeInv'
  <2>1. FilesOK'
    BY <1>2, <1>a, TableResetTyped DEF FilesOK, bc_table_reset
  <2>3. cnt' >= cnt  BY <1>2, <1>b DEF bc_table_reset
  <2>4. \E e \in Result : ret' = [ret EXCEPT ![t] = e]
    BY <1>2, <1>c DEF bc_table_reset
  <2> QED  BY <1>2, <2>1, <2>3, <2>4, SingleStoreTyped DEF bc_table_reset
<1>3. ASSUME NEW h \in Hash, NEW d \in Data, bc_append(t, h, d)
      PROVE  TypeInv'
  BY <1>3, <1>b, WriteTyped DEF bc_append
<1>4. ASSUME NEW h \in Hash, NEW d \in Data, bc_arch_write(t, h, d)
      PROVE  TypeInv'
  <2> DEFINE r == [NoLoc EXCEPT !.op = "arch_write", !.rec = NewRec(cnt, h, d)]
  <2>1. UNCHANGED <<files, crashes, acked>>  BY <1>4 DEF bc_arch_write
  <2>2. CASE Return(t, "ERR_IO")
    BY <2>1, <2>2, <1>c, RefusalTyped
  <2>3. CASE Enter(t, "aw_data", r)
    <3>1. NewRec(cnt, h, d) \in IdxRec
          /\ NewRec(cnt, h, d).size = Size[NewRec(cnt, h, d).crc]
      BY <1>a, <1>b, NewRecTyped
    <3>2. r \in Loc /\ r.rec = NewRec(cnt, h, d)
      BY <3>1 DEF NoLoc, Loc
    <3>3. "aw_data" \in Label /\ "aw_data" \notin WriteLabel
      BY DEF Label, WriteLabel
    <3> HIDE DEF r
    <3> QED  BY <2>1, <2>3, <3>1, <3>2, <3>3, EntryTyped
  <2> QED  BY <1>4, <2>2, <2>3 DEF bc_arch_write
<1>5. ASSUME NEW h \in Hash, NEW d \in Data, NEW p \in Pos, bc_write(t, p, h, d)
      PROVE  TypeInv'
  BY <1>5, <1>b, WriteTyped, p \in 0 .. MaxPos DEF Pos
<1>6. ASSUME NEW p \in Pos, bc_clear(t, p)
      PROVE  TypeInv'
  <2> DEFINE r == [NoLoc EXCEPT !.op = "clear", !.pos = p, !.rec = idx[p]]
  <2>1. UNCHANGED <<files, crashes, acked>>  BY <1>6 DEF bc_clear
  <2>2. CASE Return(t, "ERR_NOENT")
    BY <2>1, <2>2, <1>c, RefusalTyped
  <2>3. CASE /\ Live(p) /\ Goto(t, "clear_next") /\ loc' = [loc EXCEPT ![t] = r]
             /\ ret' = [ret EXCEPT ![t] = "ok"] /\ UNCHANGED lock
    <3>1. p < cnt /\ idx[p] \in IdxRec /\ p \in Nat
      BY <2>3, <1>a DEF Live, FilesOK, Pos
    <3>2. r \in Loc /\ r.rec = idx[p] /\ r.pos = p
      BY <3>1 DEF NoLoc, Loc
    <3> HIDE DEF r
    <3>3. /\ lock' \in Thread \cup {NoThread} /\ ret' \in [Thread -> Result]
          /\ pc' = [pc EXCEPT ![t] = "clear_next"] /\ "clear_next" \in Label
      BY <2>3, <1>a DEF ThreadsOK, Result, Goto, Label
    <3>4. FilesOK' /\ cnt' = cnt /\ cnt' >= cnt
      BY <2>1, <1>a, <1>b DEF FilesOK, files
    <3>5. /\ ThreadsOK' /\ pc'[t] = "clear_next" /\ loc'[t] = r
          /\ CallTyped(t)' => \A u \in Thread : CallTyped(u)'
      BY <2>1, <2>3, <3>2, <3>3, <3>4, <1>b, EnterTyped
    <3>6. CallTyped(t)'
      BY <3>1, <3>2, <3>4, <3>5 DEF CallTyped, WriteLabel, ClearLabel, ArchLabel
    <3> QED  BY <3>4, <3>5, <3>6 DEF TypeInv, TypeOK, FilesOK, ThreadsOK
  <2> QED  BY <1>6, <2>2, <2>3 DEF bc_clear
<1>7. ASSUME NEW p \in Pos, p < cnt, bc_idx_clear(t, p)
      PROVE  TypeInv'
  <2>1. p + 1 \in Int /\ p + 1 \in 1 .. MaxPos  BY <1>b DEF Pos
  <2>2. Max({cnt, p + 1}) \in {cnt, p + 1} /\ Max({cnt, p + 1}) >= cnt
    BY <2>1, <1>b, MaxPair
  <2>3. cnt' \in 0 .. MaxPos /\ cnt' >= cnt
    BY <1>7, <2>1, <2>2, <1>b DEF bc_idx_clear
  <2>4. FilesOK'  BY <1>7, <2>3, <1>a DEF FilesOK, bc_idx_clear
  <2> QED  BY <1>7, <2>3, <2>4, <1>c, SingleStoreTyped DEF bc_idx_clear
<1>8. ASSUME NEW p \in PurgePos, bc_purge(t, p)
      PROVE  TypeInv'
  <2> DEFINE r == [NoLoc EXCEPT !.op = "purge", !.pos = cnt, !.top = p]
  <2>1. UNCHANGED <<files, crashes, acked>>  BY <1>8 DEF bc_purge
  <2>2. CASE Return(t, "ERR_NOENT") \/ Return(t, "ERR_IO") \/ Return(t, "ERR_ILSEQ")
    BY <2>1, <2>2, <1>c, RefusalTyped
  <2>3. CASE Enter(t, "purge_next", r)
    <3>1. p \in Nat /\ cnt \in Nat  BY <1>b, BoundAssumption
    <3>2. r \in Loc  BY <3>1 DEF NoLoc, Loc
    <3>3. "purge_next" \in Label \ (WriteLabel \cup ArchLabel)
      BY DEF Label, WriteLabel, ArchLabel
    <3> HIDE DEF r
    <3> QED  BY <2>1, <2>3, <3>2, <3>3, EntryTyped
  <2> QED  BY <1>8, <2>2, <2>3 DEF bc_purge
<1>9. ASSUME bc_table_clear(t)
      PROVE  TypeInv'
  <2>1. BC_TABLE_SEARCH_POS \in Pos  BY <1>b DEF BC_TABLE_SEARCH_POS, Pos
  <2>2. FilesOK'
    BY <1>9, <2>1, <1>a DEF FilesOK, bc_table_clear
  <2>3. cnt' >= cnt  BY <1>9, <1>b DEF bc_table_clear
  <2>4. \E e \in Result : ret' = [ret EXCEPT ![t] = e]
    BY <1>9, <1>c DEF bc_table_clear
  <2> QED  BY <1>9, <2>2, <2>3, <2>4, SingleStoreTyped DEF bc_table_clear
<1> QED
  BY <1>1, <1>2, <1>3, <1>4, <1>5, <1>6, <1>7, <1>8, <1>9 DEF Call

(* A crash forgets the calls and keeps the files.                          *)
LEMMA TypeCrash ==
  ASSUME TypeInv, Crash
  PROVE  TypeInv'
<1>1. FilesOK /\ ThreadsOK  BY TypeHalves DEF TypeInv
<1>2. FilesOK'  BY <1>1 DEF FilesOK, Crash, files
<1>3. NoLoc \in Loc  BY DEF NoLoc, Loc
<1>4. crashes' \in 0 .. MaxCrash
  BY <1>1, BoundAssumption DEF Crash, ThreadsOK
<1>5. ThreadsOK'
  BY <1>1, <1>3, <1>4 DEF ThreadsOK, Crash, Label, Result
<1>6. \A u \in Thread : CallTyped(u)'
  BY DEF Crash, CallTyped, WriteLabel, ClearLabel, ArchLabel
<1> QED  BY <1>2, <1>5, <1>6 DEF TypeInv, TypeOK, FilesOK, ThreadsOK

LEMMA TypeNext == TypeInv /\ [Next]_vars => TypeInv'
<1> SUFFICES ASSUME TypeInv, [Next]_vars PROVE TypeInv'
  OBVIOUS
<1>1. CASE UNCHANGED vars
  BY <1>1 DEF vars, files, TypeInv, TypeOK, CallTyped, Fits
<1>2. CASE Crash
  BY <1>2, TypeCrash
<1>3. ASSUME NEW t \in Thread, Step(t) PROVE TypeInv'
  BY <1>3, TypeStep
<1>4. ASSUME NEW t \in Thread, Call(t) PROVE TypeInv'
  BY <1>4, TypeCall
<1> QED  BY <1>1, <1>2, <1>3, <1>4 DEF Next

(* Type correctness of the record database: no interleaving of calls,      *)
(* failures and crashes stores an entry outside the index file, an offset  *)
(* beyond the end of a journal, or anything but an entry in the archive.   *)
THEOREM TypeCorrect == Spec => []TypeOK
<1>1. Spec => []TypeInv
  BY TypeInit, TypeNext, PTL DEF Spec
<1> QED  BY <1>1, PTL DEF TypeInv

-----------------------------------------------------------------------------
(* The mutex.  A thread holds it exactly while it is in a call that stores *)
(* under it: the whole of bc_write, bc_arch_write and bc_purge, but not    *)
(* the pauses between the three critical sections of bc_clear.             *)

LockLabel == Label \ ({"idle"} \cup ClearLabel)

MutexInv ==
  \A t \in Thread :
    /\ lock = t <=> pc[t] \in LockLabel \/ loc[t].op = "purge"
    /\ pc[t] = "idle" => loc[t].op = "none"
    /\ pc[t] = "purge_next" => loc[t].op = "purge"

(* What a step of thread t may do to the others and to the mutex.          *)
Frame(t) ==
  /\ \A u \in Thread \ {t} : /\ pc'[u] = pc[u] /\ loc'[u] = loc[u]
                             /\ lock = u <=> lock' = u
  /\ lock' = t <=> pc'[t] \in LockLabel \/ loc'[t].op = "purge"
  /\ pc'[t] = "idle" => loc'[t].op = "none"
  /\ pc'[t] = "purge_next" => loc'[t].op = "purge"

(* A step that moves to another label and keeps locals and mutex.          *)
LEMMA GotoFrame ==
  ASSUME TypeInv, MutexInv, NEW t \in Thread, NEW l \in Label \ {"idle"},
         Goto(t, l), UNCHANGED <<lock, loc>>,
         lock = t <=> l \in LockLabel \/ loc[t].op = "purge",
         l = "purge_next" => loc[t].op = "purge"
  PROVE  Frame(t)
BY DEF TypeInv, TypeOK, MutexInv, Frame, Goto

LEMMA ReturnFrame ==
  ASSUME TypeInv, MutexInv, NEW t \in Thread, NEW e, Return(t, e)
  PROVE  Frame(t)
<1>1. pc \in [Thread -> Label] /\ loc \in [Thread -> Loc]
  BY DEF TypeInv, TypeOK
<1>2. /\ pc'[t] = "idle" /\ loc'[t] = NoLoc /\ NoLoc.op = "none"
      /\ lock' = Unlocked(t)
  BY <1>1 DEF Return, Goto, NoLoc
<1>3. \A u \in Thread \ {t} : pc'[u] = pc[u] /\ loc'[u] = loc[u]
  BY <1>1 DEF Return, Goto
<1>4. lock' # t /\ \A u \in Thread \ {t} : lock = u <=> lock' = u
  BY <1>2, NoThreadAssumption DEF Unlocked
<1> QED  BY <1>2, <1>3, <1>4 DEF Frame, LockLabel

LEMMA EnterFrame ==
  ASSUME TypeInv, MutexInv, NEW t \in Thread, NEW l \in LockLabel, NEW r,
         CanLock(t), Enter(t, l, r), l = "purge_next" => r.op = "purge"
  PROVE  Frame(t)
<1>1. pc \in [Thread -> Label] /\ loc \in [Thread -> Loc]
  BY DEF TypeInv, TypeOK
<1>2. pc'[t] = l /\ lock' = t /\ l # "idle" /\ loc'[t] = r
  BY <1>1 DEF Enter, Goto, LockLabel
<1>3. \A u \in Thread \ {t} : pc'[u] = pc[u] /\ loc'[u] = loc[u]
  BY <1>1 DEF Enter, Goto
<1>4. \A u \in Thread \ {t} : lock # u /\ lock' # u
  BY <1>2, NoThreadAssumption DEF CanLock
<1> QED  BY <1>2, <1>3, <1>4 DEF Frame

LEMMA StepFrame ==
  ASSUME TypeInv, MutexInv, NEW t \in Thread, Step(t)
  PROVE  Frame(t)
<1>a. /\ pc \in [Thread -> Label] /\ loc \in [Thread -> Loc]
      /\ pc[t] \in Label /\ loc[t] \in Loc
  BY DEF TypeInv, TypeOK
<1>b. /\ lock = t <=> pc[t] \in LockLabel \/ loc[t].op = "purge"
      /\ pc[t] = "purge_next" => loc[t].op = "purge"
  BY DEF MutexInv
<1> USE DEF Label, LockLabel, ClearLabel
<1>1. CASE bc_idx_set(t)
  <2>1. CASE Return(t, "ERR_IO")  BY <2>1, ReturnFrame
  <2>2. CASE ~Return(t, "ERR_IO")
    <3>1. Goto(t, "table_reset") /\ UNCHANGED <<lock, loc>> /\ pc[t] \in LockLabel
      BY <1>1, <2>2 DEF bc_idx_set
    <3> QED  BY <3>1, <1>b, GotoFrame
  <2> QED  BY <2>1, <2>2
<1>2. CASE bc_idx_set_table(t)
  <2>1. PICK l \in {"append"} : Goto(t, l)  BY <1>2 DEF bc_idx_set_table
  <2>2. UNCHANGED <<lock, loc>> /\ pc[t] \in LockLabel  BY <1>2 DEF bc_idx_set_table
  <2> QED  BY <2>1, <2>2, <1>b, GotoFrame
<1>3. CASE bc_write_data(t)
  <2>1. PICK l \in {"append_of", "undo_idx"} : Goto(t, l)  BY <1>3 DEF bc_write_data
  <2>2. UNCHANGED <<lock, loc>> /\ pc[t] \in LockLabel  BY <1>3 DEF bc_write_data
  <2> QED  BY <2>1, <2>2, <1>b, GotoFrame
<1>4. CASE bc_write_of(t)
  BY <1>4, ReturnFrame DEF bc_write_of
<1>5. CASE bc_rewrite(t)
  <2>1. CASE Return(t, "ERR_IO")  BY <2>1, ReturnFrame
  <2>2. CASE ~Return(t, "ERR_IO")
    <3>1. Goto(t, "append") /\ UNCHANGED <<lock, loc>> /\ pc[t] \in LockLabel
      BY <1>5, <2>2 DEF bc_rewrite
    <3> QED  BY <3>1, <1>b, GotoFrame
  <2> QED  BY <2>1, <2>2
<1>6. CASE bc_write_undo(t)
  <2>1. PICK l \in {"undo_tab"} : Goto(t, l)  BY <1>6 DEF bc_write_undo
  <2>2. UNCHANGED <<lock, loc>> /\ pc[t] \in LockLabel  BY <1>6 DEF bc_write_undo
  <2> QED  BY <2>1, <2>2, <1>b, GotoFrame
<1>7. CASE bc_write_undo_table(t)
  BY <1>7, ReturnFrame DEF bc_write_undo_table
<1>8. CASE bc_arch_next(t)
  <2>1. /\ loc'[t].op = loc[t].op /\ pc'[t] = "clear_set" /\ lock' = lock
        /\ \A u \in Thread \ {t} : pc'[u] = pc[u] /\ loc'[u] = loc[u]
    BY <1>8, <1>a DEF bc_arch_next, Goto, Loc
  <2> QED  BY <1>8, <2>1, <1>b DEF bc_arch_next, Frame
<1>9. CASE bc_arch_set(t)
  <2>1. CASE \E e \in Result : Return(t, e)  BY <2>1, ReturnFrame
  <2>2. CASE ~\E e \in Result : Return(t, e)
    <3>1. PICK l \in {"clear_idx", "purge_next"} :
            /\ Goto(t, l) /\ UNCHANGED <<lock, loc>>
            /\ l = "purge_next" => loc[t].op = "purge"
      BY <1>9, <2>2 DEF bc_arch_set, ClearFails, Result
    <3>2. pc[t] \notin LockLabel  BY <1>9 DEF bc_arch_set
    <3> QED  BY <3>1, <3>2, <1>b, GotoFrame
  <2> QED  BY <2>1, <2>2
<1>10. CASE bc_clear_idx(t)
  <2>1. CASE \E e \in Result : Return(t, e)  BY <2>1, ReturnFrame
  <2>2. CASE ~\E e \in Result : Return(t, e)
    <3>1. PICK l \in {"clear_idx", "purge_next"} :
            /\ Goto(t, l) /\ UNCHANGED <<lock, loc>>
            /\ l = "purge_next" => loc[t].op = "purge"
      BY <1>10, <2>2 DEF bc_clear_idx, ClearFails, Result
    <3>2. pc[t] \notin LockLabel  BY <1>10 DEF bc_clear_idx
    <3> QED  BY <3>1, <3>2, <1>b, GotoFrame
  <2> QED  BY <2>1, <2>2
<1>11. CASE bc_purge_next(t)
  <2>1. CASE Return(t, "ok")  BY <2>1, ReturnFrame
  <2>2. CASE ~Return(t, "ok")
    <3>1. /\ loc'[t].op = loc[t].op /\ pc'[t] \in {"clear_next", "purge_next"}
          /\ lock' = lock
          /\ \A u \in Thread \ {t} : pc'[u] = pc[u] /\ loc'[u] = loc[u]
      BY <1>11, <2>2, <1>a DEF bc_purge_next, Goto, Loc
    <3>2. lock = t  BY <1>11, <1>b DEF bc_purge_next
    <3> QED  BY <1>11, <3>1, <3>2, <1>b DEF bc_purge_next, Frame
  <2> QED  BY <2>1, <2>2
<1>12. CASE bc_arch_write_data(t)
  <2>1. CASE Return(t, "ERR_IO")  BY <2>1, ReturnFrame
  <2>2. CASE ~Return(t, "ERR_IO")
    <3>1. Goto(t, "aw_of") /\ UNCHANGED <<lock, loc>> /\ pc[t] \in LockLabel
      BY <1>12, <2>2 DEF bc_arch_write_data
    <3> QED  BY <3>1, <1>b, GotoFrame
  <2> QED  BY <2>1, <2>2
<1>13. CASE bc_arch_write_of(t)
  <2>1. PICK l \in {"aw_arch"} : Goto(t, l)  BY <1>13 DEF bc_arch_write_of
  <2>2. UNCHANGED <<lock, loc>> /\ pc[t] \in LockLabel  BY <1>13 DEF bc_arch_write_of
  <2> QED  BY <2>1, <2>2, <1>b, GotoFrame
<1>14. CASE bc_arch_write_add(t)
  BY <1>14, ReturnFrame DEF bc_arch_write_add
<1> QED
  BY <1>1, <1>2, <1>3, <1>4, <1>5, <1>6, <1>7, <1>8, <1>9, <1>10, <1>11,
     <1>12, <1>13, <1>14 DEF Step

LEMMA CallFrame ==
  ASSUME TypeInv, MutexInv, NEW t \in Thread, Call(t)
  PROVE  Frame(t)
<1>a. /\ pc \in [Thread -> Label] /\ loc \in [Thread -> Loc]
      /\ pc[t] \in Label /\ loc[t] \in Loc
  BY DEF TypeInv, TypeOK
<1>b. /\ lock = t <=> pc[t] \in LockLabel \/ loc[t].op = "purge"
      /\ pc[t] = "idle" => loc[t].op = "none"
  BY DEF MutexInv
<1>c. {"idx_set", "rw_idx", "purge_next", "aw_data"} \subseteq LockLabel
  BY DEF LockLabel, Label, ClearLabel
<1>d. ASSUME pc[t] = "idle", UNCHANGED <<lock, pc, loc>> PROVE Frame(t)
  BY <1>b, <1>d DEF Frame
<1>1. ASSUME NEW p, NEW h, NEW d, bc_write(t, p, h, d) PROVE Frame(t)
  BY <1>1, <1>c, ReturnFrame, EnterFrame DEF bc_write
<1>2. ASSUME NEW h, NEW d, bc_arch_write(t, h, d) PROVE Frame(t)
  BY <1>2, <1>c, ReturnFrame, EnterFrame DEF bc_arch_write
<1>3. ASSUME NEW p, bc_purge(t, p) PROVE Frame(t)
  <2>1. CASE \E e : Return(t, e)  BY <2>1, ReturnFrame
  <2>2. CASE ~\E e : Return(t, e)
    <3> DEFINE r == [NoLoc EXCEPT !.op = "purge", !.pos = cnt, !.top = p]
    <3>1. Enter(t, "purge_next", r) /\ CanLock(t)
      BY <1>3, <2>2 DEF bc_purge
    <3>2. r.op = "purge"  BY DEF NoLoc
    <3> HIDE DEF r
    <3> QED  BY <3>1, <3>2, <1>c, EnterFrame
  <2> QED  BY <2>1, <2>2
<1>4. ASSUME NEW p, bc_clear(t, p) PROVE Frame(t)
  <2>1. CASE Return(t, "ERR_NOENT")  BY <2>1, ReturnFrame
  <2>2. CASE ~Return(t, "ERR_NOENT")
    <3>1. /\ pc[t] = "idle" /\ pc'[t] = "clear_next" /\ loc'[t].op = "clear"
          /\ lock' = lock
          /\ \A u \in Thread \ {t} : pc'[u] = pc[u] /\ loc'[u] = loc[u]
      BY <1>4, <2>2, <1>a DEF bc_clear, Goto, NoLoc
    <3>2. lock # t  BY <3>1, <1>b DEF LockLabel
    <3> QED  BY <3>1, <3>2 DEF Frame, LockLabel, ClearLabel
  <2> QED  BY <2>1, <2>2
<1>5. ASSUME NEW h, bc_find(t, h) \/ bc_table_reset(t, h) PROVE Frame(t)
  BY <1>5, <1>d DEF bc_find, bc_table_reset
<1>6. ASSUME NEW p, bc_idx_clear(t, p) PROVE Frame(t)
  BY <1>6, <1>d DEF bc_idx_clear
<1>7. ASSUME bc_table_clear(t) PROVE Frame(t)
  BY <1>7, <1>d DEF bc_table_clear
<1> QED
  BY <1>1, <1>2, <1>3, <1>4, <1>5, <1>6, <1>7 DEF Call, bc_append

LEMMA MutexNext == TypeInv /\ MutexInv /\ [Next]_vars => MutexInv'
<1> SUFFICES ASSUME TypeInv, MutexInv, [Next]_vars PROVE MutexInv'
  OBVIOUS
<1>1. CASE UNCHANGED vars  BY <1>1 DEF vars, MutexInv
<1>2. CASE Crash
  BY <1>2, NoThreadAssumption DEF Crash, MutexInv, LockLabel, NoLoc
<1>3. ASSUME NEW t \in Thread, Step(t) \/ Call(t) PROVE MutexInv'
  <2>1. Frame(t)  BY <1>3, StepFrame, CallFrame
  <2> QED  BY <2>1 DEF Frame, MutexInv
<1> QED  BY <1>1, <1>2, <1>3 DEF Next

LEMMA MutexInit == Init => MutexInv
  BY NoThreadAssumption DEF Init, MutexInv, LockLabel, NoLoc

(* While one thread holds the mutex no other changes a file.               *)
LEMMA Exclusive ==
  ASSUME TypeInv, MutexInv, NEW t \in Thread, NEW u \in Thread \ {t},
         lock = u, Step(t) \/ Call(t)
  PROVE  UNCHANGED <<files, acked>>
<1>1. ~CanLock(t)  BY NoThreadAssumption DEF CanLock
<1>2. pc[t] \notin LockLabel /\ loc[t].op # "purge" /\ pc[t] \in Label
  BY DEF MutexInv, TypeInv, TypeOK
<1>3. pc[t] \in {"idle"} \cup ClearLabel  BY <1>2 DEF LockLabel
<1>4. ~Call(t)
  BY <1>1 DEF Call, bc_find, bc_table_reset, bc_append, bc_arch_write,
              bc_write, bc_clear, bc_idx_clear, bc_purge, bc_table_clear
<1>5. bc_arch_next(t)
  BY <1>1, <1>3, <1>4 DEF ClearLabel, Step, bc_idx_set, bc_idx_set_table,
     bc_write_data, bc_write_of, bc_rewrite, bc_write_undo,
     bc_write_undo_table, bc_arch_set, bc_clear_idx, bc_purge_next,
     bc_arch_write_data, bc_arch_write_of, bc_arch_write_add
<1> QED  BY <1>5 DEF bc_arch_next

-----------------------------------------------------------------------------
(* The inductive invariant of the store.                                   *)

(* Labels at which an entry is in the index before its data is complete.   *)
StoreLabel == {"table_reset", "append", "append_of", "undo_idx"}

(* What a call that holds the mutex relies on from one store to the next.  *)
Holding(t) ==
  LET rec == loc[t].rec
      pos == loc[t].pos
  IN /\ pc[t] \in {"idx_set", "table_reset"} => rec.hash = loc[t].hash
     /\ pc[t] \in {"idx_set", "aw_data"} => rec.of = of[rec.jrnl]
     /\ pc[t] = "rw_idx" => /\ idx[pos] # Blank
                            /\ rec.jrnl = idx[pos].jrnl /\ rec.of = idx[pos].of
                            /\ rec.hash = idx[pos].hash
                            /\ rec.size <= idx[pos].size
     /\ pc[t] \in StoreLabel => idx[pos] = rec
     /\ pc[t] \in StoreLabel => pos \notin acked
     /\ pc[t] = "append_of" => CrcOk(rec)

(* No entry lies beyond the count.                                         *)
Counted == \A p \in Pos : idx[p] # Blank => p < cnt

(* An entry's data ends at or below the journal's offset, unless the entry *)
(* is being written; the data of two entries never overlaps.               *)
Unfinished(p) ==
  \E t \in Thread : lock = t /\ pc[t] \in StoreLabel /\ loc[t].pos = p

Below(p) == idx[p].of + idx[p].size <= of[idx[p].jrnl]

Apart(r, s) ==
  r.jrnl = s.jrnl => r.of + r.size <= s.of \/ s.of + s.size <= r.of

Extents ==
  /\ \A p \in Pos : idx[p] # Blank => Below(p) \/ Unfinished(p)
  /\ \A p, q \in Pos :
       idx[p] # Blank /\ idx[q] # Blank /\ p # q => Apart(idx[p], idx[q])

StoreInv ==
  /\ Counted
  /\ \A t \in Thread : Holding(t)
  /\ crashes = 0 => TableSound /\ Extents /\ AckedReadable

LEMMA StoreInit == Init => StoreInv
BY DEF Init, StoreInv, Counted, Holding, StoreLabel, TableSound, Live, Extents,
       AckedReadable

(* Only the holder of the mutex is in the middle of a write.               *)
LEMMA NothingPending ==
  ASSUME NEW t \in Thread, lock \in {NoThread, t}, pc[t] \notin StoreLabel,
         NEW p
  PROVE  ~Unfinished(p) /\ ~ResetPending(p)
BY NoThreadAssumption DEF Unfinished, ResetPending, StoreLabel

(* A step of thread t while another thread holds the mutex.                *)
LEMMA StoreWhileHeld ==
  ASSUME TypeInv, TypeInv', MutexInv, MutexInv', StoreInv, NEW t \in Thread,
         Step(t) \/ Call(t), lock \in Thread \ {t}, crashes' = crashes
  PROVE  StoreInv'
<1>1. Frame(t)  BY StepFrame, CallFrame
<1>2. UNCHANGED <<files, acked>>  BY Exclusive
<1>3. lock' = lock /\ lock' # t /\ pc'[lock] = pc[lock] /\ loc'[lock] = loc[lock]
  BY <1>1 DEF Frame
<1>4. Counted'  BY <1>2 DEF StoreInv, Counted, files
<1>5. ASSUME NEW u \in Thread PROVE Holding(u)'
  <2>1. CASE u = lock
    <3>1. pc'[u] = pc[u] /\ loc'[u] = loc[u]  BY <1>3, <2>1
    <3>2. idx' = idx /\ of' = of /\ cell' = cell /\ acked' = acked
      BY <1>2 DEF files
    <3>3. Holding(u)  BY DEF StoreInv
    <3> QED  BY <3>1, <3>2, <3>3 DEF Holding, CrcOk
  <2>2. CASE u # lock
    <3>1. pc'[u] \notin LockLabel /\ pc'[u] \in Label
      BY <1>3, <2>2 DEF MutexInv, TypeInv, TypeOK
    <3> QED  BY <3>1 DEF Holding, StoreLabel, LockLabel, Label, ClearLabel
  <2> QED  BY <2>1, <2>2
<1>6. ASSUME NEW p PROVE /\ Unfinished(p) => Unfinished(p)'
                         /\ ResetPending(p) => ResetPending(p)'
  BY <1>3 DEF Unfinished, ResetPending
<1>7. crashes = 0 => TableSound'
  BY <1>2, <1>6 DEF StoreInv, TableSound, Live, SlotCovers, files
<1>8. crashes = 0 => Extents'
  BY <1>2, <1>6 DEF StoreInv, Extents, Below, Apart, files
<1>9. crashes = 0 => AckedReadable'
  BY <1>2 DEF StoreInv, AckedReadable, Live, CrcOk, files
<1> QED  BY <1>4, <1>5, <1>7, <1>8, <1>9 DEF StoreInv

(* The other threads rely on nothing while t may store.                    *)
LEMMA OthersHold ==
  ASSUME TypeInv', MutexInv, NEW t \in Thread, lock \in {NoThread, t}, Frame(t),
         NEW u \in Thread \ {t}
  PROVE  Holding(u)'
<1>1. pc[u] \notin LockLabel  BY NoThreadAssumption DEF MutexInv
<1>2. pc'[u] \notin LockLabel /\ pc'[u] \in Label
  BY <1>1 DEF Frame, TypeInv, TypeOK
<1> QED  BY <1>2 DEF Holding, StoreLabel, LockLabel, Label, ClearLabel

(* A step that writes no record: it may blank entries that are no longer   *)
(* acknowledged, grow the count and the archive, and change the table to   *)
(* one that still covers the entries.                                      *)
LEMMA Quiet ==
  ASSUME TypeInv, TypeInv', MutexInv, StoreInv, NEW t \in Thread, Frame(t),
         lock \in {NoThread, t}, pc[t] \notin StoreLabel, crashes' = crashes,
         cnt' >= cnt, cell' = cell, of' = of, acked' \subseteq acked,
         \A p \in Pos : idx'[p] = idx[p] \/ (idx'[p] = Blank /\ p \notin acked'),
         \A p \in Pos : Live(p) /\ idx'[p] = idx[p] /\ SlotCovers(p) => SlotCovers(p)',
         Holding(t)'
  PROVE  StoreInv'
<1>a. cnt \in Int /\ cnt' \in Int /\ acked \subseteq Pos
  BY BoundAssumption DEF TypeInv, TypeOK
<1>b. \A p \in Pos : p \in Int  BY BoundAssumption DEF Pos
<1>c. \A p \in Pos : ~Unfinished(p) /\ ~ResetPending(p)  BY NothingPending
<1>1. Counted'
  BY <1>a, <1>b DEF StoreInv, Counted
<1>2. \A u \in Thread : Holding(u)'  BY OthersHold
<1>3. \A p \in Pos : Live(p)' => Live(p) /\ idx'[p] = idx[p]
  BY DEF StoreInv, Counted, Live
<1>4. crashes = 0 => TableSound'
  BY <1>c, <1>3 DEF StoreInv, TableSound
<1>5. crashes = 0 => Extents'
  BY <1>c DEF StoreInv, Extents, Below, Apart
<1>6. ASSUME NEW p \in acked', crashes = 0
      PROVE  Live(p)' /\ CrcOk(idx[p])'
  <2>1. p \in acked /\ p \in Pos /\ idx'[p] = idx[p]  BY <1>a, <1>6
  <2>2. Live(p) /\ CrcOk(idx[p])  BY <2>1, <1>6 DEF StoreInv, AckedReadable
  <2>3. Live(p)'  BY <2>1, <2>2, <1>a, <1>b DEF Live
  <2>4. CrcOk(idx[p])'  BY <2>1, <2>2 DEF CrcOk
  <2> QED  BY <2>3, <2>4
<1> QED  BY <1>1, <1>2, <1>4, <1>5, <1>6 DEF StoreInv, AckedReadable

(* Resetting a bucket uncovers no entry.                                   *)
LEMMA ResetCovers ==
  ASSUME TypeInv, NEW h \in Hash, tab' = TableReset(h),
         NEW p \in Pos, Live(p), idx'[p] = idx[p], SlotCovers(p)
  PROVE  SlotCovers(p)'
<1>1. idx[p] \in IdxRec  BY DEF Live, TypeInv, TypeOK
<1>2. bc_table_hash[idx[p].hash] \in Bucket /\ bc_table_hash[h] \in Bucket
  BY <1>1, HashAssumption DEF IdxRec
<1> QED  BY <1>2 DEF TypeInv, TypeOK, TableReset, SlotCovers

(* The checksum of an entry whose bytes lie apart from the bytes copied.   *)
LEMMA CopyApart ==
  ASSUME TypeInv, NEW rec \in IdxRec, rec.size = Size[rec.crc],
         cell' = [cell EXCEPT ![rec.jrnl] = Stored(@, rec.of, rec.crc)],
         NEW r \in IdxRec, CrcOk(r), Apart(r, rec)
  PROVE  CrcOk(r)'
<1>1. /\ rec.jrnl \in Journal /\ rec.of \in Nat /\ rec.size \in Nat
      /\ r.jrnl \in Journal /\ r.of \in Nat /\ r.size \in Nat
      /\ MaxOf \in Nat /\ cell \in [Journal -> [0 .. MaxOf - 1 -> (Data \X Nat) \cup {Blank}]]
  BY BoundAssumption DEF IdxRec, TypeInv, TypeOK
<1>2. ASSUME NEW k \in 0 .. r.size - 1
      PROVE  cell'[r.jrnl][r.of + k] = cell[r.jrnl][r.of + k]
  <2>1. CASE r.jrnl # rec.jrnl  BY <2>1, <1>1
  <2>2. CASE r.jrnl = rec.jrnl
    <3>1. r.of + r.size <= rec.of \/ rec.of + rec.size <= r.of
      BY <2>2 DEF Apart
    <3>a. /\ rec.of \in Int /\ rec.size \in Int /\ r.of \in Nat
          /\ r.size \in Int /\ MaxOf \in Int
      BY <1>1
    <3>2. r.of + k \in 0 .. MaxOf - 1
      <4>1. r.of + r.size <= MaxOf  BY DEF CrcOk
      <4> QED  BY <3>a, <4>1
    <3>3. ~(rec.of <= r.of + k /\ r.of + k < rec.of + rec.size)
      BY <3>1, <3>a
    <3>4. cell'[r.jrnl] = Stored(cell[r.jrnl], rec.of, rec.crc)
      BY <2>2, <1>1
    <3> QED  BY <3>2, <3>3, <3>4 DEF Stored
  <2> QED  BY <2>1, <2>2
<1> QED  BY <1>2 DEF CrcOk

(* The checksum of the record that was copied.                             *)
LEMMA CopyReads ==
  ASSUME TypeInv, NEW rec \in IdxRec, rec.size = Size[rec.crc], Fits(rec),
         cell' = [cell EXCEPT ![rec.jrnl] = Stored(@, rec.of, rec.crc)]
  PROVE  CrcOk(rec)'
<1>1. /\ rec.jrnl \in Journal /\ rec.of \in Nat /\ rec.size \in Nat
      /\ MaxOf \in Nat /\ cell \in [Journal -> [0 .. MaxOf - 1 -> (Data \X Nat) \cup {Blank}]]
  BY BoundAssumption DEF IdxRec, TypeInv, TypeOK
<1>2. cell'[rec.jrnl] = Stored(cell[rec.jrnl], rec.of, rec.crc)  BY <1>1
<1>3. ASSUME NEW k \in 0 .. rec.size - 1
      PROVE  cell'[rec.jrnl][rec.of + k] = <<rec.crc, k>>
  <2>1. rec.of + k \in 0 .. MaxOf - 1 /\ rec.of <= rec.of + k
        /\ rec.of + k < rec.of + rec.size /\ (rec.of + k) - rec.of = k
    BY <1>1 DEF Fits
  <2> QED  BY <1>2, <2>1 DEF Stored
<1> QED  BY <1>3 DEF CrcOk, Fits

(* Labels at which a call holds nothing between its stores.                *)
FreeLabel == {"idle", "undo_tab", "clear_next", "clear_set", "clear_idx",
              "purge_next", "aw_of", "aw_arch"}

(* Steps that leave the index, the journals and the table as they are ...  *)
LEMMA QuietFiles ==
  ASSUME TypeInv, TypeInv', MutexInv, StoreInv, NEW t \in Thread, Frame(t),
         lock \in {NoThread, t}, pc[t] \notin StoreLabel, Holding(t)',
         UNCHANGED <<idx, cnt, tab, cell, of, acked, crashes>>
  PROVE  StoreInv'
<1>1. cnt' >= cnt  BY BoundAssumption DEF TypeInv, TypeOK
<1>2. \A p \in Pos : Live(p) /\ idx'[p] = idx[p] /\ SlotCovers(p) => SlotCovers(p)'
  BY DEF SlotCovers
<1>3. \A p \in Pos : idx'[p] = idx[p] \/ (idx'[p] = Blank /\ p \notin acked')
  OBVIOUS
<1>4. acked' = acked /\ crashes' = crashes /\ cell' = cell /\ of' = of
  OBVIOUS
<1>5. acked' \subseteq acked  BY <1>4
<1> QED  BY <1>1, <1>2, <1>3, <1>4, <1>5, Quiet

(* ... or reset one bucket of the table.                                   *)
LEMMA QuietReset ==
  ASSUME TypeInv, TypeInv', MutexInv, StoreInv, NEW t \in Thread, Frame(t),
         lock \in {NoThread, t}, pc[t] \notin StoreLabel, Holding(t)',
         NEW h \in Hash, tab' = TableReset(h),
         UNCHANGED <<idx, cnt, cell, of, acked, crashes>>
  PROVE  StoreInv'
<1>1. cnt' >= cnt  BY BoundAssumption DEF TypeInv, TypeOK
<1>2. \A p \in Pos : Live(p) /\ idx'[p] = idx[p] /\ SlotCovers(p) => SlotCovers(p)'
  BY ResetCovers
<1>3. \A p \in Pos : idx'[p] = idx[p] \/ (idx'[p] = Blank /\ p \notin acked')
  OBVIOUS
<1>4. acked' = acked /\ crashes' = crashes /\ cell' = cell /\ of' = of
  OBVIOUS
<1>5. acked' \subseteq acked  BY <1>4
<1> QED  BY <1>1, <1>2, <1>3, <1>4, <1>5, Quiet

(* The entry is stored: it starts where the journal ends, so it overlaps   *)
(* no other, and its bucket is about to be reset.                          *)
LEMMA StoreIdxSet ==
  ASSUME TypeInv, TypeInv', MutexInv, MutexInv', StoreInv, NEW t \in Thread,
         Frame(t), lock = t, bc_idx_set(t), pc'[t] # "idle"
  PROVE  StoreInv'
<1> DEFINE rec == loc[t].rec
           pos == loc[t].pos
<1>1. /\ pc[t] = "idx_set" /\ pos \in Pos /\ Goto(t, "table_reset")
      /\ idx' = [idx EXCEPT ![pos] = rec] /\ cnt' = Max({cnt, pos + 1})
      /\ acked' = acked \ {pos}
      /\ UNCHANGED <<tab, arch, cell, of, lock, loc, ret, crashes>>
  BY DEF bc_idx_set, Return, Goto, TypeInv, TypeOK
<1>2. /\ pc'[t] = "table_reset" /\ loc'[t] = loc[t] /\ lock' = t
      /\ rec \in IdxRec /\ rec # Blank /\ rec.of = of[rec.jrnl]
      /\ rec.hash = loc[t].hash
  BY <1>1, BlankAssumption
  DEF Goto, TypeInv, TypeOK, CallTyped, WriteLabel, StoreInv, Holding
<1>3. cnt \in Int /\ cnt' \in Int /\ pos \in Int /\ cnt' >= cnt /\ cnt' > pos
  <2>1. cnt \in Int /\ pos \in Int /\ pos + 1 \in Int
    BY <1>1, BoundAssumption DEF TypeInv, TypeOK, Pos
  <2>2. Max({cnt, pos + 1}) \in Int /\ Max({cnt, pos + 1}) >= cnt
        /\ Max({cnt, pos + 1}) >= pos + 1
    BY <2>1, MaxPair
  <2> QED  BY <1>1, <2>1, <2>2
<1>4. \A p \in Pos : ~Unfinished(p) /\ ~ResetPending(p)
  BY <1>1, NothingPending, lock \in {NoThread, t} DEF StoreLabel
<1>5. idx'[pos] = rec /\ \A p \in Pos \ {pos} : idx'[p] = idx[p]
  BY <1>1 DEF TypeInv, TypeOK
<1>6. \A p \in Pos : p = pos => Unfinished(p)' /\ ResetPending(p)'
  BY <1>2 DEF Unfinished, ResetPending, StoreLabel
<1> HIDE DEF rec, pos
<1>7. Counted'
  BY <1>3, <1>5, BoundAssumption DEF StoreInv, Counted, Pos
<1>8. Holding(t)'
  BY <1>1, <1>2, <1>5 DEF Holding, StoreLabel, rec, pos
<1>9. crashes = 0 => TableSound'
  <2> SUFFICES ASSUME crashes = 0, NEW p \in Pos, Live(p)'
               PROVE  SlotCovers(p)' \/ ResetPending(p)'
    BY DEF TableSound
  <2>1. CASE p = pos  BY <1>6, <2>1
  <2>2. CASE p # pos
    <3>1. idx'[p] = idx[p] /\ Live(p)
      BY <1>5, <2>2 DEF Live, StoreInv, Counted
    <3>2. SlotCovers(p)  BY <1>4, <3>1 DEF StoreInv, TableSound
    <3> QED  BY <1>1, <3>1, <3>2 DEF SlotCovers
  <2> QED  BY <2>1, <2>2
<1>10. crashes = 0 => Extents'
  <2> SUFFICES ASSUME crashes = 0 PROVE Extents'  OBVIOUS
  <2>1. \A p \in Pos : idx[p] # Blank => Below(p)
    BY <1>4 DEF StoreInv, Extents
  <2>2. \A p \in Pos : idx'[p] # Blank => Below(p)' \/ Unfinished(p)'
    BY <1>1, <1>5, <1>6, <2>1 DEF Below
  <2>3. ASSUME NEW p \in Pos \ {pos}, idx[p] # Blank
        PROVE  Apart(rec, idx[p]) /\ Apart(idx[p], rec)
    <3>1. idx[p].of + idx[p].size <= of[idx[p].jrnl]  BY <2>1, <2>3 DEF Below
    <3> QED  BY <1>2, <3>1 DEF Apart
  <2>4. \A p, q \in Pos :
          idx'[p] # Blank /\ idx'[q] # Blank /\ p # q => Apart(idx'[p], idx'[q])
    BY <1>5, <2>3 DEF StoreInv, Extents
  <2> QED  BY <2>2, <2>4 DEF Extents, Apart
<1>11. crashes = 0 => AckedReadable'
  <2>1. acked \subseteq Pos  BY DEF TypeInv, TypeOK
  <2>2. \A p \in Pos : p \in Int  BY BoundAssumption DEF Pos
  <2>3. ASSUME NEW p \in acked', crashes = 0
        PROVE  Live(p)' /\ CrcOk(idx[p])' /\ idx'[p] = idx[p]
    <3>1. p \in acked /\ p \in Pos \ {pos} /\ idx'[p] = idx[p]
      BY <1>1, <1>5, <2>1, <2>3
    <3>2. Live(p) /\ CrcOk(idx[p])
      BY <3>1, <2>3 DEF StoreInv, AckedReadable
    <3>3. Live(p)'  BY <1>3, <2>2, <3>1, <3>2 DEF Live
    <3>4. CrcOk(idx[p])'
      <4>1. cell' = cell  BY <1>1
      <4> QED  BY <3>1, <3>2, <4>1 DEF CrcOk
    <3> QED  BY <3>1, <3>3, <3>4
  <2> QED  BY <2>3 DEF AckedReadable
<1>12. \A u \in Thread : Holding(u)'
  BY <1>8, OthersHold
<1> QED
  BY <1>1, <1>7, <1>9, <1>10, <1>11, <1>12 DEF StoreInv

(* A call in the middle of a write: its entry is the only unfinished one.  *)
LEMMA OneUnfinished ==
  ASSUME NEW t \in Thread, lock = t, NEW p, p # loc[t].pos
  PROVE  ~Unfinished(p) /\ ~ResetPending(p)
BY DEF Unfinished, ResetPending

(* The bucket of the new entry is reset.                                   *)
LEMMA StoreTable ==
  ASSUME TypeInv, TypeInv', MutexInv, MutexInv', StoreInv, NEW t \in Thread,
         Frame(t), lock = t, bc_idx_set_table(t)
  PROVE  StoreInv'
<1> DEFINE rec == loc[t].rec
           pos == loc[t].pos
<1>1. /\ pc[t] = "table_reset" /\ tab' = TableReset(loc[t].hash)
      /\ pc'[t] = "append"
      /\ UNCHANGED <<idx, cnt, arch, cell, of, lock, loc, ret, crashes, acked>>
  BY DEF bc_idx_set_table, Goto, TypeInv, TypeOK
<1>2. /\ pos \in Pos /\ loc[t].hash \in Hash
      /\ idx[pos] = rec /\ rec.hash = loc[t].hash /\ pos \notin acked
  BY <1>1 DEF TypeInv, CallTyped, WriteLabel, StoreInv, Holding, StoreLabel
<1>3. Holding(t)'
  BY <1>1, <1>2 DEF Holding, StoreLabel
<1>4. \A p \in Pos : Unfinished(p) => Unfinished(p)'
  BY <1>1, NoThreadAssumption DEF Unfinished, StoreLabel
<1>5. crashes = 0 => TableSound'
  <2> SUFFICES ASSUME crashes = 0, NEW p \in Pos, Live(p)'
               PROVE  SlotCovers(p)'
    BY DEF TableSound
  <2>1. Live(p) /\ idx'[p] = idx[p]  BY <1>1 DEF Live
  <2>2. CASE p = pos
    <3>1. bc_table_hash[idx[p].hash] = bc_table_hash[loc[t].hash]
      BY <1>2, <2>2
    <3>2. tab'[bc_table_hash[loc[t].hash]] = BC_TABLE_SEARCH_POS
      BY <1>1, <1>2, HashAssumption DEF TableReset, TypeInv, TypeOK
    <3> QED  BY <1>1, <3>1, <3>2 DEF SlotCovers
  <2>3. CASE p # pos
    <3>1. SlotCovers(p)
      BY <2>1, <2>3, OneUnfinished DEF StoreInv, TableSound
    <3> QED  BY <1>1, <1>2, <2>1, <3>1, ResetCovers
  <2> QED  BY <2>2, <2>3
<1>6. crashes = 0 => Extents'
  BY <1>1, <1>4 DEF StoreInv, Extents, Below, Apart
<1>7. crashes = 0 => AckedReadable'
  BY <1>1 DEF StoreInv, AckedReadable, Live, CrcOk
<1>8. Counted' /\ \A u \in Thread : Holding(u)'
  BY <1>1, <1>3, OthersHold DEF StoreInv, Counted
<1> QED  BY <1>1, <1>5, <1>6, <1>7, <1>8 DEF StoreInv

(* The record is copied into the room of its entry, which no acknowledged  *)
(* record shares.                                                          *)
LEMMA StoreData ==
  ASSUME TypeInv, TypeInv', MutexInv, MutexInv', StoreInv, NEW t \in Thread,
         Frame(t), lock = t, bc_write_data(t)
  PROVE  StoreInv'
<1> DEFINE rec == loc[t].rec
           pos == loc[t].pos
<1>1. /\ pc[t] = "append" /\ pc'[t] \in {"append_of", "undo_idx"}
      /\ UNCHANGED <<idx, cnt, tab, arch, of, lock, loc, ret, crashes, acked>>
  BY DEF bc_write_data, Goto, TypeInv, TypeOK
<1>2. /\ pos \in Pos /\ rec \in IdxRec /\ rec.size = Size[rec.crc]
      /\ idx[pos] = rec /\ rec # Blank /\ pos \notin acked
  BY <1>1, BlankAssumption
  DEF TypeInv, CallTyped, WriteLabel, StoreInv, Holding, StoreLabel
<1>3. \/ cell' = cell /\ pc'[t] = "undo_idx"
      \/ Fits(rec) /\ cell' = [cell EXCEPT ![rec.jrnl] = Stored(@, rec.of, rec.crc)]
  BY DEF bc_write_data, Goto, TypeInv, TypeOK
<1>4. \A p \in Pos : Unfinished(p) => Unfinished(p)'
  BY <1>1, NoThreadAssumption DEF Unfinished, StoreLabel
<1>5. Holding(t)'
  <2>1. PICK s \in IdxRec : s = rec  BY <1>2
  <2>2. loc'[t].rec = rec /\ loc'[t].pos = pos  BY <1>1
  <2>3. pc'[t] = "append_of" => CrcOk(loc[t].rec)'
    <3>1. pc'[t] = "append_of" => CrcOk(s)'
      BY <1>2, <1>3, <2>1, CopyReads
    <3> QED  BY <2>1, <2>2, <3>1 DEF CrcOk
  <2> QED  BY <1>1, <1>2, <2>2, <2>3 DEF Holding, StoreLabel
<1>6. crashes = 0 => TableSound'
  <2> SUFFICES ASSUME crashes = 0, NEW p \in Pos, Live(p)'
               PROVE  SlotCovers(p)'
    BY DEF TableSound
  <2>1. Live(p)  BY <1>1 DEF Live
  <2>2. ~ResetPending(p)  BY <1>1, NoThreadAssumption DEF ResetPending
  <2>3. SlotCovers(p)  BY <2>1, <2>2 DEF StoreInv, TableSound
  <2> QED  BY <1>1, <2>3 DEF SlotCovers
<1>7. crashes = 0 => Extents'
  BY <1>1, <1>4 DEF StoreInv, Extents, Below, Apart
<1>8. ASSUME crashes = 0, NEW p \in acked'
      PROVE  Live(p)' /\ CrcOk(idx[p])'
  <2>1. p \in acked /\ p \in Pos /\ p # pos /\ idx'[p] = idx[p]
    BY <1>1, <1>2, <1>8 DEF TypeInv, TypeOK
  <2>2. Live(p) /\ CrcOk(idx[p]) /\ idx[p] \in IdxRec
    BY <2>1, <1>8 DEF StoreInv, AckedReadable, Live, TypeInv, TypeOK
  <2>3. Live(p)'  BY <1>1, <2>2 DEF Live
  <2>4. Apart(idx[p], rec)
    BY <1>2, <1>8, <2>1, <2>2 DEF StoreInv, Extents, Live
  <2>5. CASE cell' = cell  BY <1>1, <2>2, <2>3, <2>5 DEF CrcOk
  <2>6. CASE cell' = [cell EXCEPT ![rec.jrnl] = Stored(@, rec.of, rec.crc)]
    <3>1. \A s \in IdxRec : CrcOk(s) /\ Apart(s, rec) => CrcOk(s)'
      BY <1>2, <2>6, CopyApart
    <3>2. PICK s \in IdxRec : s = idx[p]  BY <2>2
    <3>3. CrcOk(s)'  BY <3>1, <3>2, <2>2, <2>4
    <3> QED  BY <2>1, <2>3, <3>2, <3>3 DEF CrcOk
  <2> QED  BY <1>3, <2>5, <2>6
<1>9. Counted' /\ \A u \in Thread : Holding(u)'
  BY <1>1, <1>5, OthersHold DEF StoreInv, Counted
<1> QED  BY <1>1, <1>6, <1>7, <1>8, <1>9 DEF StoreInv, AckedReadable

(* The journal's offset moves past the record: the write is complete.      *)
LEMMA StoreOf ==
  ASSUME TypeInv, TypeInv', MutexInv, MutexInv', StoreInv, NEW t \in Thread,
         Frame(t), lock = t, bc_write_of(t)
  PROVE  StoreInv'
<1> DEFINE rec == loc[t].rec
           pos == loc[t].pos
<1>1. /\ pc[t] = "append_of" /\ pc'[t] = "idle"
      /\ of' = [of EXCEPT ![rec.jrnl] = Max({@, rec.of + rec.size})]
      /\ acked' = acked \cup {pos}
      /\ UNCHANGED <<idx, cnt, tab, arch, cell, crashes>>
  BY DEF bc_write_of, Return, Goto, TypeInv, TypeOK
<1>2. /\ pos \in Pos /\ pos < cnt /\ rec \in IdxRec
      /\ idx[pos] = rec /\ rec # Blank /\ CrcOk(rec)
  BY <1>1, BlankAssumption
  DEF TypeInv, CallTyped, WriteLabel, StoreInv, Holding, StoreLabel
<1>3. /\ rec.of + rec.size <= of'[rec.jrnl]
      /\ \A j \in Journal : of[j] <= of'[j] /\ of[j] \in Int /\ of'[j] \in Int
  <2>1. of \in [Journal -> 0 .. MaxOf] /\ of' \in [Journal -> 0 .. MaxOf]
        /\ MaxOf \in Nat
    BY BoundAssumption DEF TypeInv, TypeOK
  <2>2. rec.jrnl \in Journal /\ of[rec.jrnl] \in Int /\ rec.of + rec.size \in Int
    BY <1>2, <2>1 DEF IdxRec
  <2>3. Max({of[rec.jrnl], rec.of + rec.size}) >= of[rec.jrnl]
        /\ Max({of[rec.jrnl], rec.of + rec.size}) >= rec.of + rec.size
    BY <2>2, MaxPair
  <2> QED  BY <1>1, <2>1, <2>2, <2>3
<1>4. Holding(t)'
  BY <1>1 DEF Holding, StoreLabel
<1>5. crashes = 0 => TableSound'
  <2> SUFFICES ASSUME crashes = 0, NEW p \in Pos, Live(p)'
               PROVE  SlotCovers(p)'
    BY DEF TableSound
  <2>1. Live(p)  BY <1>1 DEF Live
  <2>2. ~ResetPending(p)  BY <1>1, NoThreadAssumption DEF ResetPending
  <2>3. SlotCovers(p)  BY <2>1, <2>2 DEF StoreInv, TableSound
  <2> QED  BY <1>1, <2>3 DEF SlotCovers
<1>6. crashes = 0 => Extents'
  <2> SUFFICES ASSUME crashes = 0 PROVE Extents'  OBVIOUS
  <2>1. ASSUME NEW p \in Pos, idx[p] # Blank PROVE Below(p)'
    <3>1. CASE p = pos  BY <1>1, <1>2, <1>3, <3>1 DEF Below
    <3>2. CASE p # pos
      <4>1. Below(p)  BY <2>1, <3>2, OneUnfinished DEF StoreInv, Extents
      <4>2. idx[p] \in IdxRec  BY <2>1 DEF TypeInv, TypeOK
      <4>3. idx[p].jrnl \in Journal /\ idx[p].of + idx[p].size \in Int
        BY <4>2 DEF IdxRec
      <4>4. idx[p].of + idx[p].size <= of[idx[p].jrnl]  BY <4>1 DEF Below
      <4>5. idx[p].of + idx[p].size <= of'[idx[p].jrnl]  BY <1>3, <4>3, <4>4
      <4> QED  BY <1>1, <4>5 DEF Below
    <3> QED  BY <3>1, <3>2
  <2> QED  BY <1>1, <2>1 DEF StoreInv, Extents, Apart
<1>7. ASSUME crashes = 0, NEW p \in acked'
      PROVE  Live(p)' /\ CrcOk(idx[p])'
  <2>1. CASE p = pos  BY <1>1, <1>2, <2>1 DEF Live, CrcOk
  <2>2. CASE p # pos
    BY <1>1, <1>7, <2>2 DEF StoreInv, AckedReadable, Live, CrcOk
  <2> QED  BY <2>1, <2>2
<1>8. Counted' /\ \A u \in Thread : Holding(u)'
  BY <1>1, <1>4, OthersHold DEF StoreInv, Counted
<1> QED  BY <1>1, <1>5, <1>6, <1>7, <1>8 DEF StoreInv, AckedReadable

(* The entry is replaced by one for the same room or a part of it.         *)
LEMMA StoreRewrite ==
  ASSUME TypeInv, TypeInv', MutexInv, MutexInv', StoreInv, NEW t \in Thread,
         Frame(t), lock = t, bc_rewrite(t), pc'[t] # "idle"
  PROVE  StoreInv'
<1> DEFINE rec == loc[t].rec
           pos == loc[t].pos
<1>1. /\ pc[t] = "rw_idx" /\ pc'[t] = "append"
      /\ idx' = [idx EXCEPT ![pos] = rec] /\ acked' = acked \ {pos}
      /\ UNCHANGED <<cnt, tab, arch, cell, of, lock, loc, crashes>>
  BY DEF bc_rewrite, Return, Goto, TypeInv, TypeOK
<1>2. /\ pos \in Pos /\ pos < cnt /\ rec \in IdxRec /\ idx[pos] # Blank
      /\ rec.jrnl = idx[pos].jrnl /\ rec.of = idx[pos].of
      /\ rec.hash = idx[pos].hash /\ rec.size <= idx[pos].size
  BY <1>1 DEF TypeInv, CallTyped, WriteLabel, StoreInv, Holding
<1>3. /\ rec.of \in Int /\ rec.size \in Int
      /\ \A p \in Pos : idx[p] # Blank => idx[p].of \in Int /\ idx[p].size \in Int
      /\ \A j \in Journal : of[j] \in Int
      /\ \A p \in Pos : idx[p] # Blank => idx[p].jrnl \in Journal
  <2>1. \A r \in IdxRec : r.of \in Int /\ r.size \in Int /\ r.jrnl \in Journal
    BY DEF IdxRec
  <2>2. \A p \in Pos : idx[p] # Blank => idx[p] \in IdxRec
    BY DEF TypeInv, TypeOK
  <2>3. \A j \in Journal : of[j] \in Int
    BY BoundAssumption DEF TypeInv, TypeOK
  <2> QED  BY <1>2, <2>1, <2>2, <2>3
<1>4. \A p \in Pos : ~Unfinished(p) /\ ~ResetPending(p)
  BY <1>1, NothingPending, lock \in {NoThread, t} DEF StoreLabel
<1>5. idx'[pos] = rec /\ \A p \in Pos \ {pos} : idx'[p] = idx[p]
  BY <1>1, <1>2 DEF TypeInv, TypeOK
<1>6. Holding(t)'
  BY <1>1, <1>5 DEF Holding, StoreLabel
<1> HIDE DEF rec, pos
<1>7. \A p \in Pos : idx'[p] # Blank => idx[p] # Blank /\ idx'[p].hash = idx[p].hash
  BY <1>2, <1>5
<1>8. Counted'
  BY <1>1, <1>7 DEF StoreInv, Counted
<1>9. crashes = 0 => TableSound'
  BY <1>1, <1>4, <1>7 DEF StoreInv, TableSound, Live, SlotCovers
<1>10. crashes = 0 => Extents'
  <2> SUFFICES ASSUME crashes = 0 PROVE Extents'  OBVIOUS
  <2>1. \A p \in Pos : idx[p] # Blank => idx[p].of + idx[p].size <= of[idx[p].jrnl]
    BY <1>4 DEF StoreInv, Extents, Below
  <2>2. \A p \in Pos : idx'[p] # Blank => idx'[p].of + idx'[p].size <= of[idx'[p].jrnl]
    BY <1>2, <1>3, <1>5, <2>1
  <2>3. ASSUME NEW p \in Pos, NEW q \in Pos, idx'[p] # Blank, idx'[q] # Blank, p # q
        PROVE  Apart(idx'[p], idx'[q])
    <3>1. Apart(idx[p], idx[q]) /\ idx[p] # Blank /\ idx[q] # Blank
      BY <1>7, <2>3 DEF StoreInv, Extents
    <3>2. /\ idx'[p].jrnl = idx[p].jrnl /\ idx'[p].of = idx[p].of
          /\ idx'[p].size <= idx[p].size /\ idx'[p].size \in Int
          /\ idx'[q].jrnl = idx[q].jrnl /\ idx'[q].of = idx[q].of
          /\ idx'[q].size <= idx[q].size /\ idx'[q].size \in Int
      BY <1>2, <1>3, <1>5, <3>1
    <3> QED  BY <1>3, <3>1, <3>2 DEF Apart
  <2> QED  BY <1>1, <2>2, <2>3 DEF Extents, Below, Apart
<1>11. ASSUME NEW p \in acked', crashes = 0
       PROVE  Live(p)' /\ CrcOk(idx[p])'
  <2>1. p \in acked /\ p \in Pos \ {pos} /\ idx'[p] = idx[p]
    BY <1>1, <1>5, <1>11 DEF TypeInv, TypeOK
  <2>2. Live(p) /\ CrcOk(idx[p])
    BY <2>1, <1>11 DEF StoreInv, AckedReadable
  <2> QED  BY <1>1, <2>1, <2>2 DEF Live, CrcOk
<1>12. \A u \in Thread : Holding(u)'
  BY <1>6, OthersHold
<1> QED
  BY <1>1, <1>8, <1>9, <1>10, <1>11, <1>12 DEF StoreInv, AckedReadable

(* The entry of a write that failed is blanked; it was not acknowledged.   *)
LEMMA StoreUndo ==
  ASSUME TypeInv, TypeInv', MutexInv, MutexInv', StoreInv, NEW t \in Thread,
         Frame(t), lock = t, bc_write_undo(t)
  PROVE  StoreInv'
<1> DEFINE pos == loc[t].pos
<1>1. /\ pc[t] = "undo_idx" /\ pc'[t] = "undo_tab"
      /\ idx' = [idx EXCEPT ![pos] = Blank]
      /\ UNCHANGED <<cnt, tab, arch, cell, of, lock, loc, crashes, acked>>
  BY DEF bc_write_undo, Goto, TypeInv, TypeOK
<1>2. pos \in Pos /\ pos \notin acked
  BY <1>1 DEF TypeInv, CallTyped, WriteLabel, StoreInv, Holding, StoreLabel
<1>3. idx'[pos] = Blank /\ \A p \in Pos \ {pos} : idx'[p] = idx[p]
  BY <1>1, <1>2 DEF TypeInv, TypeOK
<1>4. \A p \in Pos : p # pos => ~Unfinished(p) /\ ~ResetPending(p)
  BY OneUnfinished
<1>5. Holding(t)'  BY <1>1 DEF Holding, StoreLabel
<1> HIDE DEF pos
<1>6. \A p \in Pos : idx'[p] # Blank => idx'[p] = idx[p] /\ p # pos
  BY <1>3
<1>7. Counted'  BY <1>1, <1>6 DEF StoreInv, Counted
<1>8. crashes = 0 => TableSound'
  BY <1>1, <1>4, <1>6 DEF StoreInv, TableSound, Live, SlotCovers
<1>9. crashes = 0 => Extents'
  BY <1>1, <1>4, <1>6 DEF StoreInv, Extents, Below, Apart
<1>10. ASSUME NEW p \in acked', crashes = 0
       PROVE  Live(p)' /\ CrcOk(idx[p])'
  <2>1. p \in acked /\ p \in Pos /\ idx'[p] = idx[p]
    BY <1>1, <1>2, <1>3, <1>10 DEF TypeInv, TypeOK
  <2>2. Live(p) /\ CrcOk(idx[p])
    BY <2>1, <1>10 DEF StoreInv, AckedReadable
  <2> QED  BY <1>1, <2>1, <2>2 DEF Live, CrcOk
<1>11. \A u \in Thread : Holding(u)'
  BY <1>5, OthersHold
<1> QED
  BY <1>1, <1>7, <1>8, <1>9, <1>10, <1>11 DEF StoreInv, AckedReadable

(* An archived record is copied above the data of every entry ...          *)
LEMMA StoreArchData ==
  ASSUME TypeInv, TypeInv', MutexInv, MutexInv', StoreInv, NEW t \in Thread,
         Frame(t), lock = t, bc_arch_write_data(t), pc'[t] # "idle"
  PROVE  StoreInv'
<1> DEFINE rec == loc[t].rec
<1>1. /\ pc[t] = "aw_data" /\ pc'[t] = "aw_of"
      /\ cell' = [cell EXCEPT ![rec.jrnl] = Stored(@, rec.of, rec.crc)]
      /\ UNCHANGED <<idx, cnt, tab, of, lock, loc, crashes, acked>>
  BY DEF bc_arch_write_data, Return, Goto, TypeInv, TypeOK
<1>2. /\ rec \in IdxRec /\ rec.size = Size[rec.crc] /\ rec.of = of[rec.jrnl]
  BY <1>1 DEF TypeInv, CallTyped, ArchLabel, StoreInv, Holding
<1>3. \A p \in Pos : ~Unfinished(p) /\ ~ResetPending(p)
  BY <1>1, NothingPending, lock \in {NoThread, t} DEF StoreLabel
<1>4. Holding(t)'  BY <1>1 DEF Holding, StoreLabel
<1>5. crashes = 0 => TableSound'
  BY <1>1, <1>3 DEF StoreInv, TableSound, Live, SlotCovers
<1>6. crashes = 0 => Extents'
  BY <1>1, <1>3 DEF StoreInv, Extents, Below, Apart
<1>7. ASSUME NEW p \in acked', crashes = 0
      PROVE  Live(p)' /\ CrcOk(idx[p])'
  <2>1. p \in acked /\ p \in Pos  BY <1>1, <1>7 DEF TypeInv, TypeOK
  <2>2. Live(p) /\ CrcOk(idx[p])
    BY <2>1, <1>7 DEF StoreInv, AckedReadable
  <2>3. PICK s \in IdxRec : s = idx[p]
    BY <2>1, <2>2 DEF Live, TypeInv, TypeOK
  <2>4. Apart(s, rec)
    BY <1>2, <1>3, <1>7, <2>1, <2>2, <2>3
    DEF StoreInv, Extents, Below, Apart, Live
  <2>5. CrcOk(s)'  BY <1>1, <1>2, <2>2, <2>3, <2>4, CopyApart
  <2> QED  BY <1>1, <2>2, <2>3, <2>5 DEF Live, CrcOk
<1>8. Counted' /\ \A u \in Thread : Holding(u)'
  BY <1>1, <1>4, OthersHold DEF StoreInv, Counted
<1> QED  BY <1>1, <1>5, <1>6, <1>7, <1>8 DEF StoreInv, AckedReadable

(* ... and the journal's offset moves past it.                             *)
LEMMA StoreArchOf ==
  ASSUME TypeInv, TypeInv', MutexInv, MutexInv', StoreInv, NEW t \in Thread,
         Frame(t), lock = t, bc_arch_write_of(t)
  PROVE  StoreInv'
<1> DEFINE rec == loc[t].rec
<1>1. /\ pc[t] = "aw_of" /\ pc'[t] = "aw_arch"
      /\ of' = [of EXCEPT ![rec.jrnl] = Max({@, rec.of + rec.size})]
      /\ UNCHANGED <<idx, cnt, tab, cell, lock, loc, crashes, acked>>
  BY DEF bc_arch_write_of, Goto, TypeInv, TypeOK
<1>2. rec \in IdxRec
  BY <1>1 DEF TypeInv, CallTyped, ArchLabel
<1>3. \A j \in Journal : of[j] <= of'[j] /\ of[j] \in Int /\ of'[j] \in Int
  <2>1. of \in [Journal -> 0 .. MaxOf] /\ of' \in [Journal -> 0 .. MaxOf]
        /\ MaxOf \in Nat
    BY BoundAssumption DEF TypeInv, TypeOK
  <2>2. rec.jrnl \in Journal /\ of[rec.jrnl] \in Int /\ rec.of + rec.size \in Int
    BY <1>2, <2>1 DEF IdxRec
  <2>3. Max({of[rec.jrnl], rec.of + rec.size}) >= of[rec.jrnl]
    BY <2>2, MaxPair
  <2> QED  BY <1>1, <2>1, <2>2, <2>3
<1>4. \A p \in Pos : ~Unfinished(p) /\ ~ResetPending(p)
  BY <1>1, NothingPending, lock \in {NoThread, t} DEF StoreLabel
<1>5. Holding(t)'  BY <1>1 DEF Holding, StoreLabel
<1>6. crashes = 0 => TableSound'
  BY <1>1, <1>4 DEF StoreInv, TableSound, Live, SlotCovers
<1>7. crashes = 0 => Extents'
  <2> SUFFICES ASSUME crashes = 0 PROVE Extents'  OBVIOUS
  <2>1. ASSUME NEW p \in Pos, idx[p] # Blank PROVE Below(p)'
    <3>1. idx[p].of + idx[p].size <= of[idx[p].jrnl]
      BY <1>4, <2>1 DEF StoreInv, Extents, Below
    <3>2. idx[p].jrnl \in Journal /\ idx[p].of + idx[p].size \in Int
      BY <2>1 DEF TypeInv, TypeOK, IdxRec
    <3>3. idx[p].of + idx[p].size <= of'[idx[p].jrnl]  BY <1>3, <3>1, <3>2
    <3> QED  BY <1>1, <3>3 DEF Below
  <2> QED  BY <1>1, <2>1 DEF StoreInv, Extents, Apart
<1>8. crashes = 0 => AckedReadable'
  BY <1>1 DEF StoreInv, AckedReadable, Live, CrcOk
<1>9. Counted' /\ \A u \in Thread : Holding(u)'
  BY <1>1, <1>5, OthersHold DEF StoreInv, Counted
<1> QED  BY <1>1, <1>6, <1>7, <1>8, <1>9 DEF StoreInv

(* Every store of a call keeps the invariant.                              *)
LEMMA StoreStep ==
  ASSUME TypeInv, TypeInv', MutexInv, MutexInv', StoreInv, NEW t \in Thread,
         Step(t), lock \in {NoThread, t}
  PROVE  StoreInv'
<1>a. Frame(t)  BY StepFrame
<1>b. pc[t] \in LockLabel \/ loc[t].op = "purge" => lock = t  BY DEF MutexInv
<1>c. ASSUME pc'[t] \in FreeLabel PROVE Holding(t)'
  BY <1>c DEF Holding, FreeLabel, StoreLabel
<1>d. pc \in [Thread -> Label] /\ loc \in [Thread -> Loc] /\ CallTyped(t)
  BY DEF TypeInv, TypeOK
<1>1. CASE bc_idx_set(t)
  <2>1. lock = t  BY <1>1, <1>b DEF bc_idx_set, LockLabel, Label, ClearLabel
  <2>2. CASE pc'[t] # "idle"  BY <1>1, <2>1, <2>2, <1>a, StoreIdxSet
  <2>3. CASE pc'[t] = "idle"
    <3>1. UNCHANGED <<files, crashes, acked>> /\ pc[t] \notin StoreLabel
      BY <1>1, <2>3, <1>d DEF bc_idx_set, Goto, StoreLabel
    <3>2. Holding(t)'  BY <2>3, <1>c DEF FreeLabel
    <3> QED  BY <3>1, <3>2, <1>a, QuietFiles DEF files
  <2> QED  BY <2>2, <2>3
<1>2. CASE bc_idx_set_table(t)
  <2>1. lock = t  BY <1>2, <1>b DEF bc_idx_set_table, LockLabel, Label, ClearLabel
  <2> QED  BY <1>2, <2>1, <1>a, StoreTable
<1>3. CASE bc_write_data(t)
  <2>1. lock = t  BY <1>3, <1>b DEF bc_write_data, LockLabel, Label, ClearLabel
  <2> QED  BY <1>3, <2>1, <1>a, StoreData
<1>4. CASE bc_write_of(t)
  <2>1. lock = t  BY <1>4, <1>b DEF bc_write_of, LockLabel, Label, ClearLabel
  <2> QED  BY <1>4, <2>1, <1>a, StoreOf
<1>5. CASE bc_rewrite(t)
  <2>1. lock = t  BY <1>5, <1>b DEF bc_rewrite, LockLabel, Label, ClearLabel
  <2>2. CASE pc'[t] # "idle"  BY <1>5, <2>1, <2>2, <1>a, StoreRewrite
  <2>3. CASE pc'[t] = "idle"
    <3>1. UNCHANGED <<idx, cnt, tab, cell, of, acked, crashes>>
          /\ pc[t] \notin StoreLabel
      BY <1>5, <2>3, <1>d DEF bc_rewrite, Goto, StoreLabel
    <3>2. Holding(t)'  BY <2>3, <1>c DEF FreeLabel
    <3> QED  BY <3>1, <3>2, <1>a, QuietFiles
  <2> QED  BY <2>2, <2>3
<1>6. CASE bc_write_undo(t)
  <2>1. lock = t  BY <1>6, <1>b DEF bc_write_undo, LockLabel, Label, ClearLabel
  <2> QED  BY <1>6, <2>1, <1>a, StoreUndo
<1>7. CASE bc_write_undo_table(t)
  <2>1. /\ pc[t] = "undo_tab" /\ tab' = TableReset(loc[t].hash) /\ pc'[t] = "idle"
        /\ UNCHANGED <<idx, cnt, cell, of, acked, crashes>>
    BY <1>7, <1>d DEF bc_write_undo_table, Return, Goto
  <2>2. loc[t].hash \in Hash /\ pc[t] \notin StoreLabel
    BY <2>1, <1>d DEF CallTyped, WriteLabel, StoreLabel
  <2>3. Holding(t)'  BY <2>1, <1>c DEF FreeLabel
  <2> QED  BY <2>1, <2>2, <2>3, <1>a, QuietReset
<1>8. CASE bc_arch_next(t)
  <2>1. /\ pc[t] \notin StoreLabel /\ pc'[t] \in FreeLabel
        /\ UNCHANGED <<files, crashes, acked>>
    BY <1>8, <1>d DEF bc_arch_next, Goto, StoreLabel, FreeLabel
  <2>2. Holding(t)'  BY <2>1, <1>c
  <2> QED  BY <2>1, <2>2, <1>a, QuietFiles DEF files
<1>9. CASE bc_arch_set(t)
  <2>1. /\ pc[t] \notin StoreLabel
        /\ UNCHANGED <<idx, cnt, cell, of, acked, crashes>>
        /\ tab' = tab \/ tab' = TableReset(loc[t].rec.hash)
    BY <1>9 DEF bc_arch_set, ClearFails, StoreLabel
  <2>2. pc'[t] \in FreeLabel
    BY <1>9, <1>d DEF bc_arch_set, ClearFails, Return, Goto, FreeLabel
  <2>3. loc[t].rec.hash \in Hash
    BY <1>9, <1>d DEF bc_arch_set, CallTyped, ClearLabel, IdxRec
  <2>4. Holding(t)'  BY <2>2, <1>c
  <2>5. CASE tab' = tab  BY <2>1, <2>4, <2>5, <1>a, QuietFiles
  <2>6. CASE tab' = TableReset(loc[t].rec.hash)
    BY <2>1, <2>3, <2>4, <2>6, <1>a, QuietReset
  <2> QED  BY <2>1, <2>5, <2>6
<1>10. CASE bc_clear_idx(t)
  <2>1. /\ pc[t] \notin StoreLabel
        /\ UNCHANGED <<cnt, cell, of, crashes>>
    BY <1>10 DEF bc_clear_idx, StoreLabel
  <2>2. pc'[t] \in FreeLabel
    BY <1>10, <1>d DEF bc_clear_idx, ClearFails, Return, Goto, FreeLabel
  <2>3. loc[t].rec.hash \in Hash /\ loc[t].pos \in Pos
    BY <1>10, <1>d DEF bc_clear_idx, CallTyped, ClearLabel, IdxRec
  <2>4. Holding(t)'  BY <2>2, <1>c
  <2>5. CASE UNCHANGED <<idx, acked>>
    <3>1. tab' = tab \/ tab' = TableReset(loc[t].rec.hash)
      BY <1>10 DEF bc_clear_idx, ClearFails
    <3>2. CASE tab' = tab  BY <2>1, <2>4, <2>5, <3>2, <1>a, QuietFiles
    <3>3. CASE tab' = TableReset(loc[t].rec.hash)
      BY <2>1, <2>3, <2>4, <2>5, <3>3, <1>a, QuietReset
    <3> QED  BY <3>1, <3>2, <3>3
  <2>6. CASE ~UNCHANGED <<idx, acked>>
    <3>1. /\ idx' = [idx EXCEPT ![loc[t].pos] = Blank]
          /\ acked' = acked \ {loc[t].pos} /\ tab' = tab
      BY <1>10, <2>6 DEF bc_clear_idx
    <3>2. \A p \in Pos : idx'[p] = idx[p] \/ (idx'[p] = Blank /\ p \notin acked')
      BY <2>3, <3>1 DEF TypeInv, TypeOK
    <3>3. \A p \in Pos : Live(p) /\ idx'[p] = idx[p] /\ SlotCovers(p)
                           => SlotCovers(p)'
      BY <3>1 DEF SlotCovers
    <3>4. cnt' >= cnt /\ acked' \subseteq acked
      BY <2>1, <3>1, BoundAssumption DEF TypeInv, TypeOK
    <3> QED  BY <2>1, <2>4, <3>2, <3>3, <3>4, <1>a, Quiet
  <2> QED  BY <2>5, <2>6
<1>11. CASE bc_purge_next(t)
  <2>1. /\ pc[t] \notin StoreLabel /\ UNCHANGED <<files, crashes, acked>>
    BY <1>11 DEF bc_purge_next, StoreLabel
  <2>2. pc'[t] \in FreeLabel
    BY <1>11, <1>d DEF bc_purge_next, Return, Goto, FreeLabel
  <2>3. Holding(t)'  BY <2>2, <1>c
  <2> QED  BY <2>1, <2>3, <1>a, QuietFiles DEF files
<1>12. CASE bc_arch_write_data(t)
  <2>1. lock = t
    BY <1>12, <1>b DEF bc_arch_write_data, LockLabel, Label, ClearLabel
  <2>2. CASE pc'[t] # "idle"  BY <1>12, <2>1, <2>2, <1>a, StoreArchData
  <2>3. CASE pc'[t] = "idle"
    <3>1. UNCHANGED <<idx, cnt, tab, cell, of, acked, crashes>>
          /\ pc[t] \notin StoreLabel
      BY <1>12, <2>3, <1>d DEF bc_arch_write_data, Goto, StoreLabel
    <3>2. Holding(t)'  BY <2>3, <1>c DEF FreeLabel
    <3> QED  BY <3>1, <3>2, <1>a, QuietFiles
  <2> QED  BY <2>2, <2>3
<1>13. CASE bc_arch_write_of(t)
  <2>1. lock = t
    BY <1>13, <1>b DEF bc_arch_write_of, LockLabel, Label, ClearLabel
  <2> QED  BY <1>13, <2>1, <1>a, StoreArchOf
<1>14. CASE bc_arch_write_add(t)
  <2>1. /\ pc[t] \notin StoreLabel /\ pc'[t] \in FreeLabel
        /\ UNCHANGED <<idx, cnt, tab, cell, of, acked, crashes>>
    BY <1>14, <1>d DEF bc_arch_write_add, Return, Goto, StoreLabel, FreeLabel
  <2>2. Holding(t)'  BY <2>1, <1>c
  <2> QED  BY <2>1, <2>2, <1>a, QuietFiles
<1> QED
  BY <1>1, <1>2, <1>3, <1>4, <1>5, <1>6, <1>7, <1>8, <1>9, <1>10, <1>11,
     <1>12, <1>13, <1>14 DEF Step

(* The first step of a write builds the entry from the state it sees.      *)
LEMMA WriteBegins ==
  ASSUME TypeInv, StoreInv, NEW t \in Thread, NEW p \in 0 .. MaxPos,
         NEW h \in Hash, NEW d \in Data, bc_write(t, p, h, d)
  PROVE  /\ UNCHANGED <<files, crashes, acked>>
         /\ pc[t] = "idle"
         /\ Holding(t)'
<1> DEFINE new == [NoLoc EXCEPT !.op = "write", !.pos = p, !.hash = h]
<1>a. pc \in [Thread -> Label] /\ loc \in [Thread -> Loc]
  BY DEF TypeInv, TypeOK
<1>b. UNCHANGED <<files, crashes, acked>> /\ pc[t] = "idle"
  BY DEF bc_write
<1>1. CASE pc'[t] = "idle"
  BY <1>b, <1>1 DEF Holding, StoreLabel
<1>2. CASE Enter(t, "idx_set", [new EXCEPT !.rec = NewRec(p, h, d)])
  <2>1. /\ pc'[t] = "idx_set" /\ loc'[t].rec = NewRec(p, h, d) /\ loc'[t].hash = h
    BY <1>2, <1>a DEF Enter, Goto, NoLoc
  <2>2. of' = of /\ NewRec(p, h, d).hash = h
        /\ NewRec(p, h, d).of = of[NewRec(p, h, d).jrnl]
    BY <1>b DEF files, NewRec
  <2> QED  BY <1>b, <2>1, <2>2 DEF Holding, StoreLabel
<1>3. CASE /\ Live(p) /\ RewriteFits(p, d)
           /\ Enter(t, "rw_idx",
                [new EXCEPT !.rec = [idx[p] EXCEPT !.size = Size[d], !.crc = d]])
  <2> DEFINE q == [idx[p] EXCEPT !.size = Size[d], !.crc = d]
  <2>1. /\ pc'[t] = "rw_idx" /\ loc'[t].rec = q /\ loc'[t].pos = p
    BY <1>3, <1>a DEF Enter, Goto, NoLoc
  <2>2. idx[p] \in IdxRec /\ idx[p] # Blank
    BY <1>3 DEF Live, TypeInv, TypeOK
  <2>3. /\ q.jrnl = idx[p].jrnl /\ q.of = idx[p].of /\ q.hash = idx[p].hash
        /\ q.size = Size[d] /\ Size[d] <= idx[p].size
    BY <1>3, <2>2, SizeAssumption DEF IdxRec, RewriteFits
  <2>4. idx' = idx  BY <1>b DEF files
  <2> HIDE DEF q
  <2> QED  BY <1>b, <2>1, <2>2, <2>3, <2>4 DEF Holding, StoreLabel
<1> QED
  BY <1>1, <1>2, <1>3, <1>a, <1>b DEF bc_write, Return, Goto

(* Every call keeps the invariant with its first step.                     *)
LEMMA StoreCall ==
  ASSUME TypeInv, TypeInv', MutexInv, MutexInv', StoreInv, NEW t \in Thread,
         Call(t), lock \in {NoThread, t}
  PROVE  StoreInv'
<1>a. Frame(t)  BY CallFrame
<1>b. pc \in [Thread -> Label] /\ loc \in [Thread -> Loc] /\ TypeOK
  BY DEF TypeInv, TypeOK
<1>c. ASSUME pc'[t] \in FreeLabel PROVE Holding(t)'
  BY <1>c DEF Holding, FreeLabel, StoreLabel
<1>d. "idle" \notin StoreLabel /\ "idle" \in FreeLabel
  BY DEF StoreLabel, FreeLabel
<1>e. cnt \in 0 .. MaxPos /\ MaxPos \in Nat
  BY <1>b, BoundAssumption DEF TypeOK
<1>1. ASSUME NEW h \in Hash, bc_find(t, h)
      PROVE  StoreInv'
  <2> DEFINE b == bc_table_hash[h]
  <2>1. /\ pc[t] = "idle" /\ pc'[t] = "idle" /\ tab' = bc_idx_find(h).tab
        /\ UNCHANGED <<idx, cnt, cell, of, crashes, acked>>
    BY <1>1 DEF bc_find
  <2>2. /\ \A c \in Bucket \ {b} : tab'[c] = tab[c]
        /\ \/ tab' = tab
           \/ \A p \in Pos : InBucket(p, b) =>
                \/ tab'[b] = BC_TABLE_SEARCH_POS
                \/ tab'[b] # BC_TABLE_NULL_POS /\ tab'[b] >= p
    BY <2>1, <1>b, FindTable
  <2> HIDE DEF b
  <2>3. ASSUME NEW p \in Pos, Live(p), idx'[p] = idx[p], SlotCovers(p)
        PROVE  SlotCovers(p)'
    <3>1. bc_table_hash[idx[p].hash] \in Bucket
      BY <2>3, <1>b, HashAssumption DEF Live, TypeOK, IdxRec
    <3>2. CASE bc_table_hash[idx[p].hash] # b
      BY <2>2, <2>3, <3>1, <3>2 DEF SlotCovers
    <3>3. CASE bc_table_hash[idx[p].hash] = b
      <4>1. InBucket(p, b)  BY <2>3, <3>3 DEF InBucket
      <4> QED  BY <2>2, <2>3, <3>3, <4>1 DEF SlotCovers
    <3> QED  BY <3>2, <3>3
  <2>4. Holding(t)' /\ pc[t] \notin StoreLabel  BY <2>1, <1>c, <1>d
  <2>5. cnt' >= cnt /\ acked' \subseteq acked  BY <2>1, <1>e
  <2>6. \A p \in Pos : idx'[p] = idx[p] \/ (idx'[p] = Blank /\ p \notin acked')
    BY <2>1
  <2> QED  BY <2>1, <2>3, <2>4, <2>5, <2>6, <1>a, Quiet
<1>2. ASSUME NEW h \in Hash, bc_table_reset(t, h)
      PROVE  StoreInv'
  <2>1. /\ pc[t] = "idle" /\ pc'[t] = "idle" /\ tab' = TableReset(h)
        /\ UNCHANGED <<idx, cnt, cell, of, acked, crashes>>
    BY <1>2 DEF bc_table_reset
  <2>2. Holding(t)' /\ pc[t] \notin StoreLabel  BY <2>1, <1>c, <1>d
  <2> QED  BY <2>1, <2>2, <1>a, QuietReset
<1>3. ASSUME NEW h \in Hash, NEW d \in Data, NEW p \in 0 .. MaxPos,
             bc_write(t, p, h, d)
      PROVE  StoreInv'
  <2>1. /\ UNCHANGED <<files, crashes, acked>> /\ pc[t] = "idle" /\ Holding(t)'
    BY <1>3, WriteBegins
  <2>2. UNCHANGED <<idx, cnt, tab, cell, of, acked, crashes>>
    BY <2>1 DEF files
  <2> QED  BY <2>1, <2>2, <1>a, <1>d, QuietFiles
<1>4. ASSUME NEW h \in Hash, NEW d \in Data, bc_arch_write(t, h, d)
      PROVE  StoreInv'
  <2>1. pc[t] = "idle" /\ UNCHANGED <<idx, cnt, tab, cell, of, acked, crashes>>
    BY <1>4 DEF bc_arch_write, files
  <2>2. CASE pc'[t] = "idle"
    BY <2>1, <2>2, <1>a, <1>c, <1>d, QuietFiles
  <2>3. CASE pc'[t] # "idle"
    <3>1. /\ pc'[t] = "aw_data" /\ loc'[t].rec = NewRec(cnt, h, d)
      BY <1>4, <2>3, <1>b DEF bc_arch_write, Enter, Return, Goto, NoLoc
    <3>2. NewRec(cnt, h, d).of = of[NewRec(cnt, h, d).jrnl]  BY DEF NewRec
    <3>3. Holding(t)'  BY <2>1, <3>1, <3>2 DEF Holding, StoreLabel
    <3> QED  BY <2>1, <3>3, <1>a, <1>d, QuietFiles
  <2> QED  BY <2>2, <2>3
<1>5. ASSUME NEW p, bc_clear(t, p) \/ bc_purge(t, p)
      PROVE  StoreInv'
  <2>1. pc[t] = "idle" /\ UNCHANGED <<idx, cnt, tab, cell, of, acked, crashes>>
    BY <1>5 DEF bc_clear, bc_purge, files
  <2>2. pc'[t] \in FreeLabel
    BY <1>5, <1>b DEF bc_clear, bc_purge, Enter, Return, Goto, FreeLabel
  <2> QED  BY <2>1, <2>2, <1>a, <1>c, <1>d, QuietFiles
<1>6. ASSUME NEW p \in Pos, bc_idx_clear(t, p)
      PROVE  StoreInv'
  <2>1. /\ pc[t] = "idle" /\ pc'[t] = "idle"
        /\ idx' = [idx EXCEPT ![p] = Blank] /\ cnt' = Max({cnt, p + 1})
        /\ acked' = acked \ {p}
        /\ UNCHANGED <<tab, cell, of, crashes>>
    BY <1>6 DEF bc_idx_clear
  <2>2. cnt' >= cnt
    <3>1. cnt \in Int /\ p + 1 \in Int  BY <1>e DEF Pos
    <3> QED  BY <2>1, <3>1, MaxPair
  <2>3. \A q \in Pos : idx'[q] = idx[q] \/ (idx'[q] = Blank /\ q \notin acked')
    BY <2>1, <1>b DEF TypeOK
  <2>4. \A q \in Pos : Live(q) /\ idx'[q] = idx[q] /\ SlotCovers(q)
                         => SlotCovers(q)'
    BY <2>1 DEF SlotCovers
  <2>5. Holding(t)' /\ pc[t] \notin StoreLabel /\ acked' \subseteq acked
    BY <2>1, <1>c, <1>d
  <2> QED  BY <2>1, <2>2, <2>3, <2>4, <2>5, <1>a, Quiet
<1>7. ASSUME bc_table_clear(t)
      PROVE  StoreInv'
  <2>1. /\ pc[t] = "idle" /\ pc'[t] = "idle"
        /\ tab' = [b \in Bucket |-> BC_TABLE_SEARCH_POS]
        /\ UNCHANGED <<idx, cnt, cell, of, acked, crashes>>
    BY <1>7 DEF bc_table_clear
  <2>2. Holding(t)' /\ pc[t] \notin StoreLabel  BY <2>1, <1>c, <1>d
  <2>3. ASSUME NEW p \in Pos, Live(p), idx'[p] = idx[p], SlotCovers(p)
        PROVE  SlotCovers(p)'
    <3>1. bc_table_hash[idx[p].hash] \in Bucket
      BY <2>3, <1>b, HashAssumption DEF Live, TypeOK, IdxRec
    <3> QED  BY <2>1, <3>1 DEF SlotCovers
  <2>4. cnt' >= cnt /\ acked' \subseteq acked  BY <2>1, <1>e
  <2>5. \A p \in Pos : idx'[p] = idx[p] \/ (idx'[p] = Blank /\ p \notin acked')
    BY <2>1
  <2> QED  BY <2>1, <2>2, <2>3, <2>4, <2>5, <1>a, Quiet
<1>8. Pos \subseteq 0 .. MaxPos /\ cnt \in 0 .. MaxPos  BY <1>e DEF Pos
<1> QED
  BY <1>1, <1>2, <1>3, <1>4, <1>5, <1>6, <1>7, <1>8 DEF Call, bc_append

(* The invariant holds in every state: of the clauses that a crash may     *)
(* break nothing is claimed after one.                                     *)
LEMMA StoreNext ==
  TypeInv /\ MutexInv /\ StoreInv /\ [Next]_vars => StoreInv'
<1> SUFFICES ASSUME TypeInv, MutexInv, StoreInv, [Next]_vars PROVE StoreInv'
  OBVIOUS
<1>1. TypeInv' /\ MutexInv'  BY TypeNext, MutexNext
<1>2. CASE UNCHANGED vars
  <2>1. Counted' /\ \A t \in Thread : Holding(t)'
    BY <1>2 DEF vars, files, StoreInv, Counted, Holding, CrcOk
  <2>2. crashes = 0 => TableSound'
    BY <1>2 DEF vars, files, StoreInv, TableSound, Live, SlotCovers, ResetPending
  <2>3. crashes = 0 => Extents'
    BY <1>2 DEF vars, files, StoreInv, Extents, Below, Apart, Unfinished
  <2>4. crashes = 0 => AckedReadable'
    BY <1>2 DEF vars, files, StoreInv, AckedReadable, Live, CrcOk
  <2> QED  BY <1>2, <2>1, <2>2, <2>3, <2>4 DEF StoreInv, vars
<1>3. CASE Crash
  <2>1. crashes' # 0
    BY <1>3, BoundAssumption DEF Crash, TypeInv, TypeOK
  <2>2. Counted'  BY <1>3 DEF Crash, files, StoreInv, Counted
  <2>3. \A t \in Thread : Holding(t)'
    BY <1>3 DEF Crash, Holding, StoreLabel
  <2> QED  BY <2>1, <2>2, <2>3 DEF StoreInv
<1>4. ASSUME NEW t \in Thread, Step(t) \/ Call(t) PROVE StoreInv'
  <2>1. lock \in Thread \cup {NoThread}  BY DEF TypeInv, TypeOK
  <2>2. CASE lock \in {NoThread, t}
    BY <1>1, <1>4, <2>2, StoreStep, StoreCall
  <2>3. CASE lock \in Thread \ {t}
    <3>1. crashes' = crashes
      BY <1>4 DEF Step, Call, bc_idx_set, bc_idx_set_table, bc_write_data,
         bc_write_of, bc_rewrite, bc_write_undo, bc_write_undo_table,
         bc_arch_next, bc_arch_set, bc_clear_idx, bc_purge_next,
         bc_arch_write_data, bc_arch_write_of, bc_arch_write_add, bc_find,
         bc_table_reset, bc_append, bc_write, bc_arch_write, bc_clear,
         bc_idx_clear, bc_purge, bc_table_clear
    <3> QED  BY <1>1, <1>4, <2>3, <3>1, StoreWhileHeld
  <2> QED  BY <2>1, <2>2, <2>3
<1> QED  BY <1>2, <1>3, <1>4 DEF Next

LEMMA StoreCorrect == Spec => [](TypeInv /\ MutexInv /\ StoreInv)
<1>1. Init => TypeInv /\ MutexInv /\ StoreInv
  BY TypeInit, MutexInit, StoreInit
<1>2. TypeInv /\ MutexInv /\ StoreInv /\ [Next]_vars
        => (TypeInv /\ MutexInv /\ StoreInv)'
  BY TypeNext, MutexNext, StoreNext
<1> QED  BY <1>1, <1>2, PTL DEF Spec

-----------------------------------------------------------------------------
(* What follows from the invariant.                                        *)

(* The table of a bucket remembers enough for the search to be complete.   *)
LEMMA CoveredFinds ==
  ASSUME TypeOK, NEW h \in Hash,
         \A p \in Pos : Live(p) /\ idx[p].hash = h => SlotCovers(p)
  PROVE  bc_idx_find(h).pos = HighestOf(h)
<1> DEFINE b == bc_table_hash[h]
           known == tab[b] # BC_TABLE_SEARCH_POS /\ tab[b] <= cnt - 1
           start == IF known THEN tab[b] ELSE cnt - 1
           match == {i \in 0 .. start : idx[i] # Blank /\ idx[i].hash = h}
           found == IF match = {} THEN -1 ELSE Max(match)
           S == {p \in Pos : Live(p) /\ idx[p].hash = h}
<1>1. /\ tab[b] \in Pos \cup {BC_TABLE_NULL_POS} /\ cnt \in 0 .. MaxPos
      /\ MaxPos \in Nat \ {0} /\ Pos = 0 .. MaxPos - 1
      /\ BC_TABLE_NULL_POS = MaxPos + 1 /\ BC_TABLE_SEARCH_POS = 0
  BY HashAssumption, BoundAssumption
  DEF TypeOK, BC_TABLE_NULL_POS, BC_TABLE_SEARCH_POS, Pos
<1>2. \A p \in S : /\ p \in Pos /\ p < cnt /\ idx[p] # Blank /\ idx[p].hash = h
                   /\ tab[b] = BC_TABLE_SEARCH_POS
                      \/ (tab[b] # BC_TABLE_NULL_POS /\ tab[b] >= p)
  BY DEF SlotCovers, Live
<1>3. HighestOf(h) = IF S = {} THEN -1 ELSE Max(S)  BY DEF HighestOf
<1>4. CASE tab[b] = BC_TABLE_NULL_POS
  <2>1. S = {}  BY <1>1, <1>2, <1>4
  <2>2. bc_idx_find(h).pos = -1  BY <1>4 DEF bc_idx_find
  <2> QED  BY <1>3, <2>1, <2>2
<1>5. CASE tab[b] # BC_TABLE_NULL_POS
  <2>1. bc_idx_find(h).pos = found  BY <1>5 DEF bc_idx_find
  <2>2. start \in Int /\ start <= cnt - 1  BY <1>1, <1>5
  <2>3. match \subseteq S
    <3> SUFFICES ASSUME NEW i \in match PROVE i \in S  OBVIOUS
    <3>1. i \in 0 .. start /\ idx[i] # Blank /\ idx[i].hash = h  OBVIOUS
    <3> HIDE DEF start
    <3>2. i \in Pos /\ i < cnt  BY <1>1, <2>2, <3>1
    <3> QED  BY <3>1, <3>2 DEF Live
  <2>4. S \subseteq match
    <3> SUFFICES ASSUME NEW p \in S PROVE p \in match  OBVIOUS
    <3>1. p \in Pos /\ p < cnt /\ idx[p] # Blank /\ idx[p].hash = h
          /\ (tab[b] = BC_TABLE_SEARCH_POS \/ tab[b] >= p)
      BY <1>2
    <3>2. p <= start  BY <1>1, <1>5, <3>1
    <3>3. p \in 0 .. start  BY <1>1, <2>2, <3>1, <3>2
    <3> QED  BY <3>1, <3>3
  <2>5. match = S  BY <2>3, <2>4
  <2> HIDE DEF match, S
  <2> QED  BY <1>3, <2>1, <2>5
<1> QED  BY <1>4, <1>5

LEMMA SoundFinds ==
  ASSUME TypeOK, TableSound, lock = NoThread, NEW h \in Hash
  PROVE  bc_idx_find(h).pos = HighestOf(h)
<1>1. \A p : ~ResetPending(p)  BY NoThreadAssumption DEF ResetPending
<1> QED  BY <1>1, CoveredFinds DEF TableSound

(* As long as the process is not killed in the middle of a write, the      *)
(* accelerator of bc_idx_find never hides a live entry, whatever writes,   *)
(* rewrites, failed writes, clears, purges and searches any number of      *)
(* threads make.                                                           *)
THEOREM TableCovers == Spec => [](crashes = 0 => TableSound)
<1>1. TypeInv /\ MutexInv /\ StoreInv => (crashes = 0 => TableSound)
  BY DEF StoreInv
<1> QED  BY <1>1, StoreCorrect, PTL

(* bc_find returns what a scan of the whole index would return: the        *)
(* highest live position with the hash.                                    *)
THEOREM FindIsComplete == Spec => [](crashes = 0 => FindComplete)
<1>1. TypeInv /\ MutexInv /\ StoreInv => (crashes = 0 => FindComplete)
  BY SoundFinds DEF StoreInv, FindComplete, TypeInv
<1> QED  BY <1>1, StoreCorrect, PTL

(* A record whose bc_write or bc_append succeeded is read back by bc_get   *)
(* until it is written again or cleared: the bytes of two index entries    *)
(* never overlap, because an entry is stored with the end of its journal   *)
(* as its offset and a rewrite never grows it.                             *)
THEOREM AcknowledgedReadable == Spec => [](crashes = 0 => AckedReadable)
<1>1. TypeInv /\ MutexInv /\ StoreInv => (crashes = 0 => AckedReadable)
  BY DEF StoreInv
<1> QED  BY <1>1, StoreCorrect, PTL

(* A search for the hash of a record that was written stops at it or at a  *)
(* later record of the same hash.                                          *)
THEOREM AcknowledgedFindable == Spec => [](crashes = 0 => AckedFindable)
<1>1. TypeInv /\ MutexInv /\ StoreInv => (crashes = 0 => AckedFindable)
  <2> SUFFICES ASSUME TypeInv, StoreInv, crashes = 0, lock = NoThread,
                      NEW p \in acked
               PROVE  bc_idx_find(idx[p].hash).pos >= p
    BY DEF AckedFindable
  <2> DEFINE h == idx[p].hash
             S == {q \in Pos : Live(q) /\ idx[q].hash = h}
  <2>1. Live(p) /\ TableSound  BY DEF StoreInv, AckedReadable
  <2>2. h \in Hash /\ p \in S
    BY <2>1 DEF Live, TypeInv, TypeOK, IdxRec
  <2>3. bc_idx_find(h).pos = HighestOf(h)
    BY <2>1, <2>2, SoundFinds DEF TypeInv
  <2>4. Max(S) >= p
    <3>1. MaxPos - 1 \in Int /\ S \subseteq 0 .. MaxPos - 1 /\ S # {}
      BY <2>2, BoundAssumption DEF Pos
    <3> HIDE DEF S
    <3> QED  BY <2>2, <3>1, MaxInRange
  <2>5. HighestOf(h) = Max(S)  BY <2>2 DEF HighestOf
  <2> QED  BY <2>3, <2>4, <2>5
<1> QED  BY <1>1, StoreCorrect, PTL

(* Appending to the archive keeps what is there.                           *)
LEMMA AppendKeeps ==
  ASSUME NEW S, NEW s \in Seq(S), NEW x \in S, arch = s, arch' = Append(s, x)
  PROVE  Len(arch) <= Len(arch') /\ SubSeq(arch', 1, Len(arch)) = arch
<1>1. Append(s, x) \in Seq(S) /\ Len(s) \in Nat /\ Len(Append(s, x)) = Len(s) + 1
      /\ \A i \in 1 .. Len(s) : Append(s, x)[i] = s[i]
  OBVIOUS
<1>2. Len(arch) <= Len(arch')  BY <1>1
<1>3. SubSeq(Append(s, x), 1, Len(s)) = s
  <2>1. SubSeq(Append(s, x), 1, Len(s)) = [i \in 1 .. Len(s) |-> Append(s, x)[i]]
    BY <1>1
  <2>2. s = [i \in 1 .. Len(s) |-> s[i]]  OBVIOUS
  <2> QED  BY <1>1, <2>1, <2>2
<1> QED  BY <1>2, <1>3

(* No archived record is ever replaced or dropped, although bc_arch_next   *)
(* reads the position for it without the mutex: bc_arch_set refuses a      *)
(* position that another thread has filled meanwhile.  Crashes included.   *)
THEOREM ArchiveOnlyGrows == Spec => ArchiveGrows
<1> DEFINE Grows == Len(arch) <= Len(arch') /\ SubSeq(arch', 1, Len(arch)) = arch
<1>1. ASSUME TypeInv, [Next]_vars PROVE [Grows]_vars
  <2>a. arch \in Seq(IdxRec) /\ Len(arch) \in Nat  BY <1>1 DEF TypeInv, TypeOK
  <2>b. ASSUME arch' = arch PROVE Grows  BY <2>a, <2>b
  <2>c. ASSUME NEW rec \in IdxRec, arch' = Append(arch, rec) PROVE Grows
    BY <2>a, <2>c, AppendKeeps
  <2> HIDE DEF Grows
  <2>1. ASSUME NEW t \in Thread, bc_arch_set(t) PROVE Grows
    <3>1. CASE arch' = arch  BY <3>1, <2>b
    <3>2. CASE arch' # arch
      <4>1. ~ArchTaken(loc[t].npos) /\ arch' = ArchSet(loc[t].npos, loc[t].rec)
            /\ pc[t] = "clear_set"
        BY <2>1, <3>2 DEF bc_arch_set
      <4>2. arch' = Append(arch, loc[t].rec)
        BY <4>1 DEF ArchTaken, ArchSet
      <4>3. loc[t].rec \in IdxRec
        BY <1>1, <4>1 DEF TypeInv, CallTyped, ClearLabel
      <4> QED  BY <4>2, <4>3, <2>c
    <3> QED  BY <3>1, <3>2
  <2>2. ASSUME NEW t \in Thread, bc_arch_write_add(t) PROVE Grows
    <3>1. CASE arch' = arch  BY <3>1, <2>b
    <3>2. CASE arch' # arch
      <4>1. arch' = ArchSet(Len(arch), loc[t].rec) /\ pc[t] = "aw_arch"
        BY <2>2, <3>2 DEF bc_arch_write_add
      <4>2. arch' = Append(arch, loc[t].rec)
        BY <4>1, <2>a DEF ArchSet
      <4>3. loc[t].rec \in IdxRec
        BY <1>1, <4>1 DEF TypeInv, CallTyped, ArchLabel
      <4> QED  BY <4>2, <4>3, <2>c
    <3> QED  BY <3>1, <3>2
  <2>3. ASSUME NEW t \in Thread, Step(t), ~bc_arch_set(t), ~bc_arch_write_add(t)
        PROVE  arch' = arch
    BY <2>3 DEF Step, files, bc_idx_set, bc_idx_set_table, bc_write_data,
       bc_write_of, bc_rewrite, bc_write_undo, bc_write_undo_table,
       bc_arch_next, bc_clear_idx, bc_purge_next, bc_arch_write_data,
       bc_arch_write_of
  <2>4. ASSUME NEW t \in Thread, Call(t) PROVE arch' = arch
    BY <2>4 DEF Call, files, bc_find, bc_table_reset, bc_append, bc_write,
       bc_arch_write, bc_clear, bc_idx_clear, bc_purge, bc_table_clear
  <2>5. CASE Crash \/ UNCHANGED vars
    BY <2>5, <2>b DEF Crash, vars, files
  <2> QED
    BY <1>1, <2>b, <2>1, <2>2, <2>3, <2>4, <2>5 DEF Next
<1>2. Spec => []TypeInv  BY StoreCorrect, PTL
<1> QED  BY <1>1, <1>2, PTL DEF Spec, ArchiveGrows

-----------------------------------------------------------------------------
(* Between calls nothing is half written.                                  *)

(* Every entry is one whose write has returned, or is being written.       *)
LiveAcked == \A p \in Pos : idx[p] # Blank => p \in acked \/ Unfinished(p)

(* A step of the holder, or of a thread that finds the mutex free.         *)
LEMMA LiveAckedStep ==
  ASSUME TypeInv, TypeInv', MutexInv, MutexInv', LiveAcked, NEW t \in Thread,
         lock \in {NoThread, t}, Step(t)
  PROVE  LiveAcked'
<1>a. /\ idx \in [Pos -> IdxRec \cup {Blank}] /\ pc \in [Thread -> Label]
      /\ loc \in [Thread -> Loc] /\ pc[t] \in Label
  BY DEF TypeInv, TypeOK
<1>b. /\ lock = t <=> pc[t] \in LockLabel \/ loc[t].op = "purge"
      /\ lock' = t <=> pc'[t] \in LockLabel \/ loc'[t].op = "purge"
  BY DEF MutexInv
<1>c. \A p : Unfinished(p) => lock = t /\ pc[t] \in StoreLabel /\ loc[t].pos = p
  BY NoThreadAssumption DEF Unfinished
<1>d. ASSUME NEW p, pc'[t] \in StoreLabel, loc'[t].pos = p
      PROVE  Unfinished(p)'
  <2>1. lock' = t  BY <1>b, <1>d DEF StoreLabel, LockLabel, Label, ClearLabel
  <2> QED  BY <1>d, <2>1 DEF Unfinished
<1>e. ASSUME pc[t] \notin StoreLabel,
             \A p \in Pos : \/ idx'[p] = Blank
                            \/ idx'[p] = idx[p] /\ (p \in acked => p \in acked')
      PROVE  LiveAcked'
  BY <1>c, <1>e DEF LiveAcked
<1>f. ASSUME pc[t] \in StoreLabel, pc'[t] \in StoreLabel, idx' = idx, acked' = acked,
             loc' = loc
      PROVE  LiveAcked'
  BY <1>c, <1>d, <1>f DEF LiveAcked
<1>1. CASE bc_idx_set(t)
  <2>1. CASE UNCHANGED <<files, acked>>
    BY <1>1, <1>e, <2>1 DEF bc_idx_set, StoreLabel, files
  <2>2. CASE ~UNCHANGED <<files, acked>>
    <3>1. /\ pc[t] = "idx_set" /\ idx' = [idx EXCEPT ![loc[t].pos] = loc[t].rec]
          /\ acked' = acked \ {loc[t].pos} /\ pc'[t] = "table_reset" /\ loc' = loc
      BY <1>1, <1>a, <2>2 DEF bc_idx_set, Goto
    <3>2. Unfinished(loc[t].pos)'  BY <1>d, <3>1 DEF StoreLabel
    <3>3. \A p \in Pos : p # loc[t].pos => idx'[p] = idx[p] /\ ~Unfinished(p)
      BY <1>a, <1>c, <3>1 DEF StoreLabel
    <3> QED  BY <3>1, <3>2, <3>3 DEF LiveAcked
  <2> QED  BY <2>1, <2>2
<1>2. CASE bc_idx_set_table(t)
  BY <1>2, <1>a, <1>f DEF bc_idx_set_table, Goto, StoreLabel
<1>3. CASE bc_write_data(t)
  BY <1>3, <1>a, <1>f DEF bc_write_data, Goto, StoreLabel
<1>4. CASE bc_write_of(t)
  BY <1>4, <1>c DEF bc_write_of, LiveAcked
<1>5. CASE bc_rewrite(t)
  <2>1. CASE UNCHANGED <<idx, acked>>
    BY <1>5, <1>e, <2>1 DEF bc_rewrite, StoreLabel
  <2>2. CASE ~UNCHANGED <<idx, acked>>
    <3>1. /\ pc[t] = "rw_idx" /\ idx' = [idx EXCEPT ![loc[t].pos] = loc[t].rec]
          /\ acked' = acked \ {loc[t].pos} /\ pc'[t] = "append" /\ loc' = loc
      BY <1>5, <1>a, <2>2 DEF bc_rewrite, Goto
    <3>2. Unfinished(loc[t].pos)'  BY <1>d, <3>1 DEF StoreLabel
    <3>3. \A p \in Pos : p # loc[t].pos => idx'[p] = idx[p] /\ ~Unfinished(p)
      BY <1>a, <1>c, <3>1 DEF StoreLabel
    <3> QED  BY <3>1, <3>2, <3>3 DEF LiveAcked
  <2> QED  BY <2>1, <2>2
<1>6. CASE bc_write_undo(t)
  BY <1>6, <1>a, <1>c DEF bc_write_undo, LiveAcked
<1>7. CASE bc_write_undo_table(t)
  BY <1>7, <1>e DEF bc_write_undo_table, StoreLabel
<1>8. CASE bc_arch_next(t) \/ bc_purge_next(t)
  BY <1>8, <1>e DEF bc_arch_next, bc_purge_next, StoreLabel, files
<1>9. CASE bc_arch_set(t)
  BY <1>9, <1>e DEF bc_arch_set, StoreLabel
<1>10. CASE bc_clear_idx(t)
  BY <1>10, <1>a, <1>e DEF bc_clear_idx, StoreLabel
<1>11. CASE bc_arch_write_data(t) \/ bc_arch_write_of(t) \/ bc_arch_write_add(t)
  BY <1>11, <1>e
  DEF bc_arch_write_data, bc_arch_write_of, bc_arch_write_add, StoreLabel
<1> QED
  BY <1>1, <1>2, <1>3, <1>4, <1>5, <1>6, <1>7, <1>8, <1>9, <1>10, <1>11 DEF Step

LEMMA LiveAckedCall ==
  ASSUME TypeInv, MutexInv, LiveAcked, NEW t \in Thread,
         lock \in {NoThread, t}, Call(t)
  PROVE  LiveAcked'
<1>1. pc[t] = "idle"
  BY DEF Call, bc_find, bc_table_reset, bc_append, bc_write, bc_arch_write,
         bc_clear, bc_idx_clear, bc_purge, bc_table_clear
<1>2. \A p \in Pos : ~Unfinished(p)
  BY <1>1, NothingPending DEF StoreLabel
<1>3. ASSUME UNCHANGED <<idx, acked>> PROVE LiveAcked'
  BY <1>2, <1>3 DEF LiveAcked
<1>4. ASSUME NEW p \in Pos, bc_idx_clear(t, p) PROVE LiveAcked'
  BY <1>2, <1>4 DEF bc_idx_clear, LiveAcked, TypeInv, TypeOK
<1>5. ASSUME ~\E p \in Pos : bc_idx_clear(t, p) PROVE UNCHANGED <<idx, acked>>
  BY <1>5 DEF Call, files, bc_find, bc_table_reset, bc_append, bc_write,
     bc_arch_write, bc_clear, bc_purge, bc_table_clear
<1> QED  BY <1>3, <1>4, <1>5

LEMMA LiveAckedNext ==
  TypeInv /\ MutexInv /\ (crashes = 0 => LiveAcked) /\ [Next]_vars
    => (crashes = 0 => LiveAcked)'
<1> SUFFICES ASSUME TypeInv, MutexInv, crashes = 0 => LiveAcked, [Next]_vars
             PROVE  (crashes = 0 => LiveAcked)'
  OBVIOUS
<1>1. TypeInv' /\ MutexInv'  BY TypeNext, MutexNext
<1>2. CASE UNCHANGED vars
  BY <1>2 DEF vars, files, LiveAcked, Unfinished
<1>3. CASE Crash
  BY <1>3, BoundAssumption DEF Crash, TypeInv, TypeOK
<1>4. ASSUME NEW t \in Thread, Step(t) \/ Call(t)
      PROVE  (crashes = 0 => LiveAcked)'
  <2>1. crashes' = crashes
    BY <1>4 DEF Step, Call, bc_idx_set, bc_idx_set_table, bc_write_data,
       bc_write_of, bc_rewrite, bc_write_undo, bc_write_undo_table,
       bc_arch_next, bc_arch_set, bc_clear_idx, bc_purge_next,
       bc_arch_write_data, bc_arch_write_of, bc_arch_write_add, bc_find,
       bc_table_reset, bc_append, bc_write, bc_arch_write, bc_clear,
       bc_idx_clear, bc_purge, bc_table_clear
  <2>2. lock \in Thread \cup {NoThread}  BY DEF TypeInv, TypeOK
  <2>3. CASE lock \in {NoThread, t}
    BY <1>1, <1>4, <2>1, <2>3, LiveAckedStep, LiveAckedCall
  <2>4. CASE lock \in Thread \ {t}
    <3>1. UNCHANGED <<files, acked>>  BY <1>4, <2>4, Exclusive
    <3>2. Frame(t)  BY <1>4, StepFrame, CallFrame
    <3>3. lock' = lock /\ pc'[lock] = pc[lock] /\ loc'[lock] = loc[lock]
      BY <2>4, <3>2 DEF Frame
    <3>4. \A p : Unfinished(p) => Unfinished(p)'
      BY <2>4, <3>3 DEF Unfinished
    <3> QED  BY <2>1, <3>1, <3>4 DEF LiveAcked, files
  <2> QED  BY <2>2, <2>3, <2>4
<1> QED  BY <1>2, <1>3, <1>4 DEF Next

LEMMA LiveAckedInit == Init => LiveAcked
BY DEF Init, LiveAcked

LEMMA LiveAckedCorrect == Spec => [](crashes = 0 => LiveAcked)
<1>1. Init => (crashes = 0 => LiveAcked)  BY LiveAckedInit
<1> QED  BY <1>1, LiveAckedNext, StoreCorrect, PTL DEF Spec

(* While no call holds the mutex, every entry of the index can be read: a  *)
(* write that failed half-way, with any number of threads around it, has   *)
(* taken its entry back (bc_idx_clear in the error path of bc_write).      *)
THEOREM LiveEntriesReadable == Spec => [](crashes = 0 => LiveReadable)
<1>1. TypeInv /\ MutexInv /\ StoreInv /\ (crashes = 0 => LiveAcked)
        => (crashes = 0 => LiveReadable)
  <2> SUFFICES ASSUME StoreInv, crashes = 0, LiveAcked, lock = NoThread,
                      NEW p \in Pos, Live(p)
               PROVE  CrcOk(idx[p])
    BY DEF LiveReadable
  <2>1. ~Unfinished(p)  BY NoThreadAssumption DEF Unfinished
  <2>2. p \in acked  BY <2>1 DEF LiveAcked, Live
  <2> QED  BY <2>2 DEF StoreInv, AckedReadable
<1> QED  BY <1>1, LiveAckedCorrect, StoreCorrect, PTL

-----------------------------------------------------------------------------
(* Clearing and purging.                                                   *)

(* A clear that no other thread can get in between of: one of bc_purge,    *)
(* which holds the mutex, or any when there is one thread.                 *)
Undisturbed(t) == loc[t].op = "purge" \/ \A u \in Thread : u = t

(* The entry is still what was read, the end of the archive where it was,  *)
(* and before the entry is blanked it is in the archive.                   *)
ClearInv(t) ==
  pc[t] \in ClearLabel /\ Undisturbed(t) =>
    /\ idx[loc[t].pos] = loc[t].rec
    /\ pc[t] = "clear_set" => loc[t].npos = Len(arch)
    /\ pc[t] = "clear_idx" => \E i \in DOMAIN arch : arch[i] = loc[t].rec

(* What bc_purge has passed is blank, or the archive is full.              *)
Passed(t) ==
  \A p \in Pos : p > loc[t].pos \/ (pc[t] = "purge_next" /\ p = loc[t].pos) => ~Live(p)
PurgeInv(t) ==
  ~IOErrors /\ loc[t].op = "purge" => Len(arch) = MaxArch \/ Passed(t)

(* The labels that bc_purge passes through, and the range of its variables.*)
PurgeLabel(t) ==
  loc[t].op = "purge" => /\ pc[t] \in ClearLabel \cup {"purge_next"}
                         /\ loc[t].pos < PosWrap /\ loc[t].top < MaxPos

CallInv ==
  /\ Len(arch) <= MaxArch
  /\ \A t \in Thread : PurgeLabel(t) /\ ClearInv(t) /\ PurgeInv(t)

LEMMA CallInit == Init => CallInv
BY BoundAssumption DEF Init, CallInv, PurgeLabel, ClearInv, PurgeInv, ClearLabel, NoLoc

(* The archive has what was put at its end.                                *)
LEMMA ArchHas ==
  ASSUME TypeOK, NEW rec \in IdxRec, arch' = Append(arch, rec)
  PROVE  /\ \E i \in DOMAIN arch' : arch'[i] = rec
         /\ Len(arch') = Len(arch) + 1
<1>1. arch \in Seq(IdxRec) /\ Len(arch) \in Nat  BY DEF TypeOK
<1>2. /\ Len(arch') = Len(arch) + 1 /\ arch'[Len(arch) + 1] = rec
      /\ DOMAIN arch' = 1 .. Len(arch) + 1
  BY <1>1
<1>3. Len(arch) + 1 \in 1 .. Len(arch) + 1  BY <1>1
<1> QED  BY <1>2, <1>3

(* The archive does not grow beyond its limit, and a full one stays full.  *)
LEMMA ArchLimit ==
  ASSUME TypeInv, Len(arch) <= MaxArch, NEW t \in Thread, Step(t) \/ Call(t)
  PROVE  Len(arch') <= MaxArch /\ Len(arch') >= Len(arch)
<1>1. Len(arch) \in Nat /\ MaxArch \in Nat  BY BoundAssumption DEF TypeInv, TypeOK
<1>2. CASE arch' = arch  BY <1>1, <1>2
<1>3. CASE bc_arch_set(t) /\ arch' # arch
  <2>1. ~ArchTaken(loc[t].npos) /\ arch' = ArchSet(loc[t].npos, loc[t].rec)
        /\ pc[t] = "clear_set" /\ loc[t].npos < MaxArch
    BY <1>3 DEF bc_arch_set
  <2>2. loc[t].rec \in IdxRec /\ loc[t].npos \in Nat
    BY <2>1 DEF TypeInv, TypeOK, CallTyped, ClearLabel, Loc
  <2>3. arch' = Append(arch, loc[t].rec) /\ Len(arch) <= loc[t].npos
    BY <1>1, <2>1, <2>2 DEF ArchTaken, ArchSet
  <2> QED  BY <1>1, <2>1, <2>2, <2>3, ArchHas DEF TypeInv
<1>4. CASE bc_arch_write_add(t) /\ arch' # arch
  <2>1. arch' = ArchSet(Len(arch), loc[t].rec) /\ Len(arch) < MaxArch
        /\ pc[t] = "aw_arch"
    BY <1>4 DEF bc_arch_write_add
  <2>2. loc[t].rec \in IdxRec  BY <2>1 DEF TypeInv, CallTyped, ArchLabel
  <2>3. arch' = Append(arch, loc[t].rec)  BY <1>1, <2>1 DEF ArchSet
  <2> QED  BY <1>1, <2>1, <2>2, <2>3, ArchHas DEF TypeInv
<1>5. CASE ~bc_arch_set(t) /\ ~bc_arch_write_add(t)
  <2>1. arch' = arch
    BY <1>5 DEF Step, Call, files, bc_idx_set, bc_idx_set_table, bc_write_data,
       bc_write_of, bc_rewrite, bc_write_undo, bc_write_undo_table,
       bc_arch_next, bc_clear_idx, bc_purge_next, bc_arch_write_data,
       bc_arch_write_of, bc_find, bc_table_reset, bc_append, bc_write,
       bc_arch_write, bc_clear, bc_idx_clear, bc_purge, bc_table_clear
  <2> QED  BY <1>1, <2>1
<1> QED  BY <1>2, <1>3, <1>4, <1>5

(* A step of another thread does not disturb.                              *)
LEMMA ClearOthers ==
  ASSUME TypeInv, MutexInv, CallInv, NEW t \in Thread, Step(t) \/ Call(t),
         NEW u \in Thread \ {t}
  PROVE  PurgeLabel(u)' /\ ClearInv(u)' /\ PurgeInv(u)'
<1>1. pc'[u] = pc[u] /\ loc'[u] = loc[u]  BY StepFrame, CallFrame DEF Frame
<1>2. CASE loc[u].op = "purge"
  <2>1. lock = u  BY <1>2 DEF MutexInv
  <2>2. idx' = idx /\ arch' = arch /\ cnt' = cnt  BY <2>1, Exclusive DEF files
  <2>3. ClearInv(u)'  BY <1>1, <2>2 DEF CallInv, ClearInv, Undisturbed
  <2>4. PurgeInv(u)'
    BY <1>1, <2>2 DEF CallInv, PurgeInv, Passed, Live
  <2> QED  BY <1>1, <2>3, <2>4 DEF CallInv, PurgeLabel
<1>3. CASE loc[u].op # "purge"
  BY <1>1, <1>3 DEF PurgeLabel, ClearInv, PurgeInv, Undisturbed
<1> QED  BY <1>2, <1>3

(* Labels outside of clearing and purging.                                 *)
LEMMA ClearElsewhere ==
  ASSUME MutexInv', NEW t \in Thread,
         pc'[t] \notin ClearLabel, loc'[t].op # "purge"
  PROVE  PurgeLabel(t)' /\ ClearInv(t)' /\ PurgeInv(t)'
BY DEF PurgeLabel, ClearInv, PurgeInv

LEMMA ReturnElsewhere ==
  ASSUME TypeInv, MutexInv', NEW t \in Thread, NEW e, Return(t, e)
  PROVE  PurgeLabel(t)' /\ ClearInv(t)' /\ PurgeInv(t)'
<1>1. pc'[t] = "idle" /\ loc'[t].op = "none"
  BY DEF TypeInv, TypeOK, Return, Goto, NoLoc
<1> QED  BY <1>1, ClearElsewhere DEF ClearLabel

(* The steps of a call that is neither.                                    *)
LEMMA WriteElsewhere ==
  ASSUME TypeInv, TypeInv', MutexInv', CallInv, NEW t \in Thread,
         pc[t] \in WriteLabel \cup ArchLabel, Step(t)
  PROVE  PurgeLabel(t)' /\ ClearInv(t)' /\ PurgeInv(t)'
<1>1. /\ pc \in [Thread -> Label] /\ loc \in [Thread -> Loc]
      /\ loc[t].op # "purge"
  BY DEF TypeInv, TypeOK, CallInv, PurgeLabel, WriteLabel, ArchLabel, ClearLabel
<1>2. CASE \E e : Return(t, e)  BY <1>2, ReturnElsewhere
<1>3. CASE ~\E e : Return(t, e)
  <2>1. \E l \in {"table_reset", "append", "append_of", "undo_idx", "undo_tab",
                   "aw_of", "aw_arch"} : Goto(t, l) /\ loc' = loc
    BY <1>3 DEF WriteLabel, ArchLabel, Step, bc_idx_set, bc_idx_set_table,
       bc_write_data, bc_write_of, bc_rewrite, bc_write_undo, bc_write_undo_table,
       bc_arch_next, bc_arch_set, bc_clear_idx, bc_purge_next, bc_arch_write_data,
       bc_arch_write_of, bc_arch_write_add
  <2>2. pc'[t] \notin ClearLabel /\ loc'[t].op # "purge"
    BY <1>1, <2>1 DEF Goto, ClearLabel
  <2> QED  BY <2>2, ClearElsewhere
<1> QED  BY <1>2, <1>3

(* An error of bc_clear inside bc_purge happens only with a full archive.  *)
LEMMA FailedTurn ==
  ASSUME TypeInv, MutexInv, CallInv, NEW t \in Thread, NEW e \in Result,
         pc[t] \in ClearLabel, ClearFails(t, e), idx' = idx, cnt' = cnt,
         arch' = arch, MutexInv',
         ~IOErrors => Len(arch) = MaxArch
  PROVE  PurgeLabel(t)' /\ ClearInv(t)' /\ PurgeInv(t)'
<1>1. CASE loc[t].op = "purge"
  <2>1. pc'[t] = "purge_next" /\ loc' = loc
    BY <1>1 DEF ClearFails, Goto, TypeInv, TypeOK
  <2>2. PurgeLabel(t)  BY DEF CallInv
  <2> QED  BY <2>1, <2>2 DEF PurgeLabel, ClearInv, PurgeInv, ClearLabel
<1>2. CASE loc[t].op # "purge"
  BY <1>2, ReturnElsewhere DEF ClearFails
<1> QED  BY <1>1, <1>2

(* The three critical sections of bc_clear.                                *)
LEMMA ClearSteps ==
  ASSUME TypeInv, TypeInv', MutexInv, MutexInv', CallInv, NEW t \in Thread,
         pc[t] \in ClearLabel, Step(t)
  PROVE  PurgeLabel(t)' /\ ClearInv(t)' /\ PurgeInv(t)'
<1>a. /\ pc \in [Thread -> Label] /\ loc \in [Thread -> Loc] /\ loc[t] \in Loc
      /\ idx \in [Pos -> IdxRec \cup {Blank}]
      /\ Len(arch) \in Nat /\ MaxArch \in Nat /\ loc[t].npos \in Nat
      /\ loc[t].rec \in IdxRec /\ loc[t].pos \in Pos
  <2>1. /\ pc \in [Thread -> Label] /\ loc \in [Thread -> Loc]
        /\ idx \in [Pos -> IdxRec \cup {Blank}] /\ arch \in Seq(IdxRec)
    BY DEF TypeInv, TypeOK
  <2>2. loc[t].rec \in IdxRec /\ loc[t].pos \in Pos
    BY DEF TypeInv, CallTyped
  <2>3. loc[t] \in Loc /\ loc[t].npos \in Nat  BY <2>1 DEF Loc
  <2>4. Len(arch) \in Nat /\ MaxArch \in Nat  BY <2>1, BoundAssumption
  <2> QED  BY <2>1, <2>2, <2>3, <2>4
<1>b. /\ ClearInv(t) /\ PurgeInv(t) /\ Len(arch) <= MaxArch
      /\ PurgeLabel(t)
  BY DEF CallInv
<1>c. bc_arch_next(t) \/ bc_arch_set(t) \/ bc_clear_idx(t)
  BY DEF ClearLabel, Step, bc_idx_set, bc_idx_set_table, bc_write_data,
     bc_write_of, bc_rewrite, bc_write_undo, bc_write_undo_table,
     bc_purge_next, bc_arch_write_data, bc_arch_write_of, bc_arch_write_add
<1>1. CASE bc_arch_next(t)
  <2>1. /\ pc[t] = "clear_next" /\ pc'[t] = "clear_set" /\ idx' = idx /\ cnt' = cnt
        /\ arch' = arch
    BY <1>1, <1>a DEF bc_arch_next, Goto, files
  <2>2. /\ loc'[t].npos = Len(arch) /\ loc'[t].pos = loc[t].pos
        /\ loc'[t].rec = loc[t].rec /\ loc'[t].op = loc[t].op
    BY <1>1, <1>a DEF bc_arch_next, Loc
  <2>5. loc'[t].top = loc[t].top  BY <1>1, <1>a DEF bc_arch_next, Loc
  <2>3. ClearInv(t)'
    BY <1>b, <2>1, <2>2 DEF ClearInv, Undisturbed, ClearLabel
  <2>4. PurgeInv(t)'
    BY <1>b, <2>1, <2>2 DEF PurgeInv, Passed, Live
  <2> QED  BY <1>b, <2>1, <2>2, <2>3, <2>4, <2>5 DEF PurgeLabel, ClearLabel
<1>2. CASE bc_arch_set(t)
  <2>0. idx' = idx /\ cnt' = cnt /\ pc[t] = "clear_set"  BY <1>2 DEF bc_arch_set
  <2>1. CASE Goto(t, "clear_idx")
    <3>1. /\ ~ArchTaken(loc[t].npos) /\ arch' = ArchSet(loc[t].npos, loc[t].rec)
          /\ loc[t].npos < MaxArch /\ pc'[t] = "clear_idx" /\ loc' = loc
      BY <1>2, <1>a, <2>1
      DEF bc_arch_set, ClearFails, Goto, Return
    <3>2. arch' = Append(arch, loc[t].rec)
      BY <1>a, <3>1 DEF ArchTaken, ArchSet
    <3>3. \E i \in DOMAIN arch' : arch'[i] = loc[t].rec
      BY <1>a, <3>2, ArchHas DEF TypeInv
    <3>4. Len(arch) < MaxArch  BY <1>a, <3>1 DEF ArchTaken
    <3>5. ClearInv(t)'
      BY <1>b, <2>0, <3>1, <3>3 DEF ClearInv, Undisturbed, ClearLabel
    <3>6. PurgeInv(t)'
      BY <1>a, <1>b, <2>0, <3>1, <3>4 DEF PurgeInv, Passed, Live
    <3> QED  BY <1>b, <3>1, <3>5, <3>6 DEF PurgeLabel, ClearLabel
  <2>2. CASE ~Goto(t, "clear_idx")
    <3>1. PICK e \in Result : ClearFails(t, e) /\ arch' = arch
      BY <1>2, <2>2 DEF bc_arch_set, Result
    <3>2. CASE loc[t].op = "purge"
      <4>1. loc[t].npos = Len(arch)
        BY <1>b, <2>0, <3>2 DEF ClearInv, Undisturbed, ClearLabel
      <4>2. ~IOErrors => loc[t].npos >= MaxArch
        BY <1>2, <1>a, <2>2, <4>1 DEF bc_arch_set, ArchTaken
      <4>3. ~IOErrors => Len(arch) = MaxArch  BY <1>a, <1>b, <4>1, <4>2
      <4> QED  BY <2>0, <3>1, <4>3, FailedTurn
    <3>3. CASE loc[t].op # "purge"
      BY <3>1, <3>3, ReturnElsewhere DEF ClearFails
    <3> QED  BY <3>2, <3>3
  <2> QED  BY <2>1, <2>2
<1>3. CASE bc_clear_idx(t)
  <2>1. CASE idx' = [idx EXCEPT ![loc[t].pos] = Blank] /\ loc[t].op = "purge"
             /\ Goto(t, "purge_next") /\ loc' = loc
    <3>1. pc'[t] = "purge_next" /\ loc'[t] = loc[t]  BY <1>a, <2>1 DEF Goto
    <3>2. arch' = arch /\ cnt' = cnt  BY <1>3 DEF bc_clear_idx
    <3>3. ASSUME Passed(t), NEW p \in Pos, p >= loc[t].pos PROVE ~Live(p)'
      <4>1. CASE p = loc[t].pos  BY <1>a, <2>1, <4>1 DEF Live
      <4>2. CASE p # loc[t].pos
        <5>1. p > loc[t].pos  BY <1>a, <3>3, <4>2, BoundAssumption DEF Pos
        <5>2. idx'[p] = idx[p]  BY <1>a, <2>1, <4>2
        <5> QED  BY <3>2, <3>3, <5>1, <5>2 DEF Passed, Live
      <4> QED  BY <4>1, <4>2
    <3>4. PurgeInv(t)'
      <4>1. \A p \in Pos : p > loc[t].pos \/ p = loc[t].pos => p >= loc[t].pos
        BY <1>a, BoundAssumption DEF Pos
      <4> QED  BY <1>b, <2>1, <3>1, <3>2, <3>3, <4>1 DEF PurgeInv, Passed
    <3> QED  BY <1>b, <3>1, <3>4 DEF PurgeLabel, ClearInv, ClearLabel
  <2>2. CASE Return(t, "ok")  BY <2>2, ReturnElsewhere
  <2>3. CASE IOErrors /\ ClearFails(t, "ERR_IO") /\ idx' = idx
    BY <1>3, <2>3, FailedTurn DEF bc_clear_idx, Result
  <2> QED  BY <1>3, <2>1, <2>2, <2>3 DEF bc_clear_idx
<1> QED  BY <1>1, <1>2, <1>3, <1>c
(* Counting an unsigned position down.                                     *)
LEMMA Decrement ==
  ASSUME NEW w \in Nat, NEW q \in Nat, q < w
  PROVE  (q - 1) % w = IF q = 0 THEN w - 1 ELSE q - 1
OBVIOUS

(* One turn of the loop of bc_purge.  Where its unsigned position wraps    *)
(* there is no entry.                                                      *)
LEMMA PurgeTurn ==
  ASSUME TypeInv, TypeInv', MutexInv, MutexInv', CallInv, NEW t \in Thread,
         bc_purge_next(t)
  PROVE  PurgeLabel(t)' /\ ClearInv(t)' /\ PurgeInv(t)'
<1> DEFINE tpos == (loc[t].pos - 1) % PosWrap
<1>a. /\ pc \in [Thread -> Label] /\ loc \in [Thread -> Loc] /\ loc[t] \in Loc
      /\ loc[t].pos \in Nat
  BY DEF TypeInv, TypeOK, Loc
<1>b. pc[t] = "purge_next" /\ loc[t].op = "purge"
  BY DEF bc_purge_next, MutexInv
<1>c. PurgeLabel(t) /\ PurgeInv(t)  BY DEF CallInv
<1>d. /\ PosWrap \in Nat /\ PosWrap > MaxPos + 1 /\ MaxPos \in Nat
      /\ loc[t].pos < PosWrap /\ loc[t].top < MaxPos
  BY <1>b, <1>c, BoundAssumption DEF PurgeLabel
<1>e. /\ tpos \in Nat /\ tpos < PosWrap
      /\ loc[t].pos = 0 => tpos = PosWrap - 1
      /\ loc[t].pos > 0 => tpos = loc[t].pos - 1
  <2>1. tpos = IF loc[t].pos = 0 THEN PosWrap - 1 ELSE loc[t].pos - 1
    BY <1>a, <1>d, Decrement
  <2> QED  BY <1>a, <1>d, <2>1
<1>f. idx' = idx /\ cnt' = cnt /\ arch' = arch  BY DEF bc_purge_next, files
<1>g. \A p : Live(p)' = Live(p)  BY <1>f DEF Live
<1>h. ASSUME Passed(t), NEW p \in Pos, p > tpos PROVE ~Live(p)
  <2>1. p \in Nat /\ p < MaxPos  BY <1>d DEF Pos
  <2>2. p >= loc[t].pos  BY <1>a, <1>d, <1>e, <1>h, <2>1
  <2>3. p > loc[t].pos \/ p = loc[t].pos  BY <1>a, <2>1, <2>2
  <2> QED  BY <1>b, <1>h, <2>3 DEF Passed
<1> HIDE DEF tpos
<1>1. CASE /\ Live(tpos)
           /\ loc' = [loc EXCEPT ![t].pos = tpos, ![t].rec = idx[tpos]]
           /\ Goto(t, "clear_next")
  <2>1. pc'[t] = "clear_next"  BY <1>1, <1>a DEF Goto
  <2>2. /\ loc'[t].pos = tpos /\ loc'[t].rec = idx[tpos] /\ loc'[t].op = "purge"
        /\ loc'[t].top = loc[t].top
    BY <1>1, <1>a, <1>b DEF Loc
  <2>3. PurgeLabel(t)'  BY <1>d, <1>e, <2>1, <2>2 DEF PurgeLabel, ClearLabel
  <2>4. ClearInv(t)'  BY <1>f, <2>1, <2>2 DEF ClearInv
  <2>5. Passed(t) => Passed(t)'
    BY <1>g, <1>h, <2>1, <2>2 DEF Passed
  <2>6. PurgeInv(t)'  BY <1>b, <1>c, <1>f, <2>5 DEF PurgeInv
  <2> QED  BY <2>3, <2>4, <2>6
<1>2. CASE ~Live(tpos) /\ loc' = [loc EXCEPT ![t].pos = tpos] /\ pc' = pc
  <2>1. pc'[t] = "purge_next"  BY <1>2, <1>b
  <2>2. /\ loc'[t].pos = tpos /\ loc'[t].op = "purge" /\ loc'[t].top = loc[t].top
    BY <1>2, <1>a, <1>b DEF Loc
  <2>3. PurgeLabel(t)'  BY <1>d, <1>e, <2>1, <2>2 DEF PurgeLabel
  <2>4. ClearInv(t)'  BY <2>1 DEF ClearInv, ClearLabel
  <2>5. Passed(t) => Passed(t)'
    BY <1>2, <1>g, <1>h, <2>1, <2>2 DEF Passed
  <2>6. PurgeInv(t)'  BY <1>b, <1>c, <1>f, <2>5 DEF PurgeInv
  <2> QED  BY <2>3, <2>4, <2>6
<1>3. CASE Return(t, "ok")  BY <1>3, ReturnElsewhere
<1> QED  BY <1>1, <1>2, <1>3 DEF bc_purge_next, tpos

(* A call begins: bc_clear has just read the entry, bc_purge starts above  *)
(* the last one.                                                           *)
LEMMA ClearCall ==
  ASSUME TypeInv, TypeInv', MutexInv, MutexInv', CallInv, NEW t \in Thread,
         Call(t)
  PROVE  PurgeLabel(t)' /\ ClearInv(t)' /\ PurgeInv(t)'
<1>a. pc \in [Thread -> Label] /\ loc \in [Thread -> Loc]
  BY DEF TypeInv, TypeOK
<1>b. pc[t] = "idle" /\ loc[t].op = "none"
  BY DEF Call, bc_find, bc_table_reset, bc_append, bc_write, bc_arch_write,
     bc_clear, bc_idx_clear, bc_purge, bc_table_clear, MutexInv
<1>1. ASSUME NEW h \in Hash, bc_find(t, h) \/ bc_table_reset(t, h)
      PROVE  pc' = pc /\ loc' = loc
  BY <1>1 DEF bc_find, bc_table_reset
<1>2. ASSUME NEW p, NEW h, NEW d, bc_write(t, p, h, d)
      PROVE  PurgeLabel(t)' /\ ClearInv(t)' /\ PurgeInv(t)'
  <2>1. CASE \E e : Return(t, e)  BY <2>1, ReturnElsewhere
  <2>2. CASE \E r : Enter(t, "idx_set", [[NoLoc EXCEPT !.op = "write",
                     !.pos = p, !.hash = h] EXCEPT !.rec = r])
    <3>1. pc'[t] = "idx_set" /\ loc'[t].op = "write"
      BY <1>a, <2>2 DEF Enter, Goto, NoLoc
    <3> QED  BY <3>1, ClearElsewhere DEF ClearLabel
  <2>3. CASE \E r : Enter(t, "rw_idx", [[NoLoc EXCEPT !.op = "write",
                     !.pos = p, !.hash = h] EXCEPT !.rec = r])
    <3>1. pc'[t] = "rw_idx" /\ loc'[t].op = "write"
      BY <1>a, <2>3 DEF Enter, Goto, NoLoc
    <3> QED  BY <3>1, ClearElsewhere DEF ClearLabel
  <2> QED  BY <1>2, <2>1, <2>2, <2>3 DEF bc_write
<1>3. ASSUME NEW h, NEW d, bc_arch_write(t, h, d)
      PROVE  PurgeLabel(t)' /\ ClearInv(t)' /\ PurgeInv(t)'
  <2>1. CASE \E e : Return(t, e)  BY <2>1, ReturnElsewhere
  <2>2. CASE \E r : Enter(t, "aw_data", [NoLoc EXCEPT !.op = "arch_write",
                                                       !.rec = r])
    <3>1. pc'[t] = "aw_data" /\ loc'[t].op = "arch_write"
      BY <1>a, <2>2 DEF Enter, Goto, NoLoc
    <3> QED  BY <3>1, ClearElsewhere DEF ClearLabel
  <2> QED  BY <1>3, <2>1, <2>2 DEF bc_arch_write
<1>4. ASSUME NEW p \in Pos, bc_clear(t, p)
      PROVE  PurgeLabel(t)' /\ ClearInv(t)' /\ PurgeInv(t)'
  <2>1. CASE Return(t, "ERR_NOENT")  BY <2>1, ReturnElsewhere
  <2>2. CASE ~Return(t, "ERR_NOENT")
    <3>1. /\ pc'[t] = "clear_next" /\ idx' = idx
          /\ loc'[t].op = "clear" /\ loc'[t].pos = p /\ loc'[t].rec = idx[p]
      BY <1>4, <1>a, <2>2 DEF bc_clear, Goto, NoLoc, files
    <3> QED  BY <3>1 DEF PurgeLabel, ClearInv, PurgeInv
  <2> QED  BY <2>1, <2>2
<1>5. ASSUME NEW p \in PurgePos, bc_purge(t, p)
      PROVE  PurgeLabel(t)' /\ ClearInv(t)' /\ PurgeInv(t)'
  <2>1. CASE \E e : Return(t, e)  BY <2>1, ReturnElsewhere
  <2>2. CASE ~\E e : Return(t, e)
    <3>1. /\ pc'[t] = "purge_next" /\ idx' = idx /\ cnt' = cnt /\ arch' = arch
          /\ loc'[t].op = "purge" /\ loc'[t].pos = cnt /\ loc'[t].top = p
      BY <1>5, <1>a, <2>2 DEF bc_purge, Enter, Goto, NoLoc, files
    <3>2. cnt < PosWrap /\ p < MaxPos /\ cnt \in Nat
      BY BoundAssumption DEF TypeInv, TypeOK
    <3>3. \A q \in Pos : q > cnt \/ q = cnt => ~Live(q)
      BY <3>2, BoundAssumption DEF Live, Pos
    <3>4. Passed(t)'  BY <3>1, <3>3 DEF Passed, Live
    <3> QED  BY <3>1, <3>2, <3>4 DEF PurgeLabel, ClearInv, PurgeInv, ClearLabel
  <2> QED  BY <2>1, <2>2
<1>6. ASSUME NEW p \in Pos, bc_idx_clear(t, p) PROVE pc' = pc /\ loc' = loc
  BY <1>6 DEF bc_idx_clear
<1>7. ASSUME bc_table_clear(t) PROVE pc' = pc /\ loc' = loc
  BY <1>7 DEF bc_table_clear
<1>8. CASE pc' = pc /\ loc' = loc
  BY <1>8, <1>b, ClearElsewhere DEF ClearLabel
<1> QED  BY <1>1, <1>2, <1>3, <1>4, <1>5, <1>6, <1>7, <1>8 DEF Call, bc_append

LEMMA CallNext ==
  TypeInv /\ MutexInv /\ CallInv /\ [Next]_vars => CallInv'
<1> SUFFICES ASSUME TypeInv, MutexInv, CallInv, [Next]_vars PROVE CallInv'
  OBVIOUS
<1>1. TypeInv' /\ MutexInv'  BY TypeNext, MutexNext
<1>2. CASE UNCHANGED vars
  BY <1>2 DEF vars, files, CallInv, PurgeLabel, ClearInv, PurgeInv, Passed,
     Undisturbed, Live
<1>3. CASE Crash
  <2>1. arch' = arch /\ \A t \in Thread : pc'[t] = "idle" /\ loc'[t].op = "none"
    BY <1>3 DEF Crash, files, NoLoc
  <2> QED  BY <1>1, <2>1, ClearElsewhere DEF CallInv, ClearLabel
<1>4. ASSUME NEW t \in Thread, Step(t) \/ Call(t) PROVE CallInv'
  <2>1. Len(arch') <= MaxArch  BY <1>4, ArchLimit DEF CallInv
  <2>2. \A u \in Thread \ {t} : PurgeLabel(u)' /\ ClearInv(u)' /\ PurgeInv(u)'
    BY <1>4, ClearOthers
  <2>3. PurgeLabel(t)' /\ ClearInv(t)' /\ PurgeInv(t)'
    <3>1. CASE Call(t)  BY <1>1, <3>1, ClearCall
    <3>2. CASE Step(t) /\ pc[t] \in ClearLabel  BY <1>1, <3>2, ClearSteps
    <3>3. CASE Step(t) /\ pc[t] \in WriteLabel \cup ArchLabel
      BY <1>1, <3>3, WriteElsewhere
    <3>4. CASE Step(t) /\ pc[t] \notin ClearLabel \cup WriteLabel \cup ArchLabel
      <4>1. bc_purge_next(t)
        BY <3>4 DEF Step, ClearLabel, WriteLabel, ArchLabel, bc_idx_set,
           bc_idx_set_table, bc_write_data, bc_write_of, bc_rewrite,
           bc_write_undo, bc_write_undo_table, bc_arch_next, bc_arch_set,
           bc_clear_idx, bc_arch_write_data, bc_arch_write_of,
           bc_arch_write_add
      <4> QED  BY <1>1, <4>1, PurgeTurn
    <3> QED  BY <1>4, <3>1, <3>2, <3>3, <3>4
  <2> QED  BY <2>1, <2>2, <2>3 DEF CallInv
<1> QED  BY <1>2, <1>3, <1>4 DEF Next

LEMMA CallCorrect == Spec => []CallInv
BY CallInit, CallNext, StoreCorrect, PTL DEF Spec

(* bc_purge returns with nothing live from the position it was given on,   *)
(* unless the archive is full: whatever the other threads do, since it     *)
(* holds the mutex, and although its loop variable is unsigned.            *)
THEOREM PurgeIsComplete == ~IOErrors => (Spec => PurgeComplete)
<1> SUFFICES ASSUME ~IOErrors PROVE Spec => PurgeComplete
  OBVIOUS
<1> DEFINE Done == \A t \in Thread :
             pc[t] = "purge_next" /\ pc'[t] = "idle" /\ crashes' = crashes
               => \/ Len(arch) = MaxArch
                  \/ \A p \in Pos : p >= loc[t].top => ~Live(p)
<1>1. TypeInv /\ MutexInv /\ CallInv /\ [Next]_vars => [Done]_vars
  <2> SUFFICES ASSUME TypeInv, MutexInv, CallInv, [Next]_vars,
                      NEW t \in Thread, pc[t] = "purge_next",
                      pc'[t] = "idle", crashes' = crashes,
                      NEW p \in Pos, p >= loc[t].top, Len(arch) # MaxArch
               PROVE  ~Live(p)
    OBVIOUS
  <2>1. bc_purge_next(t)
    <3>1. ~Crash  BY BoundAssumption DEF Crash, TypeInv, TypeOK
    <3>2. PICK u \in Thread : Step(u) \/ Call(u)
      BY <3>1 DEF Next, vars
    <3>3. u = t  BY <3>2, StepFrame, CallFrame DEF Frame
    <3> QED
      BY <3>2, <3>3 DEF Step, Call, bc_idx_set, bc_idx_set_table,
         bc_write_data, bc_write_of, bc_rewrite, bc_write_undo,
         bc_write_undo_table, bc_arch_next, bc_arch_set, bc_clear_idx,
         bc_arch_write_data, bc_arch_write_of, bc_arch_write_add, bc_find,
         bc_table_reset, bc_append, bc_write, bc_arch_write, bc_clear,
         bc_idx_clear, bc_purge, bc_table_clear
  <2>2. /\ pc \in [Thread -> Label] /\ loc[t].pos \in Nat /\ loc[t].top \in Nat
    BY DEF TypeInv, TypeOK, Loc
  <2>3. loc[t].op = "purge"  BY DEF MutexInv
  <2>4. Passed(t)  BY <2>3 DEF CallInv, PurgeInv
  <2>5. /\ PosWrap \in Nat /\ PosWrap > MaxPos + 1 /\ MaxPos \in Nat
        /\ loc[t].pos < PosWrap /\ loc[t].top < MaxPos
    BY <2>3, BoundAssumption DEF CallInv, PurgeLabel
  <2>6. ~PurgeGoesOn((loc[t].pos - 1) % PosWrap, loc[t].top)
    BY <2>1, <2>2 DEF bc_purge_next, Goto
  <2>7. (loc[t].pos - 1) % PosWrap < loc[t].top
    BY <2>2, <2>5, <2>6 DEF PurgeGoesOn
  <2>8. loc[t].pos <= loc[t].top
    <3>1. loc[t].pos > 0 => (loc[t].pos - 1) % PosWrap = loc[t].pos - 1
      BY <2>2, <2>5, Decrement
    <3>2. CASE loc[t].pos = 0  BY <2>2, <3>2
    <3>3. CASE loc[t].pos > 0  BY <2>2, <2>7, <3>1, <3>3
    <3> QED  BY <2>2, <3>2, <3>3
  <2>9. p \in Nat /\ (p > loc[t].pos \/ p = loc[t].pos)
    BY <2>2, <2>5, <2>8 DEF Pos
  <2> QED  BY <2>4, <2>9 DEF Passed
<1>2. Spec => [][Done]_vars
  BY <1>1, CallCorrect, StoreCorrect, PTL DEF Spec
<1> QED  BY <1>2 DEF PurgeComplete

(* What bc_clear or bc_purge takes out of the index is in the archive.     *)
(* With several threads this holds of bc_purge only: a bc_clear leaves the *)
(* mutex between reading the entry and blanking it.                        *)
THEOREM ClearKeepsRecords ==
  (\A t, u \in Thread : t = u) => (Spec => ClearArchives)
<1> SUFFICES ASSUME \A t, u \in Thread : t = u PROVE Spec => ClearArchives
  OBVIOUS
<1> DEFINE Kept == \A t \in Thread :
             LET p == loc[t].pos IN
             pc[t] = "clear_idx" /\ Live(p) /\ idx'[p] = Blank
               => \E i \in DOMAIN arch : arch[i] = idx[p]
<1>1. CallInv => Kept
  BY DEF CallInv, ClearInv, Undisturbed, ClearLabel
<1>2. Spec => [][Kept]_vars  BY <1>1, CallCorrect, PTL DEF Spec
<1> QED  BY <1>2 DEF ClearArchives

(* ... and of bc_purge, whatever the number of threads.                    *)
THEOREM PurgeKeepsRecords ==
  Spec => [][\A t \in Thread :
               LET p == loc[t].pos IN
               pc[t] = "clear_idx" /\ loc[t].op = "purge" /\ idx'[p] = Blank
                 => \E i \in DOMAIN arch : arch[i] = idx[p]]_vars
<1>1. CallInv => \A t \in Thread :
               LET p == loc[t].pos IN
               pc[t] = "clear_idx" /\ loc[t].op = "purge" /\ idx'[p] = Blank
                 => \E i \in DOMAIN arch : arch[i] = idx[p]
  BY DEF CallInv, ClearInv, Undisturbed, ClearLabel
<1> QED  BY <1>1, CallCorrect, PTL DEF Spec

=============================================================================
