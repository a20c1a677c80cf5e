--------------------------- MODULE BcClientsProofs ---------------------------
(***************************************************************************)
(* Proofs about the procedures that use the record database: what they     *)
(* store is well typed, every step they make is a step of the database, so *)
(* that what is proved of BcStore holds for them, and with one thread the  *)
(* records that they leave behind are the ones that were written last.     *)
(***************************************************************************)
EXTENDS BcClients, BcStoreProofs

(* bc_idx_find returns -1 or the position of an entry with the hash.       *)
LEMMA FoundTyped ==
  ASSUME TypeOK, NEW h \in Hash, Found(h) # -1
  PROVE  /\ Found(h) \in Pos /\ Found(h) < cnt
         /\ idx[Found(h)] # Blank /\ idx[Found(h)].hash = h
<1> DEFINE b == bc_table_hash[h]
           known == tab[b] # BC_TABLE_SEARCH_POS /\ tab[b] <= cnt - 1
           start == IF known THEN tab[b] ELSE cnt - 1
           match == {i \in 0 .. start : idx[i] # Blank /\ idx[i].hash = h}
<1>1. Found(h) = Max(match) /\ match # {}
  BY DEF Found, bc_idx_find
<1>2. /\ tab[b] \in Pos \cup {BC_TABLE_NULL_POS} /\ cnt \in 0 .. MaxPos
      /\ MaxPos \in Nat \ {0} /\ Pos = 0 .. MaxPos - 1
      /\ BC_TABLE_NULL_POS = MaxPos + 1
  BY HashAssumption, BoundAssumption DEF TypeOK, BC_TABLE_NULL_POS, Pos
<1>3. start \in Int /\ start <= cnt - 1  BY <1>2
<1>4. match \subseteq 0 .. start  OBVIOUS
<1> HIDE DEF start
<1>5. Max(match) \in match  BY <1>1, <1>3, <1>4, MaxInRange
<1>6. Found(h) \in 0 .. start /\ idx[Found(h)] # Blank /\ idx[Found(h)].hash = h
  BY <1>1, <1>5
<1> QED  BY <1>2, <1>3, <1>6

(* The index never gets shorter.                                           *)
LEMMA CountGrows ==
  ASSUME TypeInv, TypeInv', [Next]_vars
  PROVE  cnt' >= cnt
<1>1. cnt \in Int /\ cnt' \in Int  BY BoundAssumption DEF TypeInv, TypeOK
<1>2. CASE cnt' = cnt  BY <1>1, <1>2
<1>3. ASSUME NEW p \in Int, cnt' = Max({cnt, p + 1}) PROVE cnt' >= cnt
  <2>1. p + 1 \in Int  OBVIOUS
  <2> QED  BY <1>1, <1>3, <2>1, MaxPair
<1>4. ASSUME NEW t \in Thread, bc_idx_set(t) \/ \E p \in Pos : bc_idx_clear(t, p)
      PROVE  cnt' >= cnt
  <2>1. CASE \E p \in Pos : bc_idx_clear(t, p)
    BY <1>3, <2>1, BoundAssumption DEF bc_idx_clear, Pos
  <2>2. CASE bc_idx_set(t) /\ cnt' # cnt
    <3>1. loc[t].pos \in Pos /\ cnt' = Max({cnt, loc[t].pos + 1})
      BY <2>2 DEF bc_idx_set, files
    <3> QED  BY <1>3, <3>1, BoundAssumption DEF Pos
  <2> QED  BY <1>2, <1>4, <2>1, <2>2
<1>5. ASSUME NEW t \in Thread, Step(t) \/ Call(t), ~bc_idx_set(t),
             ~\E p \in Pos : bc_idx_clear(t, p)
      PROVE  cnt' = cnt
  BY <1>5 DEF Step, Call, bc_idx_set_table, bc_write_data, files,
     bc_write_of, bc_rewrite, bc_write_undo, bc_write_undo_table,
     bc_arch_next, bc_arch_set, bc_clear_idx, bc_purge_next,
     bc_arch_write_data, bc_arch_write_of, bc_arch_write_add, bc_find,
     bc_table_reset, bc_append, bc_write, bc_arch_write, bc_clear,
     bc_purge, bc_table_clear
<1>6. CASE Crash \/ UNCHANGED vars  BY <1>2, <1>6 DEF Crash, vars, files
<1> QED  BY <1>2, <1>4, <1>5, <1>6 DEF Next

-----------------------------------------------------------------------------
(* The locals of the procedures.                                           *)

ClientLabel == {"none", "get", "append", "write", "written", "erase", "erased",
                "block_clear", "block_cleared", "block_write", "block_written",
                "block_arch"}

Change == [kind : {"all", "mark", "unmark", "none"}, d : Data \cup SUBSET Out]

Job == [h : Hash \cup {Blank}, change : Change, d : Data \cup {Blank},
        pos : Int, old : Hash \cup {Blank}]

(* A change of part of a record is one of the coin database.               *)
ChangeTyped(c) ==
  /\ c.kind = "all" => c.d \in Data
  /\ c.kind \in {"mark", "unmark"} => db = "coin" /\ c.d \in SUBSET Out

JobTyped(t) ==
  LET j == job[t] IN
  /\ ChangeTyped(j.change)
  /\ cpc[t] # "none" => j.h \in Hash
  /\ cpc[t] = "get" => j.change.kind # "none" /\ db \in {"coin", "tx"}
  /\ cpc[t] \in {"append", "write", "written", "block_clear", "block_cleared",
                 "block_write", "block_written", "block_arch"} => j.d \in Data
  /\ cpc[t] \in {"get", "write", "erase", "block_clear"}
       => j.pos \in Pos /\ j.pos < cnt
  /\ cpc[t] \in {"block_cleared", "block_write"} => j.pos \in Pos /\ j.pos <= cnt
  /\ cpc[t] \in {"block_clear", "block_cleared"} => j.old \in Hash

ClientTypeOK ==
  /\ db \in Dbs
  /\ cpc \in [Thread -> ClientLabel]
  /\ job \in [Thread -> Job]
  /\ want \in [Hash -> Data \cup {Blank, Unknown}]
  /\ marked \in [Hash -> SUBSET Out]

ClientInv == ClientTypeOK /\ \A t \in Thread : JobTyped(t)

LEMMA NoJobTyped == NoJob \in Job /\ NoJob.change.kind = "none"
BY DEF NoJob, Job, NoChange, Change

LEMMA ClientTypeInit == ClientInit => ClientInv
BY NoJobTyped DEF ClientInit, ClientInv, ClientTypeOK, JobTyped, ChangeTyped,
   ClientLabel

(* A procedure of thread t moves on.                                       *)
LEMMA ClientMoves ==
  ASSUME TypeInv, TypeInv', ClientInv, cnt' >= cnt, db' = db, NEW t \in Thread,
         NEW l \in ClientLabel, NEW j \in Job,
         cpc' = [cpc EXCEPT ![t] = l], job' = [job EXCEPT ![t] = j],
         want' \in [Hash -> Data \cup {Blank, Unknown}],
         marked' \in [Hash -> SUBSET Out],
         cpc'[t] = l /\ job'[t] = j => JobTyped(t)'
  PROVE  ClientInv'
<1>1. cpc'[t] = l /\ job'[t] = j  BY DEF ClientInv, ClientTypeOK
<1>2. ClientTypeOK'  BY DEF ClientInv, ClientTypeOK
<1>3. ASSUME NEW u \in Thread \ {t} PROVE JobTyped(u)'
  <2>1. cpc'[u] = cpc[u] /\ job'[u] = job[u]  BY DEF ClientInv, ClientTypeOK
  <2>2. cnt \in Int /\ cnt' \in Int  BY BoundAssumption DEF TypeInv, TypeOK
  <2>3. \A p \in Pos : p \in Int  BY BoundAssumption DEF Pos
  <2>4. \A p \in Pos : p < cnt => p < cnt'  BY <2>2, <2>3
  <2>5. \A p \in Pos : p <= cnt => p <= cnt'  BY <2>2, <2>3
  <2>6. JobTyped(u)  BY DEF ClientInv
  <2> QED  BY <2>1, <2>4, <2>5, <2>6 DEF JobTyped, ChangeTyped
<1> QED  BY <1>1, <1>2, <1>3 DEF ClientInv

LEMMA ContinueTyped ==
  ASSUME TypeInv, TypeInv', ClientInv, cnt' >= cnt, NEW t \in Thread,
         NEW l \in ClientLabel, Continue(t, l),
         cpc'[t] = l /\ job'[t] = job[t] /\ db' = db => JobTyped(t)'
  PROVE  ClientInv'
<1>1. job[t] \in Job /\ job' = [job EXCEPT ![t] = job[t]]
  BY DEF ClientInv, ClientTypeOK, Continue
<1>2. /\ want' \in [Hash -> Data \cup {Blank, Unknown}]
      /\ marked' \in [Hash -> SUBSET Out]
  BY DEF ClientInv, ClientTypeOK, Continue
<1> QED  BY <1>1, <1>2, ClientMoves DEF Continue

LEMMA DoneTyped ==
  ASSUME TypeInv, TypeInv', ClientInv, cnt' >= cnt, NEW t \in Thread,
         NEW h \in Hash, NEW w \in Data \cup {Blank, Unknown}, Done(t, h, w)
  PROVE  ClientInv'
<1>1. want' \in [Hash -> Data \cup {Blank, Unknown}]
  BY DEF ClientInv, ClientTypeOK, Done
<1>2. marked' \in [Hash -> SUBSET Out]
  BY DEF ClientInv, ClientTypeOK, Done, JobTyped, ChangeTyped
<1>3. cpc'[t] = "none" /\ job'[t] = NoJob => JobTyped(t)'
  BY NoJobTyped DEF JobTyped, ChangeTyped
<1>4. "none" \in ClientLabel  BY DEF ClientLabel
<1> QED  BY <1>1, <1>2, <1>3, <1>4, NoJobTyped, ClientMoves DEF Done

LEMMA BeginTyped ==
  ASSUME TypeInv, TypeInv', ClientInv, cnt' >= cnt, NEW t \in Thread,
         NEW l \in ClientLabel, NEW j \in Job, j.h \in Hash, Begin(t, l, j),
         ChangeTyped(j.change),
         cpc'[t] = l /\ job'[t] = j /\ db' = db => JobTyped(t)'
  PROVE  ClientInv'
<1>1. want' \in [Hash -> Data \cup {Blank, Unknown}]
  BY DEF ClientInv, ClientTypeOK, Begin
<1>2. marked' \in [Hash -> SUBSET Out]
  BY DEF ClientInv, ClientTypeOK, Begin
<1> QED  BY <1>1, <1>2, ClientMoves DEF Begin

(* What a client may change a record to is a record.                       *)
LEMMA ApplyTyped ==
  ASSUME ClientTypeOK, NEW c \in Change, ChangeTyped(c), c.kind # "none",
         NEW old \in Data \cup {Fresh}
  PROVE  Apply(c, old) \in Data
<1>1. CASE c.kind = "all"  BY <1>1 DEF Apply, ChangeTyped
<1>2. CASE c.kind \in {"mark", "unmark"}
  <2>1. db = "coin" /\ c.d \in SUBSET Out /\ Data = SUBSET Out /\ Fresh = {}
    BY <1>2, ClientAssumption DEF ChangeTyped, ClientTypeOK, Fresh
  <2> QED  BY <1>2, <2>1 DEF Apply
<1> QED  BY <1>1, <1>2 DEF Change

LEMMA ChangesTyped ==
  ASSUME ClientTypeOK, NEW h \in Hash, NEW c \in Changes(h)
  PROVE  c \in Change /\ ChangeTyped(c) /\ c.kind # "none"
<1>1. CASE \E d \in Data : c = SetAll(d)
  BY <1>1 DEF SetAll, Change, ChangeTyped
<1>2. CASE \E o \in Out : c = Mark(o) \/ c = Unmark(o)
  <2>1. db = "coin"  BY <1>2 DEF Changes, Mark, Unmark
  <2> QED  BY <1>2, <2>1 DEF Mark, Unmark, Change, ChangeTyped
<1> QED  BY <1>1, <1>2 DEF Changes

-----------------------------------------------------------------------------
(* Every step of a client is one of the database, or none.                 *)

LEMMA WriteIsCall ==
  ASSUME NEW t \in Thread, NEW p \in Pos, NEW h \in Hash, NEW d \in Data,
         TypeInv, p <= cnt, bc_write(t, p, h, d)
  PROVE  Call(t)
<1>1. cnt \in Int /\ p \in Int  BY BoundAssumption DEF TypeInv, TypeOK, Pos
<1>2. CASE p < cnt  BY <1>2 DEF Call
<1>3. CASE p = cnt  BY <1>3 DEF Call, bc_append
<1> QED  BY <1>1, <1>2, <1>3

LEMMA ClientRefines ==
  ASSUME TypeInv, ClientInv, NEW t \in Thread, ClientStep(t) \/ ClientCall(t)
  PROVE  Step(t) \/ Call(t) \/ UNCHANGED vars
<1>a. JobTyped(t)  BY DEF ClientInv
<1>b. cnt \in Int /\ \A p \in Pos : p \in Int
  BY BoundAssumption DEF TypeInv, TypeOK, Pos
<1>1. CASE Step(t) \/ WriteGet(t) \/ Written(t) \/ WriteBlockWritten(t)
  BY <1>1 DEF WriteGet, Written, WriteBlockWritten
<1>2. CASE WriteAppend(t)
  BY <1>2, <1>a DEF WriteAppend, Returned, JobTyped, Call
<1>3. CASE WriteAt(t)
  <2>1. /\ job[t].pos \in Pos /\ job[t].pos < cnt /\ job[t].h \in Hash
        /\ job[t].d \in Data /\ bc_write(t, job[t].pos, job[t].h, job[t].d)
    BY <1>3, <1>a DEF WriteAt, Returned, JobTyped
  <2> QED  BY <2>1 DEF Call
<1>4. CASE EraseClear(t)
  <2>1. job[t].pos \in Pos /\ job[t].pos < cnt
    BY <1>4, <1>a DEF EraseClear, Returned, JobTyped
  <2> QED  BY <1>4, <2>1 DEF EraseClear, Call
<1>5. CASE Erased(t)
  BY <1>5, <1>a DEF Erased, Returned, JobTyped, Call
<1>6. CASE WriteBlockClear(t)
  <2>1. job[t].pos \in Pos /\ job[t].pos < cnt
    BY <1>6, <1>a DEF WriteBlockClear, Returned, JobTyped
  <2> QED  BY <1>6, <2>1 DEF WriteBlockClear, Call
<1>7. CASE WriteBlockCleared(t)
  BY <1>7, <1>a DEF WriteBlockCleared, Returned, JobTyped, Call
<1>8. CASE WriteBlockData(t)
  <2>1. /\ job[t].pos \in Pos /\ job[t].pos <= cnt /\ job[t].h \in Hash
        /\ job[t].d \in Data /\ bc_write(t, job[t].pos, job[t].h, job[t].d)
    BY <1>8, <1>a DEF WriteBlockData, Returned, JobTyped
  <2> QED  BY <2>1, WriteIsCall
<1>9. CASE WriteArchBlockData(t)
  BY <1>9, <1>a DEF WriteArchBlockData, Returned, JobTyped, Call
<1>10. CASE ClientCall(t)
  BY <1>10 DEF ClientCall, WriteFind, EraseFind, WriteArchBlock, WriteBlock, Call
<1> QED
  BY <1>1, <1>2, <1>3, <1>4, <1>5, <1>6, <1>7, <1>8, <1>9, <1>10 DEF ClientStep

LEMMA ClientIsNext ==
  ASSUME TypeInv, ClientInv, [ClientNext]_allVars
  PROVE  [Next]_vars
<1>1. CASE ClientCrash  BY <1>1 DEF ClientCrash, Next
<1>2. CASE UNCHANGED allVars  BY <1>2 DEF allVars
<1> QED  BY <1>1, <1>2, ClientRefines DEF ClientNext, Next

(* The records that clients write and the positions they go to are well    *)
(* typed.                                                                  *)
LEMMA ClientStepTyped ==
  ASSUME TypeInv, TypeInv', ClientInv, cnt' >= cnt, NEW t \in Thread,
         ClientStep(t)
  PROVE  ClientInv'
<1>a. /\ JobTyped(t) /\ ClientTypeOK /\ job[t] \in Job /\ job[t].change \in Change
      /\ cpc[t] \in ClientLabel
  BY DEF ClientInv, ClientTypeOK, Job
<1>b. /\ cnt \in Int /\ cnt' \in Int /\ \A p \in Pos : p \in Int
  BY BoundAssumption DEF TypeInv, TypeOK, Pos
<1>c. \A p \in Pos : p <= cnt => p <= cnt'  BY <1>b
<1>d. \A p \in Pos : p < cnt => p < cnt'  BY <1>b
<1>e. \A p \in Pos : p < cnt => p <= cnt'  BY <1>b
<1>1. CASE Step(t) /\ UNCHANGED clientVars
  <2>1. cpc' = cpc /\ job' = job /\ db' = db /\ want' = want /\ marked' = marked
    BY <1>1 DEF clientVars
  <2>2. ClientTypeOK'  BY <1>a, <2>1 DEF ClientTypeOK
  <2>3. ASSUME NEW u \in Thread PROVE JobTyped(u)'
    <3>1. JobTyped(u)  BY DEF ClientInv
    <3> QED  BY <2>1, <1>c, <1>d, <3>1 DEF JobTyped, ChangeTyped
  <2> QED  BY <2>2, <2>3 DEF ClientInv
<1>2. CASE WriteGet(t)
  <2> DEFINE j == job[t]
             r == bc_get(j.pos)
             d == Apply(j.change, r.data)
  <2>1. /\ cpc[t] = "get" /\ j.h \in Hash /\ j.pos \in Pos /\ j.pos < cnt
        /\ j.change.kind # "none" /\ ChangeTyped(j.change) /\ db \in {"coin", "tx"}
    BY <1>2, <1>a DEF WriteGet, Returned, JobTyped
  <2>2. CASE r.err # "ok" /\ Done(t, j.h, Unknown)
    BY <2>1, <2>2, DoneTyped
  <2>3. r.err = "ok" => r.data \in Data
    BY <2>1 DEF bc_get, Live, TypeInv, TypeOK, IdxRec
  <2>4. r.err = "ok" => d \in Data
    BY <1>a, <2>1, <2>3, ApplyTyped
  <2>5. CASE r.err = "ok" /\ Done(t, j.h, d)
    BY <2>1, <2>4, <2>5, DoneTyped
  <2>6. CASE /\ r.err = "ok"
             /\ cpc' = [cpc EXCEPT ![t] = IF db = "coin" THEN "write" ELSE "append"]
             /\ job' = [job EXCEPT ![t].d = d]
             /\ UNCHANGED <<db, want, marked>>
    <3> DEFINE l == IF db = "coin" THEN "write" ELSE "append"
               jj == [j EXCEPT !.d = d]
    <3>1. jj \in Job /\ l \in ClientLabel  BY <1>a, <2>4, <2>6 DEF Job, ClientLabel
    <3>2. /\ jj.d = d /\ jj.change = j.change /\ jj.h = j.h /\ jj.pos = j.pos
          /\ jj.old = j.old
      BY <1>a DEF Job
    <3>3. job' = [job EXCEPT ![t] = jj]  BY <2>6
    <3> HIDE DEF d, jj
    <3>4. ASSUME cpc'[t] = l, job'[t] = jj PROVE JobTyped(t)'
      <4>1. cpc'[t] \in {"write", "append"} /\ db' = db  BY <2>6, <3>4
      <4>2. j.pos < cnt' /\ jj.d \in Data  BY <1>d, <2>1, <2>4, <2>6, <3>2
      <4> QED  BY <2>1, <3>2, <3>4, <4>1, <4>2 DEF JobTyped, ChangeTyped
    <3>5. /\ want' \in [Hash -> Data \cup {Blank, Unknown}]
          /\ marked' \in [Hash -> SUBSET Out] /\ db' = db
      BY <1>a, <2>6 DEF ClientTypeOK
    <3>6. cpc' = [cpc EXCEPT ![t] = l]  BY <2>6
    <3> HIDE DEF l
    <3> QED  BY <3>1, <3>3, <3>4, <3>5, <3>6, ClientMoves
  <2> QED  BY <1>2, <2>2, <2>5, <2>6 DEF WriteGet
<1>3. CASE WriteAppend(t) \/ WriteAt(t)
  <2>1. cpc[t] \in {"append", "write"} /\ Continue(t, "written")
    BY <1>3 DEF WriteAppend, WriteAt, Returned
  <2> QED  BY <1>a, <2>1, ContinueTyped DEF JobTyped, ChangeTyped, ClientLabel
<1>4. CASE Written(t)
  <2>1. cpc[t] = "written" /\ job[t].h \in Hash /\ job[t].d \in Data
    BY <1>4, <1>a DEF Written, Returned, JobTyped
  <2> QED  BY <1>4, <2>1, DoneTyped DEF Written
<1>5. CASE EraseClear(t)
  <2>1. cpc[t] = "erase" /\ Continue(t, "erased")
    BY <1>5 DEF EraseClear, Returned
  <2> QED  BY <1>a, <2>1, ContinueTyped DEF JobTyped, ChangeTyped, ClientLabel
<1>6. CASE Erased(t)
  <2>1. job[t].h \in Hash  BY <1>6, <1>a DEF Erased, Returned, JobTyped
  <2> QED  BY <1>6, <2>1, DoneTyped DEF Erased
<1>7. CASE WriteBlockClear(t)
  <2>1. cpc[t] = "block_clear" /\ Continue(t, "block_cleared")
    BY <1>7 DEF WriteBlockClear, Returned
  <2> QED  BY <1>a, <1>e, <2>1, ContinueTyped DEF JobTyped, ChangeTyped, ClientLabel
<1>8. CASE WriteBlockCleared(t)
  <2>1. cpc[t] = "block_cleared" /\ job[t].h \in Hash
    BY <1>8, <1>a DEF WriteBlockCleared, Returned, JobTyped
  <2>2. CASE Continue(t, "block_write")
    BY <1>a, <1>c, <2>1, <2>2, ContinueTyped DEF JobTyped, ChangeTyped, ClientLabel
  <2>3. CASE Done(t, job[t].h, want[job[t].h])
    <3>1. want[job[t].h] \in Data \cup {Blank, Unknown}
      BY <1>a, <2>1 DEF ClientTypeOK
    <3> QED  BY <2>1, <2>3, <3>1, DoneTyped
  <2> QED  BY <1>8, <2>2, <2>3 DEF WriteBlockCleared
<1>9. CASE WriteBlockData(t) \/ WriteArchBlockData(t)
  <2>1. cpc[t] \in {"block_write", "block_arch"} /\ Continue(t, "block_written")
    BY <1>9 DEF WriteBlockData, WriteArchBlockData, Returned
  <2> QED  BY <1>a, <2>1, ContinueTyped DEF JobTyped, ChangeTyped, ClientLabel
<1>10. CASE WriteBlockWritten(t)
  <2>1. job[t].h \in Hash /\ job[t].d \in Data
    BY <1>10, <1>a DEF WriteBlockWritten, Returned, JobTyped
  <2>2. want[job[t].h] \in Data \cup {Blank, Unknown}
    BY <1>a, <2>1 DEF ClientTypeOK
  <2> QED  BY <1>10, <2>1, <2>2, DoneTyped DEF WriteBlockWritten
<1> QED
  BY <1>1, <1>2, <1>3, <1>4, <1>5, <1>6, <1>7, <1>8, <1>9, <1>10 DEF ClientStep

LEMMA ClientCallTyped ==
  ASSUME TypeInv, TypeInv', ClientInv, cnt' >= cnt, NEW t \in Thread,
         ClientCall(t)
  PROVE  ClientInv'
<1>a. ClientTypeOK /\ BlockData \in [Hash -> Data]
  BY ClientAssumption DEF ClientInv
<1>b. cnt \in Int /\ cnt' \in Int /\ \A p \in Pos : p \in Int
  BY BoundAssumption DEF TypeInv, TypeOK, Pos
<1>c. \A p \in Pos : p <= cnt => p <= cnt'  BY <1>b
<1>d. \A p \in Pos : p < cnt => p < cnt'  BY <1>b
<1>1. ASSUME NEW h \in Hash, NEW c \in Changes(h), WriteFind(t, h, c)
      PROVE  ClientInv'
  <2> DEFINE d == Apply(c, Fresh)
             j == [NoJob EXCEPT !.h = h, !.change = c, !.d = d, !.pos = Found(h)]
  <2>1. c \in Change /\ ChangeTyped(c) /\ c.kind # "none"  BY <1>a, ChangesTyped
  <2>2. d \in Data  BY <1>a, <2>1, ApplyTyped
  <2>3. Found(h) # -1 => Found(h) \in Pos /\ Found(h) < cnt
    BY FoundTyped DEF TypeInv
  <2>4. Found(h) \in Int  BY <1>b, <2>3
  <2> HIDE DEF d
  <2>5. j \in Job  BY <2>1, <2>2, <2>4 DEF NoJob, Job, NoChange
  <2>6. /\ j.h = h /\ j.change = c /\ j.d = d /\ j.pos = Found(h)
    BY DEF NoJob
  <2> HIDE DEF j
  <2>7. CASE \E l \in {"get", "write"} :
               /\ Found(h) # -1 /\ Begin(t, l, j) /\ (l = "get" => db # "peer")
    <3>1. PICK l \in {"get", "write"} :
               /\ Found(h) # -1 /\ Begin(t, l, j) /\ (l = "get" => db # "peer")
      BY <2>7
    <3>2. l \in ClientLabel  BY DEF ClientLabel
    <3>3. ASSUME cpc'[t] = l, job'[t] = j, db' = db PROVE JobTyped(t)'
      <4>1. j.pos \in Pos /\ j.pos < cnt'  BY <1>d, <2>3, <2>6, <3>1
      <4>2. l = "get" => db \in {"coin", "tx"}  BY <1>1, <3>1 DEF WriteFind
      <4> QED  BY <2>1, <2>2, <2>6, <3>1, <3>3, <4>1, <4>2 DEF JobTyped, ChangeTyped
    <3> QED  BY <2>1, <2>5, <2>6, <3>1, <3>2, <3>3, BeginTyped
  <2>8. CASE Found(h) = -1 /\ Begin(t, "append", j)
    <3>1. "append" \in ClientLabel  BY DEF ClientLabel
    <3>3. ASSUME cpc'[t] = "append", job'[t] = j, db' = db PROVE JobTyped(t)'
      BY <2>1, <2>2, <2>6, <3>3 DEF JobTyped, ChangeTyped
    <3> QED  BY <2>1, <2>5, <2>6, <2>8, <3>1, <3>3, BeginTyped
  <2>9. CASE Done(t, h, Blank)  BY <2>9, DoneTyped
  <2> QED  BY <1>1, <2>7, <2>8, <2>9 DEF WriteFind, d, j
<1>2. ASSUME NEW h \in Hash, EraseFind(t, h) PROVE ClientInv'
  <2> DEFINE j == [NoJob EXCEPT !.h = h, !.pos = Found(h)]
  <2>1. CASE Done(t, h, Blank)  BY <2>1, DoneTyped
  <2>2. CASE Found(h) # -1 /\ Begin(t, "erase", j)
    <3>1. Found(h) \in Pos /\ Found(h) < cnt  BY <2>2, FoundTyped DEF TypeInv
    <3>2. j \in Job /\ j.h = h /\ j.pos = Found(h) /\ j.change = NoChange
      BY <1>b, <3>1 DEF NoJob, Job, NoChange, Change
    <3> HIDE DEF j
    <3>3. ChangeTyped(j.change)  BY <3>2 DEF ChangeTyped, NoChange
    <3>4. ASSUME cpc'[t] = "erase", job'[t] = j, db' = db PROVE JobTyped(t)'
      BY <1>d, <3>1, <3>2, <3>3, <3>4 DEF JobTyped, ChangeTyped
    <3>5. "erase" \in ClientLabel  BY DEF ClientLabel
    <3> QED  BY <2>2, <3>2, <3>3, <3>4, <3>5, BeginTyped
  <2> QED  BY <1>2, <2>1, <2>2 DEF EraseFind
<1>3. ASSUME NEW h \in Hash, WriteArchBlock(t, h) PROVE ClientInv'
  <2> DEFINE j == [NoJob EXCEPT !.h = h, !.d = BlockData[h]]
  <2>1. CASE Done(t, h, BlockData[h])  BY <1>a, <2>1, DoneTyped
  <2>2. CASE Begin(t, "block_arch", j)
    <3>1. j.h = h /\ j.d \in Data /\ j.change = NoChange  BY <1>a DEF NoJob
    <3>2. j \in Job  BY <1>a, NoJobTyped DEF Job
    <3> HIDE DEF j
    <3>3. ChangeTyped(j.change)  BY <3>1 DEF ChangeTyped, NoChange
    <3>4. ASSUME cpc'[t] = "block_arch", job'[t] = j, db' = db PROVE JobTyped(t)'
      BY <3>1, <3>3, <3>4 DEF JobTyped, ChangeTyped
    <3>5. "block_arch" \in ClientLabel  BY DEF ClientLabel
    <3> QED  BY <2>2, <3>1, <3>2, <3>3, <3>4, <3>5, BeginTyped
  <2> QED  BY <1>3, <2>1, <2>2 DEF WriteArchBlock
<1>4. ASSUME NEW h \in Hash, NEW p \in Pos, p <= cnt, WriteBlock(t, p, h)
      PROVE  ClientInv'
  <2> DEFINE j == [NoJob EXCEPT !.h = h, !.d = BlockData[h], !.pos = p]
             jo == [j EXCEPT !.old = idx[p].hash]
  <2>1. CASE Done(t, h, BlockData[h])  BY <1>a, <2>1, DoneTyped
  <2>2. CASE Begin(t, "block_write", j)
    <3>2. /\ j \in Job /\ j.h = h /\ j.d \in Data /\ j.change = NoChange
          /\ j.pos = p
      BY <1>a, <1>b DEF NoJob, Job, NoChange, Change
    <3> HIDE DEF j
    <3>3. ChangeTyped(j.change)  BY <3>2 DEF ChangeTyped, NoChange
    <3>4. ASSUME cpc'[t] = "block_write", job'[t] = j, db' = db PROVE JobTyped(t)'
      BY <1>4, <1>c, <3>2, <3>3, <3>4 DEF JobTyped, ChangeTyped
    <3>5. "block_write" \in ClientLabel  BY DEF ClientLabel
    <3> QED  BY <2>2, <3>2, <3>3, <3>4, <3>5, BeginTyped
  <2>3. CASE OtherBlock(p, h) /\ Begin(t, "block_clear", jo)
    <3>1. p < cnt /\ idx[p].hash \in Hash
      BY <2>3 DEF OtherBlock, Live, TypeInv, TypeOK, IdxRec
    <3>2. /\ jo \in Job /\ jo.h = h /\ jo.d \in Data /\ jo.change = NoChange
          /\ jo.pos = p /\ jo.old \in Hash
      BY <1>a, <1>b, <3>1 DEF NoJob, Job, NoChange, Change
    <3> HIDE DEF jo
    <3>3. ChangeTyped(jo.change)  BY <3>2 DEF ChangeTyped, NoChange
    <3>4. ASSUME cpc'[t] = "block_clear", job'[t] = jo, db' = db PROVE JobTyped(t)'
      BY <1>d, <3>1, <3>2, <3>3, <3>4 DEF JobTyped, ChangeTyped
    <3>5. "block_clear" \in ClientLabel  BY DEF ClientLabel
    <3> QED  BY <2>3, <3>2, <3>3, <3>4, <3>5, BeginTyped
  <2> QED  BY <1>4, <2>1, <2>2, <2>3 DEF WriteBlock
<1> QED  BY <1>1, <1>2, <1>3, <1>4 DEF ClientCall

LEMMA ClientTypeNext ==
  TypeInv /\ ClientInv /\ [ClientNext]_allVars => TypeInv' /\ ClientInv'
<1> SUFFICES ASSUME TypeInv, ClientInv, [ClientNext]_allVars
             PROVE  TypeInv' /\ ClientInv'
  OBVIOUS
<1>1. TypeInv' /\ cnt' >= cnt  BY ClientIsNext, TypeNext, CountGrows
<1>2. CASE UNCHANGED allVars
  <2>1. cpc' = cpc /\ job' = job /\ db' = db /\ want' = want /\ marked' = marked
        /\ cnt' = cnt
    BY <1>2 DEF allVars, vars, files, clientVars
  <2>2. ClientTypeOK'  BY <2>1 DEF ClientInv, ClientTypeOK
  <2>3. \A t \in Thread : JobTyped(t)'
    BY <2>1 DEF ClientInv, JobTyped, ChangeTyped
  <2> QED  BY <1>1, <2>2, <2>3 DEF ClientInv
<1>3. CASE ClientCrash
  <2>1. want' \in [Hash -> Data \cup {Blank, Unknown}]
    BY <1>3 DEF ClientCrash, ClientInv, ClientTypeOK
  <2> QED  BY <1>1, <1>3, <2>1, NoJobTyped
           DEF ClientCrash, ClientInv, ClientTypeOK, JobTyped, ChangeTyped, ClientLabel
<1> QED  BY <1>1, <1>2, <1>3, ClientStepTyped, ClientCallTyped DEF ClientNext

LEMMA ClientTypeCorrect == ClientSpec => [](TypeInv /\ ClientInv)
<1>1. ClientInit => TypeInv /\ ClientInv
  BY ClientTypeInit, TypeInit DEF ClientInit
<1> QED  BY <1>1, ClientTypeNext, PTL DEF ClientSpec

(* The procedures of the coin service use the database as BcStore says     *)
(* that its clients do: they write records at positions up to the next one *)
(* and clear only positions that exist.  What is proved of every behaviour *)
(* of BcStore is so true of the coin, block, tx and peer databases, with   *)
(* any number of threads in any of the procedures.                         *)
THEOREM ClientsImplementStore == ClientSpec => Spec
<1>1. ClientInit => Init  BY DEF ClientInit
<1> QED  BY <1>1, ClientTypeCorrect, ClientIsNext, PTL DEF ClientSpec, Spec

-----------------------------------------------------------------------------
(* One thread: the coin, tx and peer databases.                            *)

OneThread == \A t, u \in Thread : t = u

(* Where the database is in the call that a procedure has made.            *)
RecordLabel == {"none", "get", "append", "write", "written", "erase", "erased"}

Link(t) ==
  LET rec == loc[t].rec IN
  /\ cpc[t] = "none" => job[t] = NoJob
  /\ cpc[t] \in {"none", "get", "append", "write", "erase", "block_clear",
                 "block_write", "block_arch"} => pc[t] = "idle"
  /\ cpc[t] = "written" => pc[t] \in WriteLabel \cup {"idle"}
  /\ cpc[t] \in {"erased", "block_cleared"} => pc[t] \in ClearLabel \cup {"idle"}
  /\ cpc[t] = "block_written"
       => pc[t] \in (WriteLabel \ {"rw_idx"}) \cup ArchLabel \cup {"idle"}
  /\ pc[t] \in ClearLabel => loc[t].op = "clear" /\ loc[t].pos = job[t].pos
  /\ pc[t] \in WriteLabel \cup ArchLabel => rec.hash = job[t].h /\ rec.crc = job[t].d
  /\ pc[t] = "idx_set" /\ loc[t].pos \in Pos => idx[loc[t].pos] = Blank

(* The entries of a hash.                                                  *)
At(p, h) == idx[p] # Blank /\ idx[p].hash = h
Absent(h) == \A p \in Pos : ~At(p, h)
Holds(h, d) == \E p \in Pos : At(p, h) /\ idx[p].crc = d
Unique == \A p, q \in Pos : \A h \in Hash : At(p, h) /\ At(q, h) => p = q

(* What a procedure knows of the entry of its hash.                        *)
RecProc(t) ==
  LET h == job[t].h
      pos == job[t].pos
      d == job[t].d IN
  /\ cpc[t] \in RecordLabel
  /\ cpc[t] \in {"get", "write", "erase"} => At(pos, h)
  /\ cpc[t] = "get" /\ db = "tx" =>
       job[t].change.kind = "all" /\ job[t].change.d = idx[pos].crc
  /\ cpc[t] \in {"write"} => db # "tx"
  /\ cpc[t] = "append" => Absent(h)
  /\ pc[t] \in {"idx_set", "undo_tab"} => Absent(h)
  /\ pc[t] = "rw_idx" => At(loc[t].pos, h) /\ db # "tx"
  /\ cpc[t] = "written" /\ pc[t] = "idle" =>
       /\ ret[t] = "ok" => Holds(h, d)
       /\ ret[t] # "ok" /\ db = "tx" => Absent(h)
  /\ pc[t] \in ClearLabel => At(pos, h)
  /\ cpc[t] = "erased" /\ pc[t] = "idle" /\ ret[t] = "ok" => Absent(h)
  /\ cpc[t] = "erased" /\ db = "tx" => pc[t] = "idle" /\ ret[t] = "ok"

(* What was wanted is there.                                               *)
Kept(h) ==
  /\ want[h] \notin {Blank, Unknown} => Holds(h, want[h])
  /\ want[h] = Blank => Absent(h)
  /\ want[h] = Unknown /\ db = "tx" => Absent(h)

RecInv ==
  /\ Unique
  /\ \A t \in Thread : Link(t) /\ RecProc(t)
  /\ \A h \in Hash : ~Busy(h) => Kept(h)

(* What is known of the database, for any number of threads.               *)
StoreFacts ==
  /\ TypeInv /\ MutexInv /\ StoreInv /\ CallInv
  /\ crashes = 0 => LiveAcked

LEMMA ClientFacts == ClientSpec => [](StoreFacts /\ ClientInv)
<1>1. Spec => []StoreFacts
  BY StoreCorrect, LiveAckedCorrect, CallCorrect, PTL DEF StoreFacts
<1> QED  BY <1>1, ClientsImplementStore, ClientTypeCorrect, PTL

(* A thread alone between two calls finds the mutex free ...               *)
LEMMA AloneUnlocked ==
  ASSUME StoreFacts, OneThread, NEW t \in Thread, pc[t] = "idle"
  PROVE  lock = NoThread
<1>1. lock # t  BY DEF StoreFacts, MutexInv, LockLabel
<1> QED  BY <1>1 DEF StoreFacts, TypeInv, TypeOK, OneThread

(* ... every entry readable ...                                            *)
LEMMA AloneReads ==
  ASSUME StoreFacts, crashes = 0, lock = NoThread, NEW p \in Pos, idx[p] # Blank
  PROVE  Live(p) /\ bc_get(p).err = "ok" /\ bc_get(p).data = idx[p].crc
<1>1. Live(p)  BY DEF StoreFacts, StoreInv, Counted, Live
<1>2. ~Unfinished(p)  BY NoThreadAssumption DEF Unfinished
<1>3. p \in acked  BY <1>2 DEF StoreFacts, LiveAcked
<1>4. CrcOk(idx[p])  BY <1>3 DEF StoreFacts, StoreInv, AckedReadable
<1> QED  BY <1>1, <1>4 DEF bc_get

(* ... and finds every hash that has an entry.                             *)
LEMMA AloneFinds ==
  ASSUME StoreFacts, crashes = 0, lock = NoThread, NEW h \in Hash
  PROVE  /\ Found(h) = -1 => Absent(h)
         /\ Found(h) # -1 => Found(h) \in Pos /\ At(Found(h), h)
<1> DEFINE S == {p \in Pos : Live(p) /\ idx[p].hash = h}
<1>1. Found(h) = HighestOf(h)
  BY SoundFinds DEF StoreFacts, TypeInv, StoreInv, Found
<1>2. Found(h) # -1 => Found(h) \in Pos /\ At(Found(h), h)
  BY FoundTyped DEF StoreFacts, TypeInv, At
<1>3. S # {} => Max(S) \in S
  <2>1. MaxPos - 1 \in Int /\ S \subseteq 0 .. MaxPos - 1
    BY BoundAssumption DEF Pos
  <2> HIDE DEF S
  <2> QED  BY <2>1, MaxInRange
<1>4. S # {} => Max(S) \in Nat  BY <1>3, BoundAssumption DEF Pos
<1>5. HighestOf(h) = IF S = {} THEN -1 ELSE Max(S)  BY DEF HighestOf
<1>6. HighestOf(h) = -1 => S = {}
  <2> HIDE DEF S
  <2> QED  BY <1>4, <1>5
<1>7. S = {} => Absent(h)
  BY DEF Absent, At, StoreFacts, StoreInv, Counted, Live
<1> QED  BY <1>1, <1>2, <1>6, <1>7

-----------------------------------------------------------------------------
(* How steps carry the invariant over.                                     *)

(* A step that changes entries of hash g only.                             *)
OnlyOf(g) ==
  \A p \in Pos : \/ idx'[p] = idx[p]
                 \/ /\ idx[p] = Blank \/ idx[p].hash = g
                    /\ idx'[p] = Blank \/ idx'[p].hash = g

LEMMA OthersKept ==
  ASSUME NEW g, OnlyOf(g), db' = db, NEW h \in Hash, h # g, want'[h] = want[h],
         Kept(h)
  PROVE  Kept(h)'
<1>1. Absent(h) => Absent(h)'  BY DEF OnlyOf, Absent, At
<1>2. \A d : Holds(h, d) => Holds(h, d)'  BY DEF OnlyOf, Holds, At
<1> QED  BY <1>1, <1>2 DEF Kept

LEMMA RecAssemble ==
  ASSUME OneThread, NEW t \in Thread, Unique', Link(t)', RecProc(t)',
         \A h \in Hash : job'[t].h # h => Kept(h)'
  PROVE  RecInv'
BY DEF RecInv, OneThread, Busy

(* A procedure returns.                                                    *)
LEMMA RecDone ==
  ASSUME OneThread, ClientInv, RecInv, NEW t \in Thread, NEW h \in Hash, NEW w,
         job[t].h \in {h, Blank}, Done(t, h, w), UNCHANGED <<idx, pc>>,
         pc[t] = "idle",
         w \notin {Blank, Unknown} => Holds(h, w), w = Blank => Absent(h),
         w = Unknown /\ db = "tx" => Absent(h)
  PROVE  RecInv'
<1>1. cpc'[t] = "none" /\ job'[t] = NoJob /\ db' = db /\ pc'[t] = "idle"
  BY DEF Done, ClientInv, ClientTypeOK
<1>2. Unique'  BY DEF RecInv, Unique, At
<1>3. Link(t)'  BY <1>1 DEF Link, WriteLabel, ClearLabel, ArchLabel
<1>4. RecProc(t)'
  BY <1>1 DEF RecProc, ClearLabel, RecordLabel
<1>5. ASSUME NEW g \in Hash PROVE Kept(g)'
  <2>1. CASE g = h
    <3>1. want'[h] = w  BY DEF Done, ClientInv, ClientTypeOK
    <3> QED  BY <1>1, <2>1, <3>1 DEF Kept, Holds, Absent, At
  <2>2. CASE g # h
    <3>1. want'[g] = want[g]  BY <2>2 DEF Done, ClientInv, ClientTypeOK
    <3>2. Kept(g)  BY <2>2, BlankAssumption DEF RecInv, Busy, OneThread
    <3> QED  BY <1>1, <3>1, <3>2 DEF Kept, Holds, Absent, At
  <2> QED  BY <2>1, <2>2
<1> QED  BY <1>2, <1>3, <1>4, <1>5, RecAssemble

(* A procedure begins.                                                     *)
LEMMA RecBegin ==
  ASSUME OneThread, ClientInv, RecInv, NEW t \in Thread, NEW l, NEW j,
         l \in {"get", "append", "write", "erase"}, cpc[t] = "none",
         Begin(t, l, j), UNCHANGED <<idx, pc>>, pc[t] = "idle",
         l \in {"get", "write", "erase"} => At(j.pos, j.h),
         l = "get" /\ db = "tx" => j.change.kind = "all" /\ j.change.d = idx[j.pos].crc,
         l = "write" => db # "tx",
         l = "append" => Absent(j.h)
  PROVE  RecInv'
<1>1. /\ cpc'[t] = l /\ job'[t] = j /\ db' = db /\ pc'[t] = "idle" /\ want' = want
      /\ job[t] = NoJob
  BY DEF Begin, ClientInv, ClientTypeOK, RecInv, Link
<1>2. Unique'  BY DEF RecInv, Unique, At
<1>3. Link(t)'  BY <1>1 DEF Link, WriteLabel, ClearLabel, ArchLabel
<1>4. RecProc(t)'
  BY <1>1 DEF RecProc, ClearLabel, RecordLabel, At, Absent
<1>5. ASSUME NEW g \in Hash PROVE Kept(g)'
  <2>1. Kept(g)  BY <1>1, BlankAssumption DEF RecInv, Busy, OneThread, NoJob
  <2> QED  BY <1>1, <2>1 DEF Kept, Holds, Absent, At
<1> QED  BY <1>2, <1>3, <1>4, <1>5, RecAssemble

(* A procedure goes on; its entries may change.                            *)
LEMMA RecGoesOn ==
  ASSUME OneThread, ClientInv, RecInv, NEW t \in Thread, OnlyOf(job[t].h),
         job'[t].h = job[t].h, db' = db, want' = want,
         Unique', Link(t)', RecProc(t)'
  PROVE  RecInv'
<1>1. ASSUME NEW g \in Hash, job'[t].h # g PROVE Kept(g)'
  <2>1. Kept(g)  BY <1>1 DEF RecInv, Busy, OneThread
  <2> QED  BY <1>1, <2>1, OthersKept
<1> QED  BY <1>1, RecAssemble

LEMMA SameIndex ==
  ASSUME idx' = idx
  PROVE  /\ \A p, h : At(p, h)' <=> At(p, h)
         /\ \A h : (Absent(h)' <=> Absent(h)) /\ OnlyOf(h)
         /\ \A h, d : Holds(h, d)' <=> Holds(h, d)
         /\ Unique => Unique'
BY DEF At, Absent, Holds, Unique, OnlyOf

(* The entry of a hash is taken away.                                      *)
LEMMA BlankedIndex ==
  ASSUME idx \in [Pos -> IdxRec \cup {Blank}], Unique, NEW p \in Pos,
         NEW h \in Hash, At(p, h), idx' = [idx EXCEPT ![p] = Blank]
  PROVE  Absent(h)' /\ OnlyOf(h) /\ Unique'
<1>1. idx'[p] = Blank /\ \A q \in Pos \ {p} : idx'[q] = idx[q]  OBVIOUS
<1>2. Absent(h)'  BY <1>1 DEF Unique, Absent, At
<1>3. OnlyOf(h)  BY <1>1 DEF OnlyOf, At
<1>4. Unique'  BY <1>1 DEF Unique, At
<1> QED  BY <1>2, <1>3, <1>4

(* The entry of a hash is stored, the only one or in place of the old one. *)
LEMMA StoredIndex ==
  ASSUME idx \in [Pos -> IdxRec \cup {Blank}], Unique, NEW p \in Pos,
         NEW rec \in IdxRec, idx' = [idx EXCEPT ![p] = rec],
         \/ At(p, rec.hash)
         \/ idx[p] = Blank /\ Absent(rec.hash)
  PROVE  At(p, rec.hash)' /\ OnlyOf(rec.hash) /\ Unique'
<1>1. idx'[p] = rec /\ \A q \in Pos \ {p} : idx'[q] = idx[q]  OBVIOUS
<1>2. rec # Blank /\ rec.hash \in Hash  BY BlankAssumption DEF IdxRec
<1>3. At(p, rec.hash)'  BY <1>1, <1>2 DEF At
<1>4. OnlyOf(rec.hash)  BY <1>1 DEF OnlyOf, At
<1>5. \A q \in Pos \ {p} : ~At(q, rec.hash)  BY <1>2 DEF Unique, Absent
<1>6. Unique'  BY <1>1, <1>2, <1>5 DEF Unique, At
<1> QED  BY <1>3, <1>4, <1>6

-----------------------------------------------------------------------------
(* The steps of the calls that a procedure of these databases makes.       *)

(* The call of a write returns, or goes on with the index as it is.        *)
LEMMA WriteMoves ==
  ASSUME OneThread, TypeInv, ClientInv, RecInv, NEW t \in Thread,
         cpc[t] = "written", pc[t] \in WriteLabel, idx' = idx, loc' = loc,
         NEW l \in {"append", "append_of", "undo_idx"}, Goto(t, l),
         UNCHANGED clientVars
  PROVE  RecInv'
<1>1. /\ pc'[t] = l /\ cpc' = cpc /\ job' = job /\ db' = db /\ want' = want
  BY DEF Goto, clientVars, TypeInv, TypeOK
<1>2. Link(t) /\ RecProc(t) /\ Unique  BY DEF RecInv
<1>3. Link(t)'
  BY <1>1, <1>2 DEF Link, WriteLabel, ClearLabel, ArchLabel
<1>4. RecProc(t)'
  BY <1>1, <1>2 DEF RecProc, WriteLabel, ClearLabel
<1> QED  BY <1>1, <1>2, <1>3, <1>4, SameIndex, RecGoesOn

LEMMA CallReturns ==
  ASSUME OneThread, TypeInv, ClientInv, RecInv, NEW t \in Thread, NEW e,
         cpc[t] \in {"written", "erased"}, Return(t, e), UNCHANGED clientVars,
         OnlyOf(job[t].h), Unique',
         cpc[t] = "written" /\ e = "ok" => Holds(job[t].h, job[t].d)',
         cpc[t] = "written" /\ e # "ok" /\ db = "tx" => Absent(job[t].h)',
         cpc[t] = "erased" => db # "tx" /\ (e = "ok" => Absent(job[t].h)')
  PROVE  RecInv'
<1>1. /\ pc'[t] = "idle" /\ cpc' = cpc /\ job' = job /\ db' = db /\ want' = want
      /\ ret'[t] = e
  BY DEF Return, Goto, clientVars, TypeInv, TypeOK
<1>2. Link(t) /\ RecProc(t)  BY DEF RecInv
<1>3. Link(t)'
  BY <1>1, <1>2 DEF Link, WriteLabel, ClearLabel, ArchLabel
<1>4. RecProc(t)'
  BY <1>1, <1>2 DEF RecProc, WriteLabel, ClearLabel, Absent, Holds
<1> QED  BY <1>1, <1>3, <1>4, RecGoesOn

LEMMA RecWriteStep ==
  ASSUME OneThread, StoreFacts, ClientInv, RecInv, NEW t \in Thread,
         cpc[t] = "written", pc[t] \in WriteLabel, Step(t), UNCHANGED clientVars
  PROVE  RecInv'
<1> DEFINE rec == loc[t].rec
           pos == loc[t].pos
           h == job[t].h
<1>a. Link(t) /\ RecProc(t) /\ Unique  BY DEF RecInv
<1>b. /\ rec.hash = h /\ rec.crc = job[t].d /\ rec \in IdxRec /\ h \in Hash
  BY <1>a DEF Link, StoreFacts, TypeInv, CallTyped, ClientInv, JobTyped
<1>c. /\ idx \in [Pos -> IdxRec \cup {Blank}] /\ TypeInv
  BY DEF StoreFacts, TypeInv, TypeOK
<1>d. Holding(t)  BY DEF StoreFacts, StoreInv
<1>e. pc[t] # "idx_set" => pos \in Pos
  BY DEF StoreFacts, TypeInv, CallTyped
<1>f. /\ cpc' = cpc /\ job' = job /\ db' = db /\ want' = want  BY DEF clientVars
<1>1. CASE bc_idx_set(t)
  <2>1. pc[t] = "idx_set" /\ Absent(h)  BY <1>1, <1>a DEF bc_idx_set, RecProc
  <2>2. CASE Return(t, "ERR_IO") /\ idx' = idx
    BY <1>f, <1>a, <1>c, <2>1, <2>2, SameIndex, CallReturns
  <2>3. CASE pos \in Pos /\ idx' = [idx EXCEPT ![pos] = rec] /\ loc' = loc
             /\ Goto(t, "table_reset")
    <3>1. idx[pos] = Blank  BY <1>a, <2>1, <2>3 DEF Link
    <3>2. OnlyOf(h) /\ Unique'
      BY <1>a, <1>b, <1>c, <2>1, <2>3, <3>1, StoredIndex
    <3>3. pc'[t] = "table_reset"  BY <1>c, <2>3 DEF Goto, TypeInv, TypeOK
    <3>4. Link(t)'
      BY <1>a, <1>f, <2>3, <3>3 DEF Link, WriteLabel, ClearLabel, ArchLabel
    <3>5. RecProc(t)'  BY <1>a, <1>f, <3>3 DEF RecProc, WriteLabel, ClearLabel
    <3> QED  BY <1>f, <3>2, <3>4, <3>5, RecGoesOn
  <2> QED  BY <1>1, <2>2, <2>3 DEF bc_idx_set, files
<1>2. CASE bc_idx_set_table(t) \/ bc_write_data(t)
  <2>1. idx' = idx /\ loc' = loc
        /\ \E l \in {"append", "append_of", "undo_idx"} : Goto(t, l)
    BY <1>2 DEF bc_idx_set_table, bc_write_data
  <2> QED  BY <1>c, <2>1, WriteMoves
<1>3. CASE bc_write_of(t)
  <2>1. pc[t] = "append_of" /\ Return(t, "ok") /\ idx' = idx
    BY <1>3 DEF bc_write_of
  <2>2. idx[pos] = rec /\ pos \in Pos  BY <1>d, <1>e, <2>1 DEF Holding, StoreLabel
  <2>3. Holds(h, job[t].d)
    BY <1>b, <2>2, BlankAssumption DEF Holds, At
  <2>4. Holds(h, job[t].d)'  BY <1>f, <2>1, <2>3, SameIndex
  <2> QED  BY <1>a, <1>c, <2>1, <2>4, SameIndex, CallReturns
<1>4. CASE bc_rewrite(t)
  <2>1. pc[t] = "rw_idx" /\ At(pos, h) /\ db # "tx"
    BY <1>4, <1>a DEF bc_rewrite, RecProc
  <2>2. CASE Return(t, "ERR_IO") /\ idx' = idx
    BY <1>a, <1>c, <2>1, <2>2, SameIndex, CallReturns
  <2>3. CASE idx' = [idx EXCEPT ![pos] = rec] /\ loc' = loc /\ Goto(t, "append")
    <3>2. OnlyOf(h) /\ Unique'
      BY <1>a, <1>b, <1>c, <1>e, <2>1, <2>3, StoredIndex
    <3>3. pc'[t] = "append"  BY <1>c, <2>3 DEF Goto, TypeInv, TypeOK
    <3>4. Link(t)'
      BY <1>a, <1>f, <2>3, <3>3 DEF Link, WriteLabel, ClearLabel, ArchLabel
    <3>5. RecProc(t)'  BY <1>a, <1>f, <3>3 DEF RecProc, WriteLabel, ClearLabel
    <3> QED  BY <1>f, <3>2, <3>4, <3>5, RecGoesOn
  <2> QED  BY <1>4, <2>2, <2>3 DEF bc_rewrite
<1>5. CASE bc_write_undo(t)
  <2>1. pc[t] = "undo_idx" /\ idx' = [idx EXCEPT ![pos] = Blank] /\ loc' = loc
        /\ Goto(t, "undo_tab")
    BY <1>5 DEF bc_write_undo
  <2>2. idx[pos] = rec /\ pos \in Pos  BY <1>d, <1>e, <2>1 DEF Holding, StoreLabel
  <2>3. At(pos, h)  BY <1>b, <2>2, BlankAssumption DEF At
  <2>4. Absent(h)' /\ OnlyOf(h) /\ Unique'
    BY <1>f, <1>a, <1>b, <1>c, <2>1, <2>2, <2>3, BlankedIndex
  <2>5. pc'[t] = "undo_tab"  BY <1>c, <2>1 DEF Goto, TypeInv, TypeOK
  <2>6. Link(t)'
    BY <1>a, <1>f, <2>1, <2>5 DEF Link, WriteLabel, ClearLabel, ArchLabel
  <2>7. RecProc(t)'
    BY <1>a, <1>f, <2>4, <2>5 DEF RecProc, WriteLabel, ClearLabel, Absent
  <2> QED  BY <1>f, <2>4, <2>6, <2>7, RecGoesOn
<1>6. CASE bc_write_undo_table(t)
  <2>1. pc[t] = "undo_tab" /\ Return(t, "ERR_IO") /\ idx' = idx /\ Absent(h)
    BY <1>6, <1>a DEF bc_write_undo_table, RecProc
  <2> QED  BY <1>f, <1>a, <1>c, <2>1, SameIndex, CallReturns
<1> QED
  BY <1>1, <1>2, <1>3, <1>4, <1>5, <1>6
  DEF Step, WriteLabel, bc_arch_next, bc_arch_set, bc_clear_idx, bc_purge_next,
      bc_arch_write_data, bc_arch_write_of, bc_arch_write_add

LEMMA RecClearStep ==
  ASSUME OneThread, StoreFacts, ClientInv, RecInv, NEW t \in Thread,
         cpc[t] = "erased", pc[t] \in ClearLabel, Step(t), UNCHANGED clientVars
  PROVE  RecInv'
<1> DEFINE pos == loc[t].pos
           h == job[t].h
<1>a. Link(t) /\ RecProc(t) /\ Unique  BY DEF RecInv
<1>b. /\ loc[t].op = "clear" /\ pos = job[t].pos /\ pos \in Pos /\ At(pos, h)
      /\ h \in Hash /\ db # "tx"
  BY <1>a DEF Link, RecProc, StoreFacts, TypeInv, CallTyped, ClientInv, JobTyped,
     ClearLabel
<1>c. /\ idx \in [Pos -> IdxRec \cup {Blank}] /\ TypeInv /\ loc \in [Thread -> Loc]
      /\ loc[t] \in Loc /\ pc \in [Thread -> Label]
  BY DEF StoreFacts, TypeInv, TypeOK
<1>f. /\ cpc' = cpc /\ job' = job /\ db' = db /\ want' = want  BY DEF clientVars
<1>1. ASSUME NEW l \in ClearLabel, Goto(t, l), idx' = idx,
             loc'[t].op = "clear", loc'[t].pos = pos
      PROVE  RecInv'
  <2>1. pc'[t] = l  BY <1>1, <1>c DEF Goto
  <2>2. Link(t)'
    BY <1>1, <1>a, <1>b, <1>f, <2>1 DEF Link, WriteLabel, ClearLabel, ArchLabel
  <2>3. RecProc(t)'
    BY <1>1, <1>a, <1>b, <1>f, <2>1 DEF RecProc, WriteLabel, ClearLabel, At
  <2> QED  BY <1>1, <1>a, <1>f, <2>2, <2>3, SameIndex, RecGoesOn
<1>2. ASSUME NEW e, Return(t, e), e # "ok", idx' = idx PROVE RecInv'
  BY <1>2, <1>a, <1>b, <1>c, SameIndex, CallReturns
<1>3. CASE bc_arch_next(t)
  <2>1. Goto(t, "clear_set") /\ idx' = idx  BY <1>3 DEF bc_arch_next, files
  <2>2. loc'[t].op = loc[t].op /\ loc'[t].pos = pos
    BY <1>3, <1>c DEF bc_arch_next, Loc
  <2> QED  BY <1>1, <1>b, <2>1, <2>2 DEF ClearLabel
<1>4. CASE bc_arch_set(t)
  <2>1. CASE Goto(t, "clear_idx") /\ loc' = loc
    BY <1>1, <1>4, <1>b, <2>1 DEF bc_arch_set, ClearLabel
  <2>2. CASE Return(t, "ERR_EXIST") \/ Return(t, "ERR_IO")
    BY <1>2, <1>4, <2>2 DEF bc_arch_set
  <2> QED  BY <1>4, <1>b, <2>1, <2>2 DEF bc_arch_set, ClearFails
<1>5. CASE bc_clear_idx(t)
  <2>1. CASE Return(t, "ok") /\ idx' = [idx EXCEPT ![pos] = Blank]
    <3>1. Absent(h)' /\ OnlyOf(h) /\ Unique'
      BY <1>f, <1>a, <1>b, <1>c, <2>1, BlankedIndex
    <3> QED  BY <1>b, <1>c, <2>1, <3>1, CallReturns
  <2>2. CASE Return(t, "ERR_IO") /\ idx' = idx  BY <1>2, <2>2
  <2> QED  BY <1>5, <1>b, <2>1, <2>2 DEF bc_clear_idx, ClearFails
<1> QED
  BY <1>3, <1>4, <1>5 DEF Step, ClearLabel, bc_idx_set, bc_idx_set_table,
     bc_write_data, bc_write_of, bc_rewrite, bc_write_undo,
     bc_write_undo_table, bc_purge_next, bc_arch_write_data,
     bc_arch_write_of, bc_arch_write_add

-----------------------------------------------------------------------------
(* The procedures themselves.                                              *)

(* The call of a procedure is made: it returns at once or has begun.       *)
LEMMA CallMade ==
  ASSUME OneThread, TypeInv, ClientInv, RecInv, NEW t \in Thread,
         NEW l \in {"written", "erased"}, Continue(t, l), idx' = idx,
         Link(t)', RecProc(t)'
  PROVE  RecInv'
<1>1. job' = job /\ db' = db /\ want' = want  BY DEF Continue
<1> QED  BY <1>1, SameIndex, RecGoesOn DEF RecInv

LEMMA RecWrites ==
  ASSUME OneThread, StoreFacts, ClientInv, RecInv, NEW t \in Thread,
         WriteAppend(t) \/ WriteAt(t)
  PROVE  RecInv'
<1> DEFINE j == job[t]
<1>a. Link(t) /\ RecProc(t) /\ TypeInv  BY DEF RecInv, StoreFacts
<1>b. /\ pc[t] = "idle" /\ Continue(t, "written") /\ cpc[t] \in {"append", "write"}
  BY DEF WriteAppend, WriteAt, Returned
<1>c. j.h \in Hash /\ j.d \in Data  BY <1>b DEF ClientInv, JobTyped
<1>d. pc \in [Thread -> Label] /\ loc \in [Thread -> Loc] /\ ret \in [Thread -> Result]
  BY DEF StoreFacts, TypeInv, TypeOK
<1>e. cpc'[t] = "written" /\ job' = job /\ db' = db
  BY <1>b DEF Continue, ClientInv, ClientTypeOK
<1>1. CASE WriteAppend(t)
  <2>1. cpc[t] = "append" /\ Absent(j.h) /\ bc_write(t, cnt, j.h, j.d)
    BY <1>1, <1>a DEF WriteAppend, Returned, RecProc, bc_append
  <2>2. idx' = idx /\ ~Live(cnt)
    <3>1. cnt \in Int  BY BoundAssumption DEF StoreFacts, TypeInv, TypeOK
    <3> QED  BY <2>1, <3>1 DEF bc_write, files, Live
  <2>3. CASE Return(t, "ERR_IO")
    <3>1. pc'[t] = "idle" /\ ret'[t] = "ERR_IO"  BY <1>d, <2>3 DEF Return, Goto
    <3>2. Link(t)'  BY <1>e, <3>1 DEF Link, WriteLabel, ClearLabel, ArchLabel
    <3>3. RecProc(t)'
      BY <1>e, <2>1, <2>2, <3>1 DEF RecProc, RecordLabel, ClearLabel, Absent, At
    <3> QED  BY <1>a, <1>b, <2>2, <3>2, <3>3, CallMade
  <2>4. CASE ~Return(t, "ERR_IO")
    <3> DEFINE new == [NoLoc EXCEPT !.op = "write", !.pos = cnt, !.hash = j.h]
               l == [new EXCEPT !.rec = NewRec(cnt, j.h, j.d)]
    <3>1. Enter(t, "idx_set", l)  BY <2>1, <2>2, <2>4 DEF bc_write
    <3>2. l.pos = cnt /\ l.rec.hash = j.h /\ l.rec.crc = j.d
      BY DEF NoLoc, NewRec
    <3>3. pc'[t] = "idx_set" /\ loc'[t] = l  BY <1>d, <3>1 DEF Enter, Goto
    <3> HIDE DEF l
    <3>4. cnt \in Pos => idx[cnt] = Blank
      BY <2>2 DEF StoreFacts, StoreInv, Counted, Live
    <3>5. Link(t)'
      BY <1>e, <2>2, <3>2, <3>3, <3>4 DEF Link, WriteLabel, ClearLabel, ArchLabel
    <3>6. RecProc(t)'
      BY <1>e, <2>1, <2>2, <3>3 DEF RecProc, RecordLabel, ClearLabel, Absent, At
    <3> QED  BY <1>a, <1>b, <2>2, <3>5, <3>6, CallMade
  <2> QED  BY <2>3, <2>4
<1>2. CASE WriteAt(t)
  <2>1. /\ cpc[t] = "write" /\ At(j.pos, j.h) /\ bc_write(t, j.pos, j.h, j.d)
        /\ db # "tx" /\ j.pos \in Pos
    BY <1>2, <1>a DEF WriteAt, Returned, RecProc, ClientInv, JobTyped
  <2>2. idx' = idx /\ Live(j.pos)
    BY <2>1 DEF bc_write, files, Live, At, StoreFacts, StoreInv, Counted
  <2>3. CASE Return(t, "ERR_IO") \/ Return(t, "ERR_EXIST")
    <3>1. pc'[t] = "idle" /\ ret'[t] # "ok"  BY <1>d, <2>3 DEF Return, Goto
    <3>2. Link(t)'  BY <1>e, <3>1 DEF Link, WriteLabel, ClearLabel, ArchLabel
    <3>3. RecProc(t)'
      BY <1>e, <2>1, <3>1 DEF RecProc, RecordLabel, ClearLabel
    <3> QED  BY <1>a, <1>b, <2>2, <3>2, <3>3, CallMade
  <2>4. CASE ~(Return(t, "ERR_IO") \/ Return(t, "ERR_EXIST"))
    <3> DEFINE new == [NoLoc EXCEPT !.op = "write", !.pos = j.pos, !.hash = j.h]
               r == [idx[j.pos] EXCEPT !.size = Size[j.d], !.crc = j.d]
               l == [new EXCEPT !.rec = r]
    <3>1. Enter(t, "rw_idx", l)  BY <2>1, <2>2, <2>4 DEF bc_write
    <3>2. r.hash = j.h /\ r.crc = j.d
      BY <2>1, <2>2 DEF At, StoreFacts, TypeInv, TypeOK, IdxRec
    <3>3. l.pos = j.pos /\ l.rec = r  BY DEF NoLoc
    <3>4. pc'[t] = "rw_idx" /\ loc'[t] = l  BY <1>d, <3>1 DEF Enter, Goto
    <3> HIDE DEF l, r
    <3>5. Link(t)'
      BY <1>e, <2>2, <3>2, <3>3, <3>4 DEF Link, WriteLabel, ClearLabel, ArchLabel
    <3>6. RecProc(t)'
      BY <1>e, <2>1, <2>2, <3>3, <3>4 DEF RecProc, RecordLabel, ClearLabel, At
    <3> QED  BY <1>a, <1>b, <2>2, <3>5, <3>6, CallMade
  <2> QED  BY <2>3, <2>4
<1> QED  BY <1>1, <1>2

LEMMA RecErases ==
  ASSUME OneThread, StoreFacts, ClientInv, RecInv, NEW t \in Thread, EraseClear(t)
  PROVE  RecInv'
<1> DEFINE j == job[t]
<1>a. Link(t) /\ RecProc(t) /\ TypeInv /\ Unique  BY DEF RecInv, StoreFacts
<1>b. /\ pc[t] = "idle" /\ Continue(t, "erased") /\ cpc[t] = "erase"
  BY DEF EraseClear, Returned
<1>c. j.h \in Hash /\ j.pos \in Pos /\ At(j.pos, j.h)
  BY <1>a, <1>b DEF ClientInv, JobTyped, RecProc
<1>d. /\ pc \in [Thread -> Label] /\ loc \in [Thread -> Loc]
      /\ ret \in [Thread -> Result] /\ idx \in [Pos -> IdxRec \cup {Blank}]
  BY DEF StoreFacts, TypeInv, TypeOK
<1>e. cpc'[t] = "erased" /\ job' = job /\ db' = db /\ want' = want
  BY <1>b DEF Continue, ClientInv, ClientTypeOK
<1>1. CASE db = "tx"
  <2>1. bc_idx_clear(t, j.pos)  BY <1>1 DEF EraseClear
  <2>2. /\ pc'[t] = "idle" /\ ret'[t] = "ok" /\ idx' = [idx EXCEPT ![j.pos] = Blank]
    BY <1>b, <1>d, <2>1 DEF bc_idx_clear
  <2>3. Absent(j.h)' /\ OnlyOf(j.h) /\ Unique'
    BY <1>a, <1>c, <1>d, <1>e, <2>2, BlankedIndex
  <2>4. Link(t)'  BY <1>e, <2>2 DEF Link, WriteLabel, ClearLabel, ArchLabel
  <2>5. RecProc(t)'  BY <1>e, <2>2, <2>3 DEF RecProc, RecordLabel, ClearLabel
  <2> QED  BY <1>e, <2>3, <2>4, <2>5, RecGoesOn
<1>2. CASE db # "tx"
  <2>1. bc_clear(t, j.pos) /\ Live(j.pos)
    BY <1>2, <1>c DEF EraseClear, At, Live, StoreFacts, StoreInv, Counted
  <2>2. /\ pc'[t] = "clear_next" /\ idx' = idx
        /\ loc'[t].op = "clear" /\ loc'[t].pos = j.pos
    <3> DEFINE l == [NoLoc EXCEPT !.op = "clear", !.pos = j.pos, !.rec = idx[j.pos]]
    <3>1. l.op = "clear" /\ l.pos = j.pos  BY DEF NoLoc
    <3>2. Goto(t, "clear_next") /\ loc' = [loc EXCEPT ![t] = l] /\ idx' = idx
      BY <2>1 DEF bc_clear, files
    <3> HIDE DEF l
    <3> QED  BY <1>d, <3>1, <3>2 DEF Goto
  <2>3. Link(t)'  BY <1>e, <2>2 DEF Link, WriteLabel, ClearLabel, ArchLabel
  <2>4. RecProc(t)'
    BY <1>2, <1>c, <1>e, <2>2 DEF RecProc, RecordLabel, ClearLabel, At
  <2> QED  BY <1>a, <1>b, <2>2, <2>3, <2>4, CallMade
<1> QED  BY <1>1, <1>2

(* A procedure looks at the entry of its hash.                             *)
LEMMA RecGets ==
  ASSUME OneThread, StoreFacts, ClientInv, RecInv, crashes = 0, NEW t \in Thread,
         WriteGet(t)
  PROVE  RecInv'
<1> DEFINE j == job[t]
           r == bc_get(j.pos)
           d == Apply(j.change, r.data)
<1>a. Link(t) /\ RecProc(t) /\ TypeInv /\ Unique  BY DEF RecInv, StoreFacts
<1>b. cpc[t] = "get" /\ pc[t] = "idle" /\ UNCHANGED vars
  BY DEF WriteGet, Returned
<1>c. /\ j.h \in Hash /\ j.pos \in Pos /\ At(j.pos, j.h) /\ j \in Job
      /\ db \in {"coin", "tx"} /\ ChangeTyped(j.change) /\ j.change \in Change
      /\ j.change.kind # "none"
  BY <1>a, <1>b DEF ClientInv, ClientTypeOK, JobTyped, RecProc, Job
<1>d. lock = NoThread  BY <1>b, AloneUnlocked
<1>e. r.err = "ok" /\ r.data = idx[j.pos].crc
  BY <1>c, <1>d, AloneReads DEF At
<1>f. idx' = idx /\ pc' = pc /\ ret' = ret /\ loc' = loc  BY <1>b DEF vars, files
<1>g. r.data \in Data
  BY <1>c, <1>e DEF At, StoreFacts, TypeInv, TypeOK, IdxRec
<1>h. d \in Data  BY <1>c, <1>g, ApplyTyped DEF ClientInv
<1>1. CASE r.data = d /\ Done(t, j.h, d)
  <2>1. Holds(j.h, d)  BY <1>1, <1>c, <1>e DEF Holds
  <2>2. d \notin {Blank, Unknown}  BY <1>h, ClientAssumption
  <2> HIDE DEF d
  <2> QED  BY <1>1, <1>b, <1>c, <1>f, <2>1, <2>2, RecDone
<1>2. CASE /\ r.data # d
           /\ cpc' = [cpc EXCEPT ![t] = IF db = "coin" THEN "write" ELSE "append"]
           /\ job' = [job EXCEPT ![t].d = d]
           /\ UNCHANGED <<db, want, marked>>
  <2>1. db = "coin"
    <3>1. CASE db = "tx"
      <4>1. j.change.kind = "all" /\ j.change.d = r.data
        BY <1>a, <1>b, <1>e, <3>1 DEF RecProc
      <4>2. d = r.data  BY <4>1 DEF Apply
      <4> QED  BY <1>2, <4>2
    <3> QED  BY <1>c, <3>1
  <2>2. /\ cpc'[t] = "write" /\ job'[t].h = j.h /\ job'[t].pos = j.pos
        /\ job'[t].change = j.change /\ db' = db /\ want' = want
    BY <1>2, <1>c, <2>1 DEF ClientInv, ClientTypeOK, Job
  <2>3. Link(t)'
    BY <1>b, <1>f, <2>2 DEF Link, WriteLabel, ClearLabel, ArchLabel
  <2>4. RecProc(t)'
    BY <1>b, <1>c, <1>f, <2>1, <2>2 DEF RecProc, RecordLabel, ClearLabel, At
  <2> QED  BY <1>a, <1>f, <2>2, <2>3, <2>4, SameIndex, RecGoesOn
<1> QED  BY <1>1, <1>2, <1>e DEF WriteGet

(* A procedure ends.                                                       *)
LEMMA RecEnds ==
  ASSUME OneThread, StoreFacts, ClientInv, RecInv, NEW t \in Thread,
         Written(t) \/ Erased(t)
  PROVE  RecInv'
<1> DEFINE j == job[t]
<1>a. Link(t) /\ RecProc(t)  BY DEF RecInv
<1>b. pc[t] = "idle" /\ cpc[t] \in {"written", "erased"}
  BY DEF Written, Erased, Returned
<1>c. j.h \in Hash  BY <1>b DEF ClientInv, JobTyped
<1>d. idx' = idx /\ pc' = pc
  BY DEF Written, Erased, vars, files, bc_table_reset
<1>1. CASE Written(t)
  <2>1. cpc[t] = "written" /\ j.d \in Data
    BY <1>1 DEF Written, Returned, ClientInv, JobTyped
  <2>2. j.d \notin {Blank, Unknown}  BY <2>1, ClientAssumption
  <2>3. CASE ret[t] = "ok"
    BY <1>1, <1>a, <1>b, <1>c, <1>d, <2>1, <2>2, <2>3, RecDone DEF Written, RecProc
  <2>4. CASE ret[t] # "ok"
    BY <1>1, <1>a, <1>b, <1>c, <1>d, <2>1, <2>4, RecDone, ClientAssumption
    DEF Written, RecProc
  <2> QED  BY <2>3, <2>4
<1>2. CASE Erased(t)
  <2>1. cpc[t] = "erased"  BY <1>2 DEF Erased, Returned
  <2>2. CASE ret[t] = "ok"
    <3>1. Done(t, j.h, Blank) /\ Absent(j.h)
      BY <1>2, <1>a, <1>b, <2>1, <2>2 DEF Erased, RecProc
    <3> QED  BY <1>b, <1>c, <1>d, <3>1, RecDone, ClientAssumption
  <2>3. CASE ret[t] # "ok"
    <3>1. Done(t, j.h, Unknown) /\ db # "tx"
      BY <1>2, <1>a, <2>1, <2>3 DEF Erased, RecProc
    <3> QED  BY <1>b, <1>c, <1>d, <3>1, RecDone, ClientAssumption
  <2> QED  BY <2>2, <2>3
<1> QED  BY <1>1, <1>2

(* A procedure begins with a search.                                       *)
LEMMA RecFinds ==
  ASSUME OneThread, StoreFacts, ClientInv, RecInv, crashes = 0, NEW t \in Thread,
         NEW h \in Hash,
         EraseFind(t, h) \/ \E c \in Changes(h) : WriteFind(t, h, c)
  PROVE  RecInv'
<1>a. Link(t) /\ RecProc(t) /\ Unique  BY DEF RecInv
<1>b. cpc[t] = "none" /\ pc[t] = "idle" /\ idx' = idx /\ pc' = pc
  BY DEF EraseFind, WriteFind, Idle, bc_find
<1>c. job[t] = NoJob /\ job[t].h = Blank  BY <1>a, <1>b DEF Link, NoJob
<1>d. lock = NoThread  BY <1>b, AloneUnlocked
<1>e. /\ Found(h) = -1 => Absent(h)
      /\ Found(h) # -1 => Found(h) \in Pos /\ At(Found(h), h)
  BY <1>d, AloneFinds
<1>f. ASSUME Done(t, h, Blank), Found(h) = -1 PROVE RecInv'
  BY <1>b, <1>c, <1>e, <1>f, RecDone, ClientAssumption
<1>1. CASE EraseFind(t, h)
  <2> DEFINE j == [NoJob EXCEPT !.h = h, !.pos = Found(h)]
  <2>1. CASE Found(h) # -1 /\ Begin(t, "erase", j)
    <3>1. j.h = h /\ j.pos = Found(h)  BY DEF NoJob
    <3> HIDE DEF j
    <3> QED  BY <1>b, <1>e, <2>1, <3>1, RecBegin
  <2> QED  BY <1>1, <1>f, <2>1 DEF EraseFind
<1>2. ASSUME NEW c \in Changes(h), WriteFind(t, h, c) PROVE RecInv'
  <2> DEFINE d == Apply(c, Fresh)
             j == [NoJob EXCEPT !.h = h, !.change = c, !.d = d, !.pos = Found(h)]
  <2>1. j.h = h /\ j.pos = Found(h) /\ j.change = c  BY DEF NoJob
  <2>2. c \in Change /\ ChangeTyped(c) /\ c.kind # "none"
    BY ChangesTyped DEF ClientInv
  <2>3. CASE Found(h) # -1 /\ db # "peer" /\ Begin(t, "get", j)
    <3>1. ASSUME db = "tx" PROVE c.kind = "all" /\ c.d = idx[Found(h)].crc
      <4>1. c.kind = "all"  BY <2>2, <3>1 DEF ChangeTyped, Change
      <4>2. PICK e \in Data : MayWrite(h, e) /\ c = SetAll(e)
        BY <4>1 DEF Changes, Mark, Unmark
      <4>3. want[h] \in {Blank, Unknown, c.d}
        BY <3>1, <4>2 DEF MayWrite, SetAll
      <4>4. Kept(h)  BY <1>c, BlankAssumption DEF RecInv, Busy, OneThread
      <4>5. ~Absent(h)  BY <1>e, <2>3 DEF Absent
      <4>6. want[h] = c.d /\ Holds(h, c.d)
        BY <3>1, <4>3, <4>4, <4>5 DEF Kept
      <4>7. PICK p \in Pos : At(p, h) /\ idx[p].crc = c.d  BY <4>6 DEF Holds
      <4>8. p = Found(h)  BY <1>a, <1>e, <2>3, <4>7 DEF Unique
      <4> QED  BY <4>1, <4>7, <4>8
    <3> HIDE DEF j
    <3> QED  BY <1>b, <1>e, <2>1, <2>3, <3>1, RecBegin
  <2>4. CASE Found(h) # -1 /\ db = "peer" /\ Begin(t, "write", j)
    <3> HIDE DEF j
    <3> QED  BY <1>b, <1>e, <2>1, <2>4, RecBegin
  <2>5. CASE Found(h) = -1 /\ Begin(t, "append", j)
    <3> HIDE DEF j
    <3> QED  BY <1>b, <1>e, <2>1, <2>5, RecBegin
  <2> QED  BY <1>2, <1>f, <2>3, <2>4, <2>5 DEF WriteFind
<1> QED  BY <1>1, <1>2

(* The invariant while the process has not been killed.                    *)
RecOK == crashes = 0 /\ db # "block" => RecInv

LEMMA RecInit == ClientInit => RecInv
<1> SUFFICES ASSUME ClientInit PROVE RecInv  OBVIOUS
<1>1. \A p \in Pos : idx[p] = Blank  BY DEF ClientInit, Init
<1>2. \A t \in Thread : cpc[t] = "none" /\ pc[t] = "idle" /\ job[t] = NoJob
  BY DEF ClientInit, Init
<1>3. Unique /\ \A h : Absent(h)  BY <1>1 DEF Unique, Absent, At
<1>4. \A t \in Thread : Link(t)
  BY <1>2 DEF Link, WriteLabel, ClearLabel, ArchLabel
<1>5. \A t \in Thread : RecProc(t)
  BY <1>2 DEF RecProc, RecordLabel, ClearLabel
<1>6. \A h \in Hash : Kept(h)
  BY <1>3 DEF ClientInit, Kept
<1> QED  BY <1>3, <1>4, <1>5, <1>6 DEF RecInv

LEMMA CrashCount ==
  ASSUME TypeInv, [ClientNext]_allVars, TypeInv', ClientInv, crashes' = 0
  PROVE  crashes = 0 /\ ~ClientCrash
<1>1. crashes \in Nat  BY BoundAssumption DEF TypeInv, TypeOK
<1>2. ~Crash  BY <1>1 DEF Crash
<1>3. [Next]_vars  BY ClientIsNext
<1>4. ASSUME NEW t \in Thread, Step(t) PROVE crashes' = crashes
  <2>1. CASE \/ bc_idx_set(t) \/ bc_idx_set_table(t) \/ bc_write_data(t)
             \/ bc_write_of(t) \/ bc_rewrite(t) \/ bc_write_undo(t)
             \/ bc_write_undo_table(t)
    BY <2>1 DEF bc_idx_set, bc_idx_set_table, bc_write_data, bc_write_of,
       bc_rewrite, bc_write_undo, bc_write_undo_table
  <2>2. CASE \/ bc_arch_next(t) \/ bc_arch_set(t) \/ bc_clear_idx(t)
             \/ bc_purge_next(t)
    BY <2>2 DEF bc_arch_next, bc_arch_set, bc_clear_idx, bc_purge_next
  <2>3. CASE \/ bc_arch_write_data(t) \/ bc_arch_write_of(t)
             \/ bc_arch_write_add(t)
    BY <2>3 DEF bc_arch_write_data, bc_arch_write_of, bc_arch_write_add
  <2> QED  BY <1>4, <2>1, <2>2, <2>3 DEF Step
<1>5. ASSUME NEW t \in Thread, Call(t) PROVE crashes' = crashes
  <2>1. ASSUME NEW h, NEW d, NEW p,
               \/ bc_find(t, h) \/ bc_table_reset(t, h) \/ bc_append(t, h, d)
               \/ bc_arch_write(t, h, d) \/ bc_write(t, p, h, d)
               \/ bc_clear(t, p) \/ bc_idx_clear(t, p) \/ bc_purge(t, p)
               \/ bc_table_clear(t)
        PROVE  crashes' = crashes
    BY <2>1 DEF bc_find, bc_table_reset, bc_append, bc_arch_write, bc_write,
       bc_clear, bc_idx_clear, bc_purge, bc_table_clear
  <2> QED  BY <1>5, <2>1 DEF Call
<1>6. crashes' = crashes  BY <1>2, <1>3, <1>4, <1>5 DEF Next, vars
<1> QED  BY <1>2, <1>6 DEF ClientCrash

LEMMA SameDb ==
  ASSUME [ClientNext]_allVars
  PROVE  db' = db
<1>1. CASE UNCHANGED allVars \/ ClientCrash
  BY <1>1 DEF allVars, clientVars, ClientCrash
<1>2. ASSUME NEW t \in Thread, ClientStep(t) PROVE db' = db
  <2>1. CASE Step(t) /\ UNCHANGED clientVars  BY <2>1 DEF clientVars
  <2>2. CASE WriteGet(t) \/ WriteAppend(t) \/ WriteAt(t) \/ Written(t)
             \/ EraseClear(t) \/ Erased(t)
    BY <2>2 DEF WriteGet, WriteAppend, WriteAt, Written, EraseClear, Erased,
       Done, Continue
  <2>3. CASE WriteBlockClear(t) \/ WriteBlockCleared(t) \/ WriteBlockData(t)
             \/ WriteBlockWritten(t) \/ WriteArchBlockData(t)
    BY <2>3 DEF WriteBlockClear, WriteBlockCleared, WriteBlockData,
       WriteBlockWritten, WriteArchBlockData, Done, Continue
  <2> QED  BY <1>2, <2>1, <2>2, <2>3 DEF ClientStep
<1>3. ASSUME NEW t \in Thread, ClientCall(t) PROVE db' = db
  <2>1. \A l, j, h, w : Begin(t, l, j) \/ Done(t, h, w) => db' = db
    BY DEF Begin, Done
  <2>2. ASSUME NEW h, NEW c, NEW p,
               \/ WriteFind(t, h, c) \/ EraseFind(t, h)
               \/ WriteArchBlock(t, h) \/ WriteBlock(t, p, h)
        PROVE  db' = db
    BY <2>1, <2>2 DEF WriteFind, EraseFind, WriteArchBlock, WriteBlock
  <2> QED  BY <1>3, <2>2 DEF ClientCall
<1> QED  BY <1>1, <1>2, <1>3 DEF ClientNext

LEMMA RecNext ==
  ASSUME OneThread, StoreFacts, StoreFacts', ClientInv, RecOK,
         [ClientNext]_allVars
  PROVE  RecOK'
<1> SUFFICES ASSUME crashes' = 0, db' # "block" PROVE RecInv'
  BY DEF RecOK
<1>1. crashes = 0 /\ ~ClientCrash /\ db # "block" /\ db' = db
  BY CrashCount, SameDb DEF StoreFacts
<1>2. RecInv  BY <1>1 DEF RecOK
<1>3. CASE UNCHANGED allVars
  BY <1>2, <1>3 DEF allVars, vars, files, clientVars, RecInv, Unique, Link,
     RecProc, Kept, Busy, At, Absent, Holds
<1>4. ASSUME NEW t \in Thread, ClientStep(t) PROVE RecInv'
  <2>1. RecProc(t) /\ Link(t)  BY <1>2 DEF RecInv
  <2>2. CASE Step(t) /\ UNCHANGED clientVars
    <3>1. pc[t] # "idle"
      BY <2>2 DEF Step, bc_idx_set, bc_idx_set_table, bc_write_data,
         bc_write_of, bc_rewrite, bc_write_undo, bc_write_undo_table,
         bc_arch_next, bc_arch_set, bc_clear_idx, bc_purge_next,
         bc_arch_write_data, bc_arch_write_of, bc_arch_write_add
    <3>2. \/ cpc[t] = "written" /\ pc[t] \in WriteLabel
          \/ cpc[t] = "erased" /\ pc[t] \in ClearLabel
      BY <2>1, <3>1 DEF RecProc, RecordLabel, Link
    <3> QED  BY <1>2, <2>2, <3>2, RecWriteStep, RecClearStep
  <2>3. CASE WriteBlockClear(t) \/ WriteBlockCleared(t) \/ WriteBlockData(t)
             \/ WriteBlockWritten(t) \/ WriteArchBlockData(t)
    BY <2>1, <2>3 DEF WriteBlockClear, WriteBlockCleared, WriteBlockData,
       WriteBlockWritten, WriteArchBlockData, Returned, RecProc, RecordLabel
  <2> QED
    BY <1>1, <1>2, <1>4, <2>2, <2>3, RecWrites, RecErases, RecGets, RecEnds
    DEF ClientStep
<1>5. ASSUME NEW t \in Thread, ClientCall(t) PROVE RecInv'
  BY <1>1, <1>2, <1>5, RecFinds DEF ClientCall, WriteArchBlock, WriteBlock
<1> QED  BY <1>1, <1>3, <1>4, <1>5 DEF ClientNext

LEMMA RecCorrect == OneThread => (ClientSpec => []RecOK)
<1> SUFFICES ASSUME OneThread PROVE ClientSpec => []RecOK
  OBVIOUS
<1>1. ClientInit => RecOK  BY RecInit DEF RecOK
<1>2. /\ StoreFacts /\ ClientInv /\ RecOK /\ [ClientNext]_allVars
      /\ (StoreFacts /\ ClientInv)'
      => RecOK'
  BY RecNext
<1> QED  BY <1>1, <1>2, ClientFacts, PTL DEF ClientSpec

(* The coin and peer databases have at most one record of each hash, since *)
(* a procedure that appends one has searched for it before and the search  *)
(* is complete.                                                            *)
THEOREM OneRecord ==
  OneThread => (ClientSpec => [](crashes = 0 => OneRecordPerHash))
<1> SUFFICES ASSUME OneThread
             PROVE  ClientSpec => [](crashes = 0 => OneRecordPerHash)
  OBVIOUS
<1>1. StoreFacts /\ ClientInv /\ RecOK => (crashes = 0 => OneRecordPerHash)
  <2> SUFFICES ASSUME StoreFacts, RecOK, crashes = 0, db \in {"coin", "peer"},
                      NEW p \in Pos, NEW q \in Pos, Live(p), Live(q),
                      idx[p].hash = idx[q].hash
               PROVE  p = q
    BY DEF OneRecordPerHash
  <2>1. Unique  BY DEF RecOK, RecInv
  <2>2. idx[p].hash \in Hash
    BY DEF StoreFacts, TypeInv, TypeOK, Live, IdxRec
  <2> QED  BY <2>1, <2>2 DEF Unique, At, Live
<1> QED  BY <1>1, ClientFacts, RecCorrect, PTL

(* Another thread's hash, or another procedure's, is covered by the table  *)
(* and read back while a record is being written.                          *)
LEMMA ReadsOthers ==
  ASSUME StoreFacts, RecInv, crashes = 0, NEW h \in Hash, ~Busy(h)
  PROVE  /\ Absent(h) => View(h) = Blank
         /\ \A d : Holds(h, d) => View(h) = d
         /\ \A p \in Pos : At(p, h) => Found(h) = p /\ bc_get(p).err = "ok"
                                       /\ bc_get(p).data = idx[p].crc
<1>a. \A p \in Pos : idx[p] # Blank => Live(p)
  BY DEF StoreFacts, StoreInv, Counted, Live
<1>b. ASSUME NEW p \in Pos, At(p, h) PROVE ~Unfinished(p) /\ ~ResetPending(p)
  <2>1. ASSUME NEW t \in Thread, pc[t] \in StoreLabel, loc[t].pos = p PROVE FALSE
    <3>1. Holding(t) /\ Link(t)  BY DEF StoreFacts, StoreInv, RecInv
    <3>2. idx[p] = loc[t].rec  BY <2>1, <3>1 DEF Holding
    <3>3. pc[t] \in WriteLabel  BY <2>1 DEF StoreLabel, WriteLabel
    <3>4. loc[t].rec.hash = job[t].h  BY <3>1, <3>3 DEF Link
    <3> QED  BY <1>b, <3>2, <3>4 DEF At, Busy
  <2> QED  BY <2>1 DEF Unfinished, ResetPending, StoreLabel
<1>1. \A p \in Pos : Live(p) /\ idx[p].hash = h => SlotCovers(p)
  BY <1>b DEF StoreFacts, StoreInv, TableSound, At, Live
<1>2. Found(h) = HighestOf(h)
  BY <1>1, CoveredFinds DEF StoreFacts, TypeInv, Found
<1>3. ASSUME NEW p \in Pos, At(p, h)
      PROVE  Found(h) = p /\ bc_get(p).err = "ok" /\ bc_get(p).data = idx[p].crc
  <2>1. {q \in Pos : Live(q) /\ idx[q].hash = h} = {p}
    BY <1>3, <1>a DEF RecInv, Unique, At, Live
  <2>2. Max({p}) = p
    <3>1. p \in Int  BY BoundAssumption DEF Pos
    <3>2. Max({p, p}) \in {p, p}  BY <3>1, MaxPair
    <3>3. {p, p} = {p}  OBVIOUS
    <3> QED  BY <3>2, <3>3
  <2>3. HighestOf(h) = p  BY <2>1, <2>2 DEF HighestOf
  <2>4. p \in acked  BY <1>3, <1>b DEF StoreFacts, LiveAcked, At
  <2>5. CrcOk(idx[p]) /\ Live(p)
    BY <2>4 DEF StoreFacts, StoreInv, AckedReadable
  <2> QED  BY <1>2, <2>3, <2>5 DEF bc_get
<1>4. Absent(h) => View(h) = Blank
  <2>1. Absent(h) => {q \in Pos : Live(q) /\ idx[q].hash = h} = {}
    BY DEF Absent, At, Live
  <2>2. Absent(h) => HighestOf(h) = -1  BY <2>1 DEF HighestOf
  <2> QED  BY <1>2, <2>2 DEF View
<1>5. ASSUME NEW d, Holds(h, d) PROVE View(h) = d
  <2>1. PICK p \in Pos : At(p, h) /\ idx[p].crc = d  BY <1>5 DEF Holds
  <2>2. Found(h) = p /\ bc_get(p).err = "ok" /\ bc_get(p).data = d
    BY <1>3, <2>1
  <2>3. p # -1  BY BoundAssumption DEF Pos
  <2> QED  BY <2>2, <2>3 DEF View
<1> QED  BY <1>3, <1>4, <1>5

(* A reader gets what the last procedure stored: for every hash, through   *)
(* every step of the procedures for other hashes, and also when files or   *)
(* the archive are full or cannot be enlarged.                             *)
THEOREM ReadsLastWrite ==
  OneThread => (ClientSpec => [](crashes = 0 /\ db # "block" => LastWriteRead))
<1> SUFFICES ASSUME OneThread
             PROVE  ClientSpec => [](crashes = 0 /\ db # "block" => LastWriteRead)
  OBVIOUS
<1>1. StoreFacts /\ ClientInv /\ RecOK
        => (crashes = 0 /\ db # "block" => LastWriteRead)
  <2> SUFFICES ASSUME StoreFacts, RecOK, crashes = 0, db # "block",
                      NEW h \in Hash, want[h] # Unknown, ~Busy(h)
               PROVE  View(h) = want[h]
    BY DEF LastWriteRead
  <2>1. RecInv /\ Kept(h)  BY DEF RecOK, RecInv
  <2>2. CASE want[h] = Blank  BY <2>1, <2>2, ReadsOthers DEF Kept
  <2>3. CASE want[h] # Blank  BY <2>1, <2>3, ReadsOthers DEF Kept
  <2> QED  BY <2>2, <2>3
<1> QED  BY <1>1, ClientFacts, RecCorrect, PTL

-----------------------------------------------------------------------------
(* One thread: the outputs marked as spent in the coin database.           *)

(* The marks are in the entry, ...                                         *)
MarkHeld(h) ==
  marked[h] # {} => \E p \in Pos : At(p, h) /\ marked[h] \subseteq idx[p].crc

(* ... a procedure takes them over into what it writes, and an entry that  *)
(* has marks is not lost: it is rewritten in the room that it has.         *)
MarkProc(t) ==
  LET h == job[t].h
      c == job[t].change IN
  cpc[t] # "none" =>
    /\ c.kind = "unmark" => marked[h] \cap c.d = {}
    /\ c.kind \in {"all", "none"} => marked[h] = {}
    /\ cpc[t] \in {"append", "write", "written"}
         => marked[h] \subseteq job[t].d /\ (c.kind = "mark" => c.d \subseteq job[t].d)
    /\ cpc[t] \in {"erase", "erased"} => c.kind = "none"
    /\ pc[t] \in {"table_reset", "undo_idx", "undo_tab"} => marked[h] = {}
    /\ pc[t] = "append" => marked[h] = {} \/ Fits(loc[t].rec)

MarkInv ==
  /\ \A h \in Hash : MarkHeld(h)
  /\ \A t \in Thread : MarkProc(t)

LEMMA HeldElsewhere ==
  ASSUME NEW g, OnlyOf(g), NEW h \in Hash, h # g, marked'[h] = marked[h],
         MarkHeld(h)
  PROVE  MarkHeld(h)'
BY DEF MarkHeld, OnlyOf, At

(* A procedure goes on; the marks of its hash are in the entry afterwards. *)
LEMMA MarkGoesOn ==
  ASSUME OneThread, MarkInv, NEW t \in Thread, NEW g, OnlyOf(g), MarkProc(t)',
         \A h \in Hash : h # g => marked'[h] = marked[h],
         g \in Hash => MarkHeld(g)'
  PROVE  MarkInv'
<1>1. ASSUME NEW h \in Hash PROVE MarkHeld(h)'
  <2>1. CASE h = g  BY <2>1
  <2>2. CASE h # g  BY <2>2, HeldElsewhere DEF MarkInv
  <2> QED  BY <2>1, <2>2
<1> QED  BY <1>1 DEF MarkInv, OneThread

(* An entry that is rewritten has the room that it had.                    *)
LEMMA RewriteHasRoom ==
  ASSUME StoreFacts, OneThread, crashes = 0, NEW t \in Thread, pc[t] = "rw_idx"
  PROVE  Fits(loc[t].rec)
<1> DEFINE rec == loc[t].rec
           old == idx[loc[t].pos]
<1>1. /\ loc[t].pos \in Pos /\ rec \in IdxRec /\ old # Blank /\ old \in IdxRec
      /\ rec.of = old.of /\ rec.size <= old.size
  BY DEF StoreFacts, TypeInv, CallTyped, WriteLabel, TypeOK, StoreInv, Holding
<1>2. ~Unfinished(loc[t].pos)  BY DEF Unfinished, OneThread, StoreLabel
<1>3. Below(loc[t].pos)  BY <1>1, <1>2 DEF StoreFacts, StoreInv, Extents
<1>4. /\ of[old.jrnl] \in 0 .. MaxOf /\ rec.of \in Nat /\ rec.size \in Nat
      /\ old.of \in Nat /\ old.size \in Nat /\ MaxOf \in Nat
  BY <1>1, BoundAssumption DEF StoreFacts, TypeInv, TypeOK, IdxRec
<1>5. old.of + old.size <= of[old.jrnl]  BY <1>3 DEF Below
<1> HIDE DEF rec, old
<1>6. rec.of + rec.size <= MaxOf  BY <1>1, <1>4, <1>5
<1> QED  BY <1>6 DEF Fits, rec

(* The stores of a write keep the marks of its hash.                       *)
LEMMA MarkWriteStep ==
  ASSUME OneThread, ~IOErrors, StoreFacts, ClientInv, RecInv, MarkInv,
         crashes = 0, NEW t \in Thread,
         cpc[t] = "written", pc[t] \in WriteLabel, Step(t), UNCHANGED clientVars
  PROVE  MarkInv'
<1> DEFINE rec == loc[t].rec
           pos == loc[t].pos
           h == job[t].h
<1>a. Link(t) /\ RecProc(t) /\ MarkProc(t) /\ Unique  BY DEF RecInv, MarkInv
<1>b. /\ rec.hash = h /\ rec.crc = job[t].d /\ rec \in IdxRec /\ h \in Hash
  BY <1>a DEF Link, StoreFacts, TypeInv, CallTyped, ClientInv, JobTyped
<1>c. /\ idx \in [Pos -> IdxRec \cup {Blank}] /\ pc \in [Thread -> Label]
  BY DEF StoreFacts, TypeInv, TypeOK
<1>d. Holding(t) /\ MarkHeld(h)  BY <1>b DEF StoreFacts, StoreInv, MarkInv
<1>e. pc[t] # "idx_set" => pos \in Pos
  BY DEF StoreFacts, TypeInv, CallTyped
<1>f. /\ cpc' = cpc /\ job' = job /\ db' = db /\ marked' = marked  BY DEF clientVars
<1>g. Absent(h) => marked[h] = {}  BY <1>d DEF MarkHeld, Absent
<1>h. ASSUME NEW l, pc'[t] = l, OnlyOf(h), MarkHeld(h)',
             l \in {"table_reset", "undo_idx", "undo_tab"} => marked[h] = {},
             l = "append" => marked[h] = {} \/ Fits(rec), loc' = loc \/ l = "idle"
      PROVE  MarkInv'
  <2>1. MarkProc(t)'  BY <1>h, <1>a, <1>f DEF MarkProc, Fits
  <2> QED  BY <1>h, <1>f, <2>1, MarkGoesOn
<1>i. ASSUME idx' = idx PROVE OnlyOf(h) /\ MarkHeld(h)'
  BY <1>i, <1>d, <1>f, SameIndex DEF MarkHeld, At
<1>j. \A e : Return(t, e) => pc'[t] = "idle"  BY <1>c DEF Return, Goto
<1>k. \A l : Goto(t, l) => pc'[t] = l  BY <1>c DEF Goto
<1>1. CASE bc_idx_set(t)
  <2>1. pc[t] = "idx_set" /\ Absent(h)  BY <1>1, <1>a DEF bc_idx_set, RecProc
  <2>2. CASE Return(t, "ERR_IO") /\ idx' = idx
    BY <1>h, <1>i, <1>j, <2>2
  <2>3. CASE pos \in Pos /\ idx' = [idx EXCEPT ![pos] = rec] /\ loc' = loc
             /\ Goto(t, "table_reset")
    <3>1. idx[pos] = Blank  BY <1>a, <2>1, <2>3 DEF Link
    <3>2. OnlyOf(h)
      BY <1>a, <1>b, <1>c, <2>1, <2>3, <3>1, StoredIndex
    <3>3. MarkHeld(h)'  BY <1>f, <1>g, <2>1 DEF MarkHeld
    <3> QED  BY <1>g, <1>h, <1>k, <2>1, <2>3, <3>2, <3>3
  <2> QED  BY <1>1, <2>2, <2>3 DEF bc_idx_set, files
<1>2. CASE bc_idx_set_table(t)
  <2>1. /\ pc[t] = "table_reset" /\ idx' = idx /\ loc' = loc /\ Goto(t, "append")
    BY <1>2 DEF bc_idx_set_table
  <2>2. marked[h] = {}  BY <1>a, <2>1 DEF MarkProc
  <2> QED  BY <1>h, <1>i, <1>k, <2>1, <2>2
<1>3. CASE bc_write_data(t)
  <2>1. /\ pc[t] = "append" /\ idx' = idx /\ loc' = loc
        /\ \/ Goto(t, "append_of")
           \/ Goto(t, "undo_idx") /\ ~Fits(rec)
    BY <1>3 DEF bc_write_data
  <2>2. marked[h] = {} \/ Fits(rec)  BY <1>a, <2>1 DEF MarkProc
  <2> QED  BY <1>h, <1>i, <1>k, <2>1, <2>2
<1>4. CASE bc_write_of(t) \/ bc_write_undo_table(t)
  BY <1>4, <1>h, <1>i, <1>j DEF bc_write_of, bc_write_undo_table
<1>5. CASE bc_rewrite(t)
  <2>1. /\ pc[t] = "rw_idx" /\ At(pos, h) /\ idx' = [idx EXCEPT ![pos] = rec]
        /\ loc' = loc /\ Goto(t, "append")
    BY <1>5, <1>a DEF bc_rewrite, RecProc
  <2>2. OnlyOf(h) /\ At(pos, h)'
    BY <1>a, <1>b, <1>c, <1>e, <2>1, StoredIndex, <1>f
  <2>3. idx'[pos].crc = job[t].d /\ pos \in Pos  BY <1>b, <1>c, <1>e, <2>1
  <2>4. marked[h] \subseteq job[t].d  BY <1>a DEF MarkProc
  <2>5. At(pos, h)' <=> idx'[pos] # Blank /\ idx'[pos].hash = h
    BY <1>f, <2>1 DEF At
  <2>6. MarkHeld(h)'  BY <1>f, <2>2, <2>3, <2>4, <2>5 DEF MarkHeld, At
  <2>7. Fits(rec)  BY <2>1, RewriteHasRoom
  <2> QED  BY <1>h, <1>k, <2>1, <2>2, <2>6, <2>7
<1>6. CASE bc_write_undo(t)
  <2>1. pc[t] = "undo_idx" /\ idx' = [idx EXCEPT ![pos] = Blank] /\ loc' = loc
        /\ Goto(t, "undo_tab")
    BY <1>6 DEF bc_write_undo
  <2>2. idx[pos] = rec /\ pos \in Pos  BY <1>d, <1>e, <2>1 DEF Holding, StoreLabel
  <2>3. At(pos, h)  BY <1>b, <2>2, BlankAssumption DEF At
  <2>4. OnlyOf(h)  BY <1>a, <1>b, <1>c, <2>1, <2>2, <2>3, BlankedIndex
  <2>5. marked[h] = {}  BY <1>a, <2>1 DEF MarkProc
  <2>6. MarkHeld(h)'  BY <1>f, <2>5 DEF MarkHeld
  <2> QED  BY <1>h, <1>k, <2>1, <2>4, <2>5, <2>6
<1> QED
  BY <1>1, <1>2, <1>3, <1>4, <1>5, <1>6
  DEF Step, WriteLabel, bc_arch_next, bc_arch_set, bc_clear_idx, bc_purge_next,
      bc_arch_write_data, bc_arch_write_of, bc_arch_write_add

(* A record that is erased has no marks any more.                          *)
LEMMA MarkClearStep ==
  ASSUME OneThread, StoreFacts, ClientInv, RecInv, MarkInv, NEW t \in Thread,
         cpc[t] = "erased", pc[t] \in ClearLabel, Step(t), UNCHANGED clientVars
  PROVE  MarkInv'
<1> DEFINE pos == loc[t].pos
           h == job[t].h
<1>a. Link(t) /\ RecProc(t) /\ MarkProc(t) /\ Unique  BY DEF RecInv, MarkInv
<1>b. /\ pos = job[t].pos /\ pos \in Pos /\ At(pos, h) /\ h \in Hash
  BY <1>a DEF Link, RecProc, StoreFacts, TypeInv, CallTyped, ClientInv, JobTyped,
     ClearLabel
<1>c. idx \in [Pos -> IdxRec \cup {Blank}]  BY DEF StoreFacts, TypeInv, TypeOK
<1>d. marked[h] = {} /\ job[t].change.kind = "none"  BY <1>a DEF MarkProc
<1>e. cpc' = cpc /\ job' = job /\ marked' = marked  BY DEF clientVars
<1>1. idx' = idx \/ idx' = [idx EXCEPT ![pos] = Blank]
  BY DEF Step, ClearLabel, bc_arch_next, bc_arch_set, bc_clear_idx, files,
     bc_idx_set, bc_idx_set_table, bc_write_data, bc_write_of, bc_rewrite,
     bc_write_undo, bc_write_undo_table, bc_purge_next, bc_arch_write_data,
     bc_arch_write_of, bc_arch_write_add
<1>2. OnlyOf(h)  BY <1>1, <1>a, <1>b, <1>c, SameIndex, BlankedIndex
<1>3. MarkProc(t)'  BY <1>d, <1>e DEF MarkProc
<1>4. MarkHeld(h)'  BY <1>d, <1>e DEF MarkHeld
<1> QED  BY <1>2, <1>3, <1>4, <1>e, MarkGoesOn

(* A procedure returns.                                                    *)
LEMMA MarkDone ==
  ASSUME OneThread, ClientInv, MarkInv, NEW t \in Thread, NEW h \in Hash, NEW w,
         Done(t, h, w), idx' = idx,
         w # Unknown /\ job[t].change.kind = "mark" =>
           \E p \in Pos : At(p, h) /\ marked[h] \cup job[t].change.d \subseteq idx[p].crc
  PROVE  MarkInv'
<1>1. cpc'[t] = "none"  BY DEF Done, ClientInv, ClientTypeOK
<1>2. MarkProc(t)'  BY <1>1 DEF MarkProc
<1>3. MarkHeld(h)  BY DEF MarkInv
<1>4. marked \in [Hash -> SUBSET Out]  BY DEF ClientInv, ClientTypeOK
<1>5. \A g \in Hash : g # h => marked'[g] = marked[g]  BY <1>4 DEF Done
<1>6. CASE job[t].change.kind = "mark" /\ w # Unknown
  <2>1. marked'[h] = marked[h] \cup job[t].change.d  BY <1>4, <1>6 DEF Done
  <2>2. PICK p \in Pos : At(p, h) /\ marked[h] \cup job[t].change.d \subseteq idx[p].crc
    BY <1>6
  <2>3. At(p, h)'  BY <2>2 DEF At
  <2>4. MarkHeld(h)'  BY <2>1, <2>2, <2>3 DEF MarkHeld
  <2> QED  BY <1>2, <1>5, <2>4, SameIndex, MarkGoesOn
<1>7. CASE ~(job[t].change.kind = "mark" /\ w # Unknown)
  <2>1. marked' = marked  BY <1>7 DEF Done
  <2>2. MarkHeld(h)'  BY <1>3, <2>1 DEF MarkHeld, At
  <2> QED  BY <1>2, <1>5, <2>2, SameIndex, MarkGoesOn
<1> QED  BY <1>6, <1>7

(* A procedure begins: what it may unmark is no longer counted as marked.  *)
LEMMA MarkBegin ==
  ASSUME OneThread, ClientInv, MarkInv, NEW t \in Thread,
         NEW l \in {"get", "append", "erase"}, NEW j, j.h \in Hash,
         Begin(t, l, j), idx' = idx, pc'[t] = "idle",
         j.change \in Change, l = "erase" => j.change.kind = "none",
         l = "append" => Absent(j.h) /\ (j.change.kind = "mark" => j.change.d \subseteq j.d)
  PROVE  MarkInv'
<1> DEFINE h == j.h
           c == j.change
<1>1. cpc'[t] = l /\ job'[t] = j  BY DEF Begin, ClientInv, ClientTypeOK
<1>2. marked \in [Hash -> SUBSET Out]  BY DEF ClientInv, ClientTypeOK
<1>3. \A g \in Hash : g # h => marked'[g] = marked[g]  BY <1>2 DEF Begin
<1>4. marked'[h] = IF c.kind = "mark" THEN marked[h]
                   ELSE IF c.kind = "unmark" THEN marked[h] \ c.d ELSE {}
  BY <1>2 DEF Begin
<1>5. marked'[h] \subseteq marked[h]  BY <1>4
<1>6. MarkHeld(h)  BY DEF MarkInv
<1>7. MarkHeld(h)'
  <2>1. CASE marked'[h] = {}  BY <2>1 DEF MarkHeld
  <2>2. CASE marked'[h] # {}
    <3>1. marked[h] # {}  BY <1>5, <2>2
    <3>2. PICK p \in Pos : At(p, h) /\ marked[h] \subseteq idx[p].crc
      BY <1>6, <3>1 DEF MarkHeld
    <3>3. At(p, h)'  BY <3>2 DEF At
    <3>4. marked'[h] \subseteq idx'[p].crc  BY <1>5, <3>2
    <3> QED  BY <3>3, <3>4 DEF MarkHeld
  <2> QED  BY <2>1, <2>2
<1>8. l = "append" => marked'[h] = {}
  BY <1>5, <1>6 DEF MarkHeld, Absent
<1>9. /\ c.kind = "unmark" => marked'[h] \cap c.d = {}
      /\ c.kind \in {"all", "none"} => marked'[h] = {}
  BY <1>4
<1>10. MarkProc(t)'  BY <1>1, <1>8, <1>9 DEF MarkProc
<1> QED  BY <1>3, <1>7, <1>10, SameIndex, MarkGoesOn

LEMMA MarkCalls ==
  ASSUME OneThread, StoreFacts, ClientInv, RecInv, MarkInv, NEW t \in Thread,
         WriteAppend(t) \/ WriteAt(t) \/ EraseClear(t), db = "coin"
  PROVE  MarkInv'
<1>a. MarkProc(t) /\ RecProc(t)  BY DEF MarkInv, RecInv
<1>b. /\ cpc[t] \in {"append", "write", "erase"} /\ pc[t] = "idle"
      /\ job' = job /\ marked' = marked
      /\ cpc[t] # "erase" => cpc'[t] = "written"
      /\ cpc[t] = "erase" => cpc'[t] = "erased"
  BY DEF WriteAppend, WriteAt, EraseClear, Returned, Continue, ClientInv, ClientTypeOK
<1>c. idx' = idx
  BY DEF WriteAppend, WriteAt, EraseClear, bc_append, bc_write, bc_clear, files
<1>d. pc'[t] \notin {"table_reset", "undo_idx", "undo_tab", "append"}
  BY DEF WriteAppend, WriteAt, EraseClear, bc_append, bc_write, bc_clear, Enter,
     Return, Goto, StoreFacts, TypeInv, TypeOK
<1>1. MarkProc(t)'  BY <1>a, <1>b, <1>d DEF MarkProc
<1>2. job[t].h \in Hash  BY <1>b DEF ClientInv, JobTyped
<1>3. MarkHeld(job[t].h)  BY <1>2 DEF MarkInv
<1>4. \A h : marked'[h] = marked[h]  BY <1>b
<1>5. \A h \in Hash : MarkHeld(h) => MarkHeld(h)'  BY <1>b, <1>c DEF MarkHeld, At
<1> QED  BY <1>1, <1>5 DEF MarkInv, OneThread

(* A procedure looks at the entry of its hash.                             *)
LEMMA MarkGets ==
  ASSUME OneThread, StoreFacts, ClientInv, RecInv, MarkInv, crashes = 0,
         NEW t \in Thread, WriteGet(t), db = "coin"
  PROVE  MarkInv'
<1> DEFINE j == job[t]
           c == j.change
           r == bc_get(j.pos)
           d == Apply(c, r.data)
<1>a. Link(t) /\ RecProc(t) /\ MarkProc(t) /\ Unique  BY DEF RecInv, MarkInv
<1>b. cpc[t] = "get" /\ pc[t] = "idle" /\ UNCHANGED vars
  BY DEF WriteGet, Returned
<1>c. /\ j.h \in Hash /\ j.pos \in Pos /\ At(j.pos, j.h) /\ j \in Job
      /\ c \in Change /\ c.kind # "none"
  BY <1>a, <1>b DEF ClientInv, ClientTypeOK, JobTyped, RecProc, Job
<1>d. lock = NoThread  BY <1>b, AloneUnlocked
<1>e. r.err = "ok" /\ r.data = idx[j.pos].crc
  BY <1>c, <1>d, AloneReads DEF At
<1>f. idx' = idx /\ pc' = pc /\ loc' = loc  BY <1>b DEF vars, files
<1>g. marked[j.h] \subseteq r.data
  <2>1. MarkHeld(j.h)  BY <1>c DEF MarkInv
  <2> QED  BY <1>a, <1>c, <1>e, <2>1 DEF MarkHeld, Unique
<1>h. /\ c.kind = "unmark" => marked[j.h] \cap c.d = {}
      /\ c.kind = "all" => marked[j.h] = {}
  BY <1>a, <1>b DEF MarkProc
<1>i. /\ c.kind = "mark" => d = r.data \cup c.d
      /\ c.kind = "unmark" => d = r.data \ c.d
  BY DEF Apply
<1>j. c.kind \in {"all", "mark", "unmark"}  BY <1>c DEF Change
<1> HIDE DEF d, r
<1>k. marked[j.h] \subseteq d /\ (c.kind = "mark" => c.d \subseteq d)
  BY <1>g, <1>h, <1>i, <1>j
<1>1. CASE r.data = d /\ Done(t, j.h, d)
  <2>1. c.kind = "mark" => marked[j.h] \cup c.d \subseteq idx[j.pos].crc
    BY <1>1, <1>e, <1>k
  <2> QED  BY <1>1, <1>c, <1>f, <2>1, MarkDone
<1>2. CASE /\ cpc' = [cpc EXCEPT ![t] = IF db = "coin" THEN "write" ELSE "append"]
           /\ job' = [job EXCEPT ![t].d = d]
           /\ UNCHANGED <<db, want, marked>>
  <2>1. /\ cpc'[t] = "write" /\ job'[t].h = j.h /\ job'[t].change = c
        /\ job'[t].d = d /\ marked' = marked /\ pc'[t] = "idle"
    BY <1>2, <1>b, <1>c, <1>f DEF ClientInv, ClientTypeOK, Job
  <2>2. MarkProc(t)'  BY <1>h, <1>j, <1>k, <2>1 DEF MarkProc
  <2>3. \A h \in Hash : MarkHeld(h) => MarkHeld(h)'  BY <1>f, <2>1 DEF MarkHeld, At
  <2> QED  BY <2>2, <2>3 DEF MarkInv, OneThread
<1> QED  BY <1>1, <1>2, <1>e DEF WriteGet, d, r

LEMMA MarkEnds ==
  ASSUME OneThread, StoreFacts, ClientInv, RecInv, MarkInv, NEW t \in Thread,
         Written(t) \/ Erased(t)
  PROVE  MarkInv'
<1> DEFINE j == job[t]
<1>a. RecProc(t) /\ MarkProc(t)  BY DEF RecInv, MarkInv
<1>b. pc[t] = "idle" /\ cpc[t] \in {"written", "erased"}
  BY DEF Written, Erased, Returned
<1>c. j.h \in Hash  BY <1>b DEF ClientInv, JobTyped
<1>d. idx' = idx
  BY DEF Written, Erased, vars, files, bc_table_reset
<1>1. CASE Written(t)
  <2>1. /\ cpc[t] = "written"
        /\ Done(t, j.h, IF ret[t] = "ok" THEN j.d ELSE Unknown)
    BY <1>1 DEF Written, Returned
  <2>2. CASE ret[t] = "ok"
    <3>1. PICK p \in Pos : At(p, j.h) /\ idx[p].crc = j.d
      BY <1>a, <1>b, <2>1, <2>2 DEF RecProc, Holds
    <3>2. j.change.kind = "mark" => marked[j.h] \cup j.change.d \subseteq idx[p].crc
      BY <1>a, <2>1, <3>1 DEF MarkProc
    <3>3. Done(t, j.h, j.d)  BY <2>1, <2>2
    <3> QED  BY <1>c, <1>d, <3>1, <3>2, <3>3, MarkDone
  <2>3. CASE ret[t] # "ok"
    <3>1. Done(t, j.h, Unknown)  BY <2>1, <2>3
    <3> QED  BY <1>c, <1>d, <3>1, MarkDone
  <2> QED  BY <2>2, <2>3
<1>2. CASE Erased(t)
  <2>1. cpc[t] = "erased"  BY <1>2 DEF Erased, Returned
  <2>2. j.change.kind = "none"  BY <1>a, <2>1 DEF MarkProc
  <2>3. \E w : Done(t, j.h, w)  BY <1>2 DEF Erased
  <2> QED  BY <1>c, <1>d, <2>2, <2>3, MarkDone
<1> QED  BY <1>1, <1>2

(* A procedure begins with a search.                                       *)
LEMMA MarkFinds ==
  ASSUME OneThread, StoreFacts, ClientInv, RecInv, MarkInv, crashes = 0,
         db = "coin", NEW t \in Thread, NEW h \in Hash,
         EraseFind(t, h) \/ \E c \in Changes(h) : WriteFind(t, h, c)
  PROVE  MarkInv'
<1>a. Link(t)  BY DEF RecInv
<1>b. cpc[t] = "none" /\ pc[t] = "idle" /\ idx' = idx /\ pc'[t] = "idle"
  BY DEF EraseFind, WriteFind, Idle, bc_find
<1>c. job[t] = NoJob /\ job[t].change.kind = "none"
  BY <1>a, <1>b, NoJobTyped DEF Link
<1>d. lock = NoThread  BY <1>b, AloneUnlocked
<1>e. Found(h) = -1 => Absent(h)  BY <1>d, AloneFinds
<1>f. ASSUME Done(t, h, Blank) PROVE MarkInv'  BY <1>b, <1>c, <1>f, MarkDone
<1>1. CASE EraseFind(t, h)
  <2> DEFINE j == [NoJob EXCEPT !.h = h, !.pos = Found(h)]
  <2>1. CASE Begin(t, "erase", j)
    <3>1. j.h = h /\ j.change = NoChange  BY DEF NoJob
    <3>2. j.change \in Change /\ j.change.kind = "none"
      BY <3>1 DEF NoChange, Change
    <3> HIDE DEF j
    <3> QED  BY <1>b, <2>1, <3>1, <3>2, MarkBegin
  <2> QED  BY <1>1, <1>f, <2>1 DEF EraseFind
<1>2. ASSUME NEW c \in Changes(h), WriteFind(t, h, c) PROVE MarkInv'
  <2> DEFINE d == Apply(c, Fresh)
             j == [NoJob EXCEPT !.h = h, !.change = c, !.d = d, !.pos = Found(h)]
  <2>1. j.h = h /\ j.change = c /\ j.d = d  BY DEF NoJob
  <2>2. c \in Change  BY ChangesTyped DEF ClientInv
  <2>3. c.kind = "mark" => c.d \subseteq d  BY DEF Apply
  <2>4. CASE Begin(t, "get", j)
    <3> HIDE DEF j, d
    <3> QED  BY <1>b, <2>1, <2>2, <2>4, MarkBegin
  <2>5. CASE Found(h) = -1 /\ Begin(t, "append", j)
    <3> HIDE DEF j, d
    <3> QED  BY <1>b, <1>e, <2>1, <2>2, <2>3, <2>5, MarkBegin
  <2> QED  BY <1>2, <1>f, <2>4, <2>5 DEF WriteFind
<1> QED  BY <1>1, <1>2

MarkOK == crashes = 0 /\ db = "coin" => MarkInv

LEMMA MarkNext ==
  ASSUME OneThread, ~IOErrors, StoreFacts, StoreFacts', ClientInv, RecOK, MarkOK,
         [ClientNext]_allVars
  PROVE  MarkOK'
<1> SUFFICES ASSUME crashes' = 0, db' = "coin" PROVE MarkInv'
  BY DEF MarkOK
<1>1. crashes = 0 /\ ~ClientCrash /\ db = "coin"
  BY CrashCount, SameDb DEF StoreFacts
<1>2. RecInv /\ MarkInv  BY <1>1 DEF RecOK, MarkOK
<1>3. CASE UNCHANGED allVars
  BY <1>2, <1>3 DEF allVars, vars, files, clientVars, MarkInv, MarkHeld, MarkProc,
     At, Fits
<1>4. ASSUME NEW t \in Thread, ClientStep(t) PROVE MarkInv'
  <2>1. RecProc(t) /\ Link(t)  BY <1>2 DEF RecInv
  <2>2. CASE Step(t) /\ UNCHANGED clientVars
    <3>1. pc[t] # "idle"
      BY <2>2 DEF Step, bc_idx_set, bc_idx_set_table, bc_write_data,
         bc_write_of, bc_rewrite, bc_write_undo, bc_write_undo_table,
         bc_arch_next, bc_arch_set, bc_clear_idx, bc_purge_next,
         bc_arch_write_data, bc_arch_write_of, bc_arch_write_add
    <3>2. \/ cpc[t] = "written" /\ pc[t] \in WriteLabel
          \/ cpc[t] = "erased" /\ pc[t] \in ClearLabel
      BY <2>1, <3>1 DEF RecProc, RecordLabel, Link
    <3> QED  BY <1>1, <1>2, <2>2, <3>2, MarkWriteStep, MarkClearStep
  <2>3. CASE WriteBlockClear(t) \/ WriteBlockCleared(t) \/ WriteBlockData(t)
             \/ WriteBlockWritten(t) \/ WriteArchBlockData(t)
    BY <2>1, <2>3 DEF WriteBlockClear, WriteBlockCleared, WriteBlockData,
       WriteBlockWritten, WriteArchBlockData, Returned, RecProc, RecordLabel
  <2> QED
    BY <1>1, <1>2, <1>4, <2>2, <2>3, MarkCalls, MarkGets, MarkEnds
    DEF ClientStep
<1>5. ASSUME NEW t \in Thread, ClientCall(t) PROVE MarkInv'
  BY <1>1, <1>2, <1>5, MarkFinds DEF ClientCall, WriteArchBlock, WriteBlock
<1> QED  BY <1>1, <1>3, <1>4, <1>5 DEF ClientNext

(* An output of the coin database that was marked as spent stays marked    *)
(* until it is unmarked or the record is erased, when files can be         *)
(* enlarged up to their limits: a record whose marks change is written     *)
(* over in its own room, which is in the journal already, so that the one  *)
(* write that loses the old entry when it fails cannot fail.               *)
THEOREM SpentMarksKept ==
  OneThread /\ ~IOErrors =>
    (ClientSpec => [](crashes = 0 /\ db = "coin" => MarksKept))
<1> SUFFICES ASSUME OneThread, ~IOErrors
             PROVE  ClientSpec => [](crashes = 0 /\ db = "coin" => MarksKept)
  OBVIOUS
<1>1. ClientInit => MarkOK
  BY DEF ClientInit, MarkOK, MarkInv, MarkHeld, MarkProc
<1>2. /\ StoreFacts /\ ClientInv /\ RecOK /\ MarkOK /\ [ClientNext]_allVars
      /\ (StoreFacts /\ ClientInv)'
      => MarkOK'
  BY MarkNext
<1>3. StoreFacts /\ ClientInv /\ RecOK /\ MarkOK
        => (crashes = 0 /\ db = "coin" => MarksKept)
  <2> SUFFICES ASSUME StoreFacts, RecOK, MarkOK, crashes = 0, db = "coin",
                      NEW h \in Hash, ~Busy(h), marked[h] # {}
               PROVE  \E p \in Pos : /\ Found(h) = p
                                     /\ bc_get(p).err = "ok"
                                     /\ marked[h] \subseteq bc_get(p).data
    BY DEF MarksKept
  <2>1. RecInv /\ MarkInv  BY DEF RecOK, MarkOK
  <2>2. PICK p \in Pos : At(p, h) /\ marked[h] \subseteq idx[p].crc
    BY <2>1 DEF MarkInv, MarkHeld
  <2> QED  BY <2>1, <2>2, ReadsOthers
<1> QED  BY <1>1, <1>2, <1>3, ClientFacts, RecCorrect, PTL DEF ClientSpec

-----------------------------------------------------------------------------
(* The block database with one thread in CBlock::WriteBlock and            *)
(* CBlock::WriteArchBlock.  A block is never written over another one:     *)
(* WriteBlock clears the height first.  Data then only goes to the end of  *)
(* a journal, and what a block database has acknowledged survives crashes  *)
(* in the middle of any later write.                                       *)

BlockLabel == {"none", "block_clear", "block_cleared", "block_write",
               "block_written", "block_arch"}

(* What a procedure of the block database knows: its height is blank when  *)
(* it writes there, and the data it stores goes to the end of the journal. *)
BlockProc(t) ==
  LET j == job[t]
      rec == loc[t].rec IN
  /\ cpc[t] \in BlockLabel
  /\ Link(t)
  /\ cpc[t] # "none" => j.d = BlockData[j.h]
  /\ cpc[t] = "block_write" => idx[j.pos] = Blank
  /\ cpc[t] = "block_cleared" /\ pc[t] = "idle" /\ ret[t] = "ok"
       => idx[j.pos] = Blank
  /\ pc[t] \in {"table_reset", "append", "append_of", "aw_of"}
       => rec.of = of[rec.jrnl]
  /\ pc[t] \in {"append", "append_of"} => SlotCovers(loc[t].pos)

Matches == \A p \in Pos : idx[p] # Blank => idx[p].crc = BlockData[idx[p].hash]

(* A record whose bytes are there and lie before the end of the journal.   *)
Secure(rec) == CrcOk(rec) /\ rec.of + rec.size <= of[rec.jrnl]

Settled(p) == Live(p) /\ Secure(idx[p]) /\ SlotCovers(p)

BlockInv ==
  /\ Matches
  /\ \A p \in acked : Settled(p)
  /\ \A t \in Thread : BlockProc(t)

-----------------------------------------------------------------------------
(* What any step does to the table, the journals and the index.            *)

(* A step of the database that is not one of a few leaves a file alone.    *)
LEMMA TableStep ==
  ASSUME TypeInv, NEW t \in Thread, Step(t)
  PROVE  tab' = tab \/ \E h \in Hash : tab' = TableReset(h)
<1>1. CallTyped(t)  BY DEF TypeInv
<1>2. CASE bc_idx_set_table(t) \/ bc_write_undo_table(t)
  BY <1>1, <1>2 DEF bc_idx_set_table, bc_write_undo_table, CallTyped, WriteLabel
<1>3. CASE bc_arch_set(t) \/ bc_clear_idx(t)
  <2>1. loc[t].rec.hash \in Hash
    BY <1>1, <1>3 DEF bc_arch_set, bc_clear_idx, CallTyped, ClearLabel, IdxRec
  <2>2. \A e : ClearFails(t, e) => tab' = tab \/ tab' = TableReset(loc[t].rec.hash)
    BY DEF ClearFails
  <2> QED  BY <1>3, <2>1, <2>2 DEF bc_arch_set, bc_clear_idx
<1>4. CASE bc_idx_set(t) \/ bc_write_data(t) \/ bc_write_of(t) \/ bc_rewrite(t)
           \/ bc_write_undo(t)
  BY <1>4 DEF bc_idx_set, bc_write_data, bc_write_of, bc_rewrite, bc_write_undo,
     files
<1>5. CASE bc_arch_next(t) \/ bc_purge_next(t) \/ bc_arch_write_data(t)
           \/ bc_arch_write_of(t) \/ bc_arch_write_add(t)
  BY <1>5 DEF bc_arch_next, bc_purge_next, bc_arch_write_data, bc_arch_write_of,
     bc_arch_write_add, files
<1> QED  BY <1>2, <1>3, <1>4, <1>5 DEF Step

(* The data of every call but four is where it was.                        *)
LEMMA DataStep ==
  ASSUME NEW t \in Thread, Step(t)
  PROVE  \/ cell' = cell /\ of' = of
         \/ bc_write_data(t) \/ bc_write_of(t)
         \/ bc_arch_write_data(t) \/ bc_arch_write_of(t)
<1>1. CASE bc_idx_set(t) \/ bc_idx_set_table(t) \/ bc_rewrite(t)
           \/ bc_write_undo(t) \/ bc_write_undo_table(t)
  BY <1>1 DEF bc_idx_set, bc_idx_set_table, bc_rewrite, bc_write_undo,
     bc_write_undo_table, files
<1>2. CASE bc_arch_next(t) \/ bc_arch_set(t) \/ bc_clear_idx(t)
           \/ bc_purge_next(t) \/ bc_arch_write_add(t)
  BY <1>2 DEF bc_arch_next, bc_arch_set, bc_clear_idx, bc_purge_next,
     bc_arch_write_add, files
<1> QED  BY <1>1, <1>2 DEF Step

(* The calls that store at once change the index or the table only.        *)
LEMMA CallFiles ==
  ASSUME NEW t \in Thread, Call(t)
  PROVE  /\ cell' = cell /\ of' = of /\ arch' = arch
         /\ \/ tab' = tab
            \/ \E h \in Hash : tab' = TableReset(h) \/ tab' = bc_idx_find(h).tab
            \/ tab' = [b \in Bucket |-> BC_TABLE_SEARCH_POS]
<1>1. ASSUME NEW h \in Hash, bc_find(t, h) \/ bc_table_reset(t, h)
      PROVE  /\ cell' = cell /\ of' = of /\ arch' = arch
             /\ tab' = TableReset(h) \/ tab' = bc_idx_find(h).tab
  BY <1>1 DEF bc_find, bc_table_reset
<1>2. ASSUME NEW h, NEW d, NEW p,
             \/ bc_append(t, h, d) \/ bc_arch_write(t, h, d)
             \/ bc_write(t, p, h, d) \/ bc_clear(t, p) \/ bc_idx_clear(t, p)
             \/ bc_purge(t, p)
      PROVE  cell' = cell /\ of' = of /\ arch' = arch /\ tab' = tab
  BY <1>2 DEF bc_append, bc_arch_write, bc_write, bc_clear, bc_idx_clear,
     bc_purge, files
<1>3. CASE bc_table_clear(t)  BY <1>3 DEF bc_table_clear
<1> QED  BY <1>1, <1>2, <1>3 DEF Call

(* No step uncovers an entry that stays.                                   *)
LEMMA CoversStay ==
  ASSUME TypeInv, [Next]_vars, NEW p \in Pos, Live(p), idx'[p] = idx[p],
         SlotCovers(p)
  PROVE  SlotCovers(p)'
<1>a. idx[p] \in IdxRec  BY DEF Live, TypeInv, TypeOK
<1>b. bc_table_hash[idx[p].hash] \in Bucket  BY <1>a, HashAssumption DEF IdxRec
<1>1. CASE tab' = tab  BY <1>1 DEF SlotCovers
<1>2. ASSUME NEW h \in Hash, tab' = TableReset(h) PROVE SlotCovers(p)'
  BY <1>2, ResetCovers
<1>3. CASE tab' = [b \in Bucket |-> BC_TABLE_SEARCH_POS]
  BY <1>3, <1>b DEF SlotCovers
<1>4. ASSUME NEW h \in Hash, tab' = bc_idx_find(h).tab PROVE SlotCovers(p)'
  <2> DEFINE b == bc_table_hash[h]
             c == bc_table_hash[idx[p].hash]
  <2>1. /\ \A e \in Bucket \ {b} : tab'[e] = tab[e]
        /\ \/ tab' = tab
           \/ \A q \in Pos : InBucket(q, b) =>
                \/ tab'[b] = BC_TABLE_SEARCH_POS
                \/ tab'[b] # BC_TABLE_NULL_POS /\ tab'[b] >= q
    BY <1>4, FindTable DEF TypeInv
  <2>2. CASE c # b  BY <1>b, <2>1, <2>2 DEF SlotCovers
  <2>3. CASE c = b
    <3>1. InBucket(p, b)  BY <2>3 DEF InBucket
    <3> QED  BY <1>1, <2>1, <2>3, <3>1 DEF SlotCovers
  <2> QED  BY <2>2, <2>3
<1>5. CASE Crash \/ UNCHANGED vars  BY <1>1, <1>5 DEF Crash, vars, files
<1> QED  BY <1>1, <1>2, <1>3, <1>4, <1>5, TableStep, CallFiles DEF Next

(* A record of the block database that is secure stays secure: new data    *)
(* goes behind it.                                                         *)
LEMMA SecureStays ==
  ASSUME StoreFacts, TypeInv', [Next]_vars, \A t \in Thread : BlockProc(t),
         NEW r \in IdxRec, Secure(r)
  PROVE  Secure(r)'
<1>a. TypeInv /\ StoreInv  BY DEF StoreFacts
<1>b. /\ r.jrnl \in Journal /\ r.of \in Nat /\ r.size \in Nat
      /\ \A j \in Journal : of[j] \in Int /\ of'[j] \in Int
  BY <1>a, BoundAssumption DEF IdxRec, TypeInv, TypeOK
<1>1. CASE cell' = cell /\ of' = of  BY <1>1 DEF Secure, CrcOk
<1>2. ASSUME NEW t \in Thread, bc_write_data(t) \/ bc_arch_write_data(t),
             ~(cell' = cell /\ of' = of)
      PROVE  Secure(r)'
  <2> DEFINE rec == loc[t].rec
  <2>1. /\ pc[t] \in {"append", "aw_data"} /\ of' = of
        /\ cell' = [cell EXCEPT ![rec.jrnl] = Stored(@, rec.of, rec.crc)]
    BY <1>2 DEF bc_write_data, bc_arch_write_data
  <2>2. rec \in IdxRec /\ rec.size = Size[rec.crc]
    BY <1>a, <2>1 DEF TypeInv, CallTyped, WriteLabel, ArchLabel
  <2>3. rec.of = of[rec.jrnl]
    BY <1>a, <2>1 DEF BlockProc, StoreInv, Holding
  <2>4. Apart(r, rec)  BY <2>3 DEF Secure, Apart
  <2>5. CrcOk(r)'  BY <1>a, <2>1, <2>2, <2>4, CopyApart DEF Secure
  <2> QED  BY <2>1, <2>5 DEF Secure
<1>3. ASSUME NEW t \in Thread, bc_write_of(t) \/ bc_arch_write_of(t)
      PROVE  Secure(r)'
  <2> DEFINE rec == loc[t].rec
  <2>1. /\ pc[t] \in {"append_of", "aw_of"} /\ cell' = cell
        /\ of' = [of EXCEPT ![rec.jrnl] = Max({@, rec.of + rec.size})]
    BY <1>3 DEF bc_write_of, bc_arch_write_of
  <2>2. /\ rec.jrnl \in Journal /\ rec.of + rec.size \in Int
        /\ of[rec.jrnl] \in Int /\ of \in [Journal -> 0 .. MaxOf]
    BY <1>a, <1>b, <2>1 DEF TypeInv, TypeOK, CallTyped, WriteLabel, ArchLabel, IdxRec
  <2>3. Max({of[rec.jrnl], rec.of + rec.size}) >= of[rec.jrnl]
    BY <2>2, MaxPair
  <2>4. of'[r.jrnl] >= of[r.jrnl]  BY <1>b, <2>1, <2>2, <2>3
  <2>5. r.of + r.size <= of'[r.jrnl]  BY <1>b, <2>4 DEF Secure
  <2> QED  BY <2>1, <2>5 DEF Secure, CrcOk
<1>4. CASE Crash \/ UNCHANGED vars  BY <1>1, <1>4 DEF Crash, vars, files
<1> QED  BY <1>1, <1>2, <1>3, <1>4, DataStep, CallFiles DEF Next

LEMMA SettledStays ==
  ASSUME StoreFacts, TypeInv', [Next]_vars, BlockInv,
         NEW p \in acked, idx'[p] = idx[p]
  PROVE  Settled(p)'
<1>a. TypeInv /\ p \in Pos /\ Settled(p)
  BY DEF StoreFacts, BlockInv, TypeInv, TypeOK
<1>b. idx[p] \in IdxRec /\ Live(p)  BY <1>a DEF Settled, Live, TypeInv, TypeOK
<1>1. cnt' >= cnt  BY <1>a, CountGrows
<1>2. Live(p)'
  <2>1. cnt \in Int /\ cnt' \in Int /\ p \in Int
    BY <1>a, BoundAssumption DEF TypeInv, TypeOK, Pos
  <2> QED  BY <1>1, <1>b, <2>1 DEF Live
<1>3. SlotCovers(p)'  BY <1>a, <1>b, CoversStay DEF Settled
<1>4. PICK r \in IdxRec : r = idx[p]  BY <1>b
<1>5. Secure(r)'  BY <1>a, <1>4, SecureStays DEF Settled, BlockInv
<1>6. Secure(idx[p])'  BY <1>4, <1>5 DEF Secure, CrcOk
<1> QED  BY <1>2, <1>3, <1>6 DEF Settled

(* What a step does to the entries that clients were told of.              *)
LEMMA AckedStep ==
  ASSUME StoreFacts, NEW t \in Thread, Step(t) \/ Call(t), NEW p \in acked'
  PROVE  /\ p \in acked \/ (bc_write_of(t) /\ p = loc[t].pos)
         /\ idx'[p] = idx[p]
<1>a. /\ idx \in [Pos -> IdxRec \cup {Blank}] /\ acked \subseteq Pos /\ Holding(t)
      /\ CallTyped(t)
  BY DEF StoreFacts, TypeInv, TypeOK, StoreInv
<1>1. CASE UNCHANGED <<idx, acked>>  BY <1>1
<1>2. ASSUME NEW q \in Pos, NEW v, idx' = [idx EXCEPT ![q] = v], acked' = acked \ {q}
      PROVE  p \in acked /\ idx'[p] = idx[p]
  BY <1>2, <1>a
<1>3. CASE bc_idx_set(t)  BY <1>1, <1>2, <1>3 DEF bc_idx_set, files
<1>4. CASE bc_rewrite(t) \/ bc_clear_idx(t)
  BY <1>1, <1>2, <1>4, <1>a DEF bc_rewrite, bc_clear_idx, CallTyped, WriteLabel, ClearLabel
<1>5. CASE bc_write_undo(t)
  <2>1. /\ loc[t].pos \notin acked /\ acked' = acked
        /\ idx' = [idx EXCEPT ![loc[t].pos] = Blank]
    BY <1>5, <1>a DEF bc_write_undo, Holding, StoreLabel
  <2> QED  BY <1>a, <2>1
<1>6. CASE bc_write_of(t)  BY <1>6 DEF bc_write_of
<1>7. CASE \/ bc_idx_set_table(t) \/ bc_write_data(t) \/ bc_write_undo_table(t)
           \/ bc_arch_next(t) \/ bc_arch_set(t) \/ bc_purge_next(t)
  BY <1>7, <1>1 DEF bc_idx_set_table, bc_write_data, bc_write_undo_table,
     bc_arch_next, bc_arch_set, bc_purge_next, files
<1>8. CASE bc_arch_write_data(t) \/ bc_arch_write_of(t) \/ bc_arch_write_add(t)
  BY <1>8, <1>1 DEF bc_arch_write_data, bc_arch_write_of, bc_arch_write_add
<1>9. ASSUME NEW q \in Pos, bc_idx_clear(t, q) PROVE p \in acked /\ idx'[p] = idx[p]
  BY <1>9, <1>2 DEF bc_idx_clear
<1>10. ASSUME NEW h, NEW d, NEW q,
              \/ bc_find(t, h) \/ bc_table_reset(t, h) \/ bc_append(t, h, d)
              \/ bc_arch_write(t, h, d) \/ bc_write(t, q, h, d)
              \/ bc_clear(t, q) \/ bc_purge(t, q) \/ bc_table_clear(t)
       PROVE  UNCHANGED <<idx, acked>>
  BY <1>10 DEF bc_find, bc_table_reset, bc_append, bc_arch_write, bc_write,
     bc_clear, bc_purge, bc_table_clear, files
<1> QED
  BY <1>1, <1>3, <1>4, <1>5, <1>6, <1>7, <1>8, <1>9, <1>10 DEF Step, Call

-----------------------------------------------------------------------------
(* The invariant of the block database is kept.                            *)

(* An entry that appears is one of a block.                                *)
LEMMA MatchesStep ==
  ASSUME StoreFacts, BlockInv, NEW t \in Thread, NEW p \in Pos, Matches,
         \/ idx' = idx
         \/ idx' = [idx EXCEPT ![p] = Blank]
         \/ /\ idx' = [idx EXCEPT ![p] = loc[t].rec]
            /\ loc[t].rec.crc = BlockData[loc[t].rec.hash]
  PROVE  Matches'
<1>1. idx \in [Pos -> IdxRec \cup {Blank}]  BY DEF StoreFacts, TypeInv, TypeOK
<1> QED  BY <1>1 DEF Matches

(* The invariant after a step of thread t that acknowledges nothing.       *)
LEMMA BlockGoesOn ==
  ASSUME OneThread, StoreFacts, TypeInv', BlockInv, NEW t \in Thread,
         Step(t) \/ Call(t) \/ UNCHANGED vars, ~bc_write_of(t), Matches',
         BlockProc(t)'
  PROVE  BlockInv'
<1>1. [Next]_vars  BY DEF Next
<1>2. ASSUME NEW p \in acked' PROVE p \in acked /\ idx'[p] = idx[p]
  <2>1. CASE UNCHANGED vars  BY <1>2, <2>1 DEF vars, files
  <2>2. CASE Step(t) \/ Call(t)  BY <1>2, <2>2, AckedStep
  <2> QED  BY <2>1, <2>2
<1>3. \A p \in acked' : Settled(p)'  BY <1>1, <1>2, SettledStays
<1> QED  BY <1>3 DEF BlockInv, OneThread

LEMMA BlockWriteStep ==
  ASSUME OneThread, StoreFacts, TypeInv', ClientInv, BlockInv, NEW t \in Thread,
         cpc[t] = "block_written", pc[t] \in WriteLabel, Step(t),
         UNCHANGED clientVars
  PROVE  BlockInv'
<1> DEFINE rec == loc[t].rec
           pos == loc[t].pos
           h == job[t].h
<1>a. BlockProc(t) /\ Link(t) /\ Matches /\ Holding(t) /\ CallTyped(t)
  BY DEF BlockInv, BlockProc, StoreFacts, StoreInv, TypeInv
<1>b. /\ rec.hash = h /\ rec.crc = BlockData[h] /\ rec \in IdxRec /\ h \in Hash
  BY <1>a DEF Link, BlockProc, CallTyped, ClientInv, JobTyped
<1>c. /\ idx \in [Pos -> IdxRec \cup {Blank}] /\ pc \in [Thread -> Label]
      /\ tab \in [Bucket -> Pos \cup {BC_TABLE_NULL_POS}]
  BY DEF StoreFacts, TypeInv, TypeOK
<1>d. /\ cpc' = cpc /\ job' = job /\ db' = db  BY DEF clientVars
<1>e. ASSUME pc'[t] = "idle" PROVE BlockProc(t)'
  <2>1. Link(t)'
    BY <1>a, <1>d, <1>e DEF Link, WriteLabel, ClearLabel, ArchLabel
  <2> QED  BY <1>a, <1>d, <1>e, <2>1 DEF BlockProc
<1>f. ASSUME NEW l \in {"table_reset", "append", "append_of", "undo_idx", "undo_tab"},
             pc'[t] = l, loc' = loc, of' = of,
             l \in {"table_reset", "append", "append_of"} => rec.of = of[rec.jrnl],
             l \in {"append", "append_of"} => SlotCovers(pos)'
      PROVE  BlockProc(t)'
  <2>1. Link(t)'
    BY <1>a, <1>d, <1>f DEF Link, WriteLabel, ClearLabel, ArchLabel
  <2>2. l \in {"append", "append_of"} => SlotCovers(loc[t].pos)'
    BY <1>f DEF SlotCovers
  <2> QED  BY <1>a, <1>d, <1>f, <2>1, <2>2 DEF BlockProc
<1>j. \A e : Return(t, e) => pc'[t] = "idle"  BY <1>c DEF Return, Goto
<1>k. \A l : Goto(t, l) => pc'[t] = l  BY <1>c DEF Goto
<1>1. CASE bc_idx_set(t)
  <2>1. pc[t] = "idx_set" /\ ~bc_write_of(t)
    BY <1>1 DEF bc_idx_set, bc_write_of
  <2>2. CASE Return(t, "ERR_IO") /\ idx' = idx
    <3>1. Matches'  BY <1>a, <2>2 DEF Matches
    <3> QED  BY <1>e, <1>j, <2>1, <2>2, <3>1, BlockGoesOn
  <2>3. CASE pos \in Pos /\ idx' = [idx EXCEPT ![pos] = rec] /\ loc' = loc
             /\ Goto(t, "table_reset") /\ of' = of
    <3>1. Matches'  BY <1>a, <1>b, <2>3, MatchesStep
    <3>2. rec.of = of[rec.jrnl]  BY <1>a, <2>1 DEF Holding
    <3>3. BlockProc(t)'  BY <1>f, <1>k, <2>3, <3>2
    <3> QED  BY <2>1, <3>1, <3>3, BlockGoesOn
  <2> QED  BY <1>1, <2>2, <2>3 DEF bc_idx_set, files
<1>2. CASE bc_idx_set_table(t)
  <2>1. /\ pc[t] = "table_reset" /\ idx' = idx /\ loc' = loc /\ Goto(t, "append")
        /\ tab' = TableReset(loc[t].hash) /\ of' = of /\ ~bc_write_of(t)
    BY <1>2 DEF bc_idx_set_table, bc_write_of
  <2>2. idx[pos] = rec /\ rec.hash = loc[t].hash /\ rec.of = of[rec.jrnl]
    BY <1>a, <2>1 DEF Holding, StoreLabel, BlockProc
  <2>3. SlotCovers(pos)'
    <3>1. bc_table_hash[h] \in Bucket  BY <1>b, HashAssumption
    <3>2. tab'[bc_table_hash[h]] = BC_TABLE_SEARCH_POS
      BY <1>b, <1>c, <2>1, <2>2, <3>1 DEF TableReset
    <3>3. idx'[pos].hash = h  BY <1>b, <2>1, <2>2
    <3> QED  BY <2>1, <3>2, <3>3 DEF SlotCovers
  <2>4. Matches'  BY <1>a, <2>1 DEF Matches
  <2> QED  BY <1>f, <1>k, <2>1, <2>2, <2>3, <2>4, BlockGoesOn
<1>3. CASE bc_write_data(t)
  <2>1. /\ pc[t] = "append" /\ idx' = idx /\ loc' = loc /\ of' = of /\ tab' = tab
        /\ Goto(t, "append_of") \/ Goto(t, "undo_idx")
        /\ ~bc_write_of(t)
    BY <1>3 DEF bc_write_data, bc_write_of
  <2>2. rec.of = of[rec.jrnl] /\ SlotCovers(pos)  BY <1>a, <2>1 DEF BlockProc
  <2>3. SlotCovers(pos)'  BY <2>1, <2>2 DEF SlotCovers
  <2>4. Matches'  BY <1>a, <2>1 DEF Matches
  <2> QED  BY <1>f, <1>k, <2>1, <2>2, <2>3, <2>4, BlockGoesOn
<1>4. CASE bc_write_of(t)
  <2>1. /\ pc[t] = "append_of" /\ Return(t, "ok") /\ idx' = idx /\ cell' = cell
        /\ cnt' = cnt /\ tab' = tab
        /\ of' = [of EXCEPT ![rec.jrnl] = Max({@, rec.of + rec.size})]
    BY <1>4 DEF bc_write_of
  <2>2. /\ idx[pos] = rec /\ CrcOk(rec) /\ SlotCovers(pos) /\ pos \in Pos
        /\ pos < cnt
    BY <1>a, <2>1 DEF Holding, StoreLabel, BlockProc, CallTyped, WriteLabel
  <2>3. ASSUME NEW q \in Pos, q = pos PROVE Settled(q)'
    <3>1. of \in [Journal -> 0 .. MaxOf] /\ MaxOf \in Nat
      BY BoundAssumption DEF StoreFacts, TypeInv, TypeOK
    <3>2. rec.jrnl \in Journal /\ of[rec.jrnl] \in Int /\ rec.of + rec.size \in Int
      BY <1>b, <3>1 DEF IdxRec
    <3>3. Max({of[rec.jrnl], rec.of + rec.size}) >= rec.of + rec.size
      BY <3>2, MaxPair
    <3>4. rec.of + rec.size <= of'[rec.jrnl]  BY <2>1, <3>1, <3>2, <3>3
    <3>5. idx'[q] = rec /\ idx'[q] # Blank
      BY <1>b, <2>1, <2>2, <2>3, BlankAssumption
    <3>6. Live(q)'  BY <2>1, <2>2, <2>3, <3>5 DEF Live
    <3>7. Secure(idx[q])'  BY <2>1, <2>2, <3>4, <3>5 DEF Secure, CrcOk
    <3>8. SlotCovers(q)'  BY <2>1, <2>2, <2>3 DEF SlotCovers
    <3> QED  BY <3>6, <3>7, <3>8 DEF Settled
  <2>4. [Next]_vars  BY DEF Next
  <2>5. ASSUME NEW p \in acked' PROVE Settled(p)'
    <3>1. (p \in acked \/ p = pos) /\ idx'[p] = idx[p]  BY <2>5, AckedStep
    <3>2. CASE p \in acked  BY <2>4, <3>1, <3>2, SettledStays
    <3>3. CASE p = pos  BY <2>2, <2>3, <3>3
    <3> QED  BY <3>1, <3>2, <3>3
  <2>6. Matches'  BY <1>a, <2>1 DEF Matches
  <2>7. BlockProc(t)'  BY <1>e, <1>j, <2>1
  <2> QED  BY <2>5, <2>6, <2>7 DEF BlockInv, OneThread
<1>5. CASE bc_write_undo(t)
  <2>1. /\ pc[t] = "undo_idx" /\ idx' = [idx EXCEPT ![pos] = Blank] /\ loc' = loc
        /\ Goto(t, "undo_tab") /\ of' = of /\ ~bc_write_of(t) /\ pos \in Pos
    BY <1>5, <1>a DEF bc_write_undo, bc_write_of, CallTyped, WriteLabel
  <2>2. Matches'  BY <1>a, <2>1, MatchesStep
  <2> QED  BY <1>f, <1>k, <2>1, <2>2, BlockGoesOn
<1>6. CASE bc_write_undo_table(t)
  <2>1. idx' = idx /\ Return(t, "ERR_IO") /\ ~bc_write_of(t)
    BY <1>6 DEF bc_write_undo_table, bc_write_of
  <2>2. Matches'  BY <1>a, <2>1 DEF Matches
  <2> QED  BY <1>e, <1>j, <2>1, <2>2, BlockGoesOn
<1>7. pc[t] # "rw_idx"  BY <1>a DEF Link, WriteLabel, ArchLabel
<1> QED
  BY <1>1, <1>2, <1>3, <1>4, <1>5, <1>6, <1>7
  DEF Step, WriteLabel, bc_rewrite, bc_arch_next, bc_arch_set, bc_clear_idx,
      bc_purge_next, bc_arch_write_data, bc_arch_write_of, bc_arch_write_add

LEMMA BlockArchStep ==
  ASSUME OneThread, StoreFacts, TypeInv', ClientInv, BlockInv, NEW t \in Thread,
         cpc[t] = "block_written", pc[t] \in ArchLabel, Step(t),
         UNCHANGED clientVars
  PROVE  BlockInv'
<1> DEFINE rec == loc[t].rec
<1>a. BlockProc(t) /\ Link(t) /\ Matches /\ Holding(t)
  BY DEF BlockInv, BlockProc, StoreFacts, StoreInv
<1>b. pc \in [Thread -> Label]  BY DEF StoreFacts, TypeInv, TypeOK
<1>c. /\ cpc' = cpc /\ job' = job /\ db' = db  BY DEF clientVars
<1>d. \A e : Return(t, e) => pc'[t] = "idle"  BY <1>b DEF Return, Goto
<1>1. /\ bc_arch_write_data(t) \/ bc_arch_write_of(t) \/ bc_arch_write_add(t)
      /\ ~bc_write_of(t)
  BY DEF Step, ArchLabel, bc_idx_set, bc_idx_set_table, bc_write_data,
     bc_write_of, bc_rewrite, bc_write_undo, bc_write_undo_table,
     bc_arch_next, bc_arch_set, bc_clear_idx, bc_purge_next
<1>2. Matches'
  BY <1>1, <1>a DEF bc_arch_write_data, bc_arch_write_of, bc_arch_write_add, Matches
<1>3. CASE pc'[t] = "idle"
  <2>1. Link(t)'  BY <1>a, <1>c, <1>3 DEF Link, WriteLabel, ClearLabel, ArchLabel
  <2>2. BlockProc(t)'  BY <1>a, <1>c, <1>3, <2>1 DEF BlockProc
  <2> QED  BY <1>1, <1>2, <2>2, BlockGoesOn
<1>4. CASE pc'[t] # "idle"
  <2>1. /\ loc' = loc /\ pc'[t] \in {"aw_of", "aw_arch"}
        /\ pc'[t] = "aw_of" => pc[t] = "aw_data" /\ of' = of
    BY <1>1, <1>4, <1>b, <1>d
    DEF bc_arch_write_data, bc_arch_write_of, bc_arch_write_add, Goto
  <2>2. pc'[t] = "aw_of" => rec.of = of'[rec.jrnl]  BY <1>a, <2>1 DEF Holding
  <2>3. Link(t)'
    BY <1>a, <1>c, <2>1 DEF Link, WriteLabel, ClearLabel, ArchLabel
  <2>4. BlockProc(t)'  BY <1>a, <1>c, <2>1, <2>2, <2>3 DEF BlockProc
  <2> QED  BY <1>1, <1>2, <2>4, BlockGoesOn
<1> QED  BY <1>3, <1>4

LEMMA BlockClearStep ==
  ASSUME OneThread, StoreFacts, TypeInv', ClientInv, BlockInv, NEW t \in Thread,
         cpc[t] = "block_cleared", pc[t] \in ClearLabel, Step(t),
         UNCHANGED clientVars
  PROVE  BlockInv'
<1> DEFINE pos == loc[t].pos
<1>a. BlockProc(t) /\ Link(t) /\ Matches /\ CallTyped(t)
  BY DEF BlockInv, BlockProc, StoreFacts, TypeInv
<1>b. /\ pc \in [Thread -> Label] /\ loc \in [Thread -> Loc] /\ loc[t] \in Loc
      /\ idx \in [Pos -> IdxRec \cup {Blank}] /\ ret \in [Thread -> Result]
  BY DEF StoreFacts, TypeInv, TypeOK
<1>c. /\ cpc' = cpc /\ job' = job /\ db' = db  BY DEF clientVars
<1>d. loc[t].op = "clear" /\ pos = job[t].pos /\ pos \in Pos
  BY <1>a DEF Link, CallTyped, ClearLabel
<1>1. /\ bc_arch_next(t) \/ bc_arch_set(t) \/ bc_clear_idx(t)
      /\ ~bc_write_of(t)
  BY DEF Step, ClearLabel, bc_idx_set, bc_idx_set_table, bc_write_data,
     bc_write_of, bc_rewrite, bc_write_undo, bc_write_undo_table,
     bc_arch_write_data, bc_arch_write_of, bc_arch_write_add, bc_purge_next
<1>2. Matches'
  <2>1. idx' = idx \/ idx' = [idx EXCEPT ![pos] = Blank]
    BY <1>1 DEF bc_arch_next, bc_arch_set, bc_clear_idx, files
  <2> QED  BY <1>a, <1>d, <2>1, MatchesStep
<1>3. CASE pc'[t] = "idle"
  <2>1. ret'[t] = "ok" => idx'[pos] = Blank
    BY <1>1, <1>3, <1>b, <1>d
    DEF bc_arch_next, bc_arch_set, bc_clear_idx, ClearFails, Return, Goto
  <2>2. Link(t)'  BY <1>a, <1>c, <1>3 DEF Link, WriteLabel, ClearLabel, ArchLabel
  <2>3. BlockProc(t)'  BY <1>a, <1>c, <1>d, <1>3, <2>1, <2>2 DEF BlockProc
  <2> QED  BY <1>1, <1>2, <2>3, BlockGoesOn
<1>4. CASE pc'[t] # "idle"
  <2>1. pc'[t] \in ClearLabel /\ loc'[t].op = "clear" /\ loc'[t].pos = pos
    <3>1. CASE bc_arch_next(t)
      BY <3>1, <1>b, <1>d DEF bc_arch_next, Goto, ClearLabel, Loc
    <3>2. CASE bc_arch_set(t) \/ bc_clear_idx(t)
      BY <3>2, <1>4, <1>b, <1>d
      DEF bc_arch_set, bc_clear_idx, ClearFails, Return, Goto, ClearLabel
    <3> QED  BY <1>1, <3>1, <3>2
  <2>2. Link(t)'
    BY <1>a, <1>c, <1>d, <2>1 DEF Link, WriteLabel, ClearLabel, ArchLabel
  <2>3. BlockProc(t)'  BY <1>a, <1>c, <2>1, <2>2 DEF BlockProc, ClearLabel
  <2> QED  BY <1>1, <1>2, <2>3, BlockGoesOn
<1> QED  BY <1>3, <1>4

(* A procedure returns, or begins.                                         *)
LEMMA BlockIdle ==
  ASSUME OneThread, StoreFacts, TypeInv', ClientInv, BlockInv, NEW t \in Thread,
         Call(t) \/ UNCHANGED vars, idx' = idx, pc'[t] = "idle",
         cpc'[t] \in BlockLabel \ {"block_cleared"},
         cpc'[t] = "none" => job'[t] = NoJob,
         cpc'[t] # "none" => job'[t].d = BlockData[job'[t].h],
         cpc'[t] = "block_write" => idx[job'[t].pos] = Blank
  PROVE  BlockInv'
<1>1. ~bc_write_of(t)
  <2>1. CASE UNCHANGED vars
    <3>1. pc' = pc  BY <2>1 DEF vars
    <3> QED  BY <3>1 DEF bc_write_of
  <2>2. CASE Call(t)
    <3>1. pc[t] = "idle"
      BY <2>2 DEF Call, bc_find, bc_table_reset, bc_append, bc_arch_write,
         bc_write, bc_clear, bc_idx_clear, bc_purge, bc_table_clear
    <3> QED  BY <3>1 DEF bc_write_of
  <2> QED  BY <2>1, <2>2
<1>2. Matches'  BY DEF BlockInv, Matches
<1>3. Link(t)'  BY DEF Link, BlockLabel, WriteLabel, ClearLabel, ArchLabel
<1>4. BlockProc(t)'  BY <1>3 DEF BlockProc, BlockLabel
<1> QED  BY <1>1, <1>2, <1>4, BlockGoesOn

LEMMA BlockProcedures ==
  ASSUME OneThread, StoreFacts, TypeInv', ClientInv, BlockInv, NEW t \in Thread,
         \/ WriteBlockClear(t) \/ WriteBlockCleared(t) \/ WriteBlockData(t)
         \/ WriteBlockWritten(t) \/ WriteArchBlockData(t)
  PROVE  BlockInv'
<1> DEFINE j == job[t]
<1>a. BlockProc(t) /\ Link(t) /\ Matches  BY DEF BlockInv, BlockProc
<1>b. /\ pc \in [Thread -> Label] /\ loc \in [Thread -> Loc]
      /\ ret \in [Thread -> Result] /\ cpc \in [Thread -> ClientLabel]
      /\ job \in [Thread -> Job]
  BY DEF StoreFacts, TypeInv, TypeOK, ClientInv, ClientTypeOK
<1>c. /\ pc[t] = "idle"
      /\ cpc[t] \in {"block_clear", "block_cleared", "block_write",
                     "block_written", "block_arch"}
  BY DEF WriteBlockClear, WriteBlockCleared, WriteBlockData, WriteBlockWritten,
     WriteArchBlockData, Returned
<1>d. Call(t) \/ UNCHANGED vars
  <2>1. TypeInv  BY DEF StoreFacts
  <2>2. ~Step(t)
    BY <1>c DEF Step, bc_idx_set, bc_idx_set_table, bc_write_data, bc_write_of,
       bc_rewrite, bc_write_undo, bc_write_undo_table, bc_arch_next,
       bc_arch_set, bc_clear_idx, bc_purge_next, bc_arch_write_data,
       bc_arch_write_of, bc_arch_write_add
  <2> QED  BY <2>1, <2>2, ClientRefines DEF ClientStep
<1>e. ~bc_write_of(t)  BY <1>c DEF bc_write_of
<1>f. j.d = BlockData[j.h] /\ j.h \in Hash
  BY <1>a, <1>c DEF BlockProc, ClientInv, JobTyped
<1>1. CASE WriteBlockClear(t)
  <2>1. /\ bc_clear(t, j.pos) /\ job' = job /\ cpc'[t] = "block_cleared"
        /\ idx' = idx
    BY <1>1, <1>b DEF WriteBlockClear, Continue, bc_clear, files
  <2>2. \/ pc'[t] = "idle" /\ ret'[t] # "ok"
        \/ pc'[t] = "clear_next" /\ loc'[t].op = "clear" /\ loc'[t].pos = j.pos
    <3> DEFINE l == [NoLoc EXCEPT !.op = "clear", !.pos = j.pos, !.rec = idx[j.pos]]
    <3>1. l.op = "clear" /\ l.pos = j.pos  BY DEF NoLoc
    <3>2. \/ Goto(t, "clear_next") /\ loc' = [loc EXCEPT ![t] = l]
          \/ Return(t, "ERR_NOENT")
      BY <2>1 DEF bc_clear
    <3> HIDE DEF l
    <3> QED  BY <1>b, <3>1, <3>2 DEF Goto, Return
  <2>3. Matches'  BY <1>a, <2>1 DEF Matches
  <2>4. Link(t)'
    BY <2>1, <2>2 DEF Link, WriteLabel, ClearLabel, ArchLabel
  <2>5. BlockProc(t)'
    BY <1>f, <2>1, <2>2, <2>4 DEF BlockProc, BlockLabel
  <2> QED  BY <1>d, <1>e, <2>3, <2>5, BlockGoesOn
<1>2. CASE WriteBlockCleared(t)
  <2>1. cpc[t] = "block_cleared"  BY <1>2 DEF WriteBlockCleared, Returned
  <2>2. CASE ret[t] = "ok"
    <3>1. /\ bc_table_reset(t, j.old) /\ Continue(t, "block_write")
      BY <1>2, <2>2 DEF WriteBlockCleared
    <3>2. /\ idx' = idx /\ pc'[t] = "idle" /\ cpc'[t] = "block_write" /\ job' = job
      BY <1>b, <1>c, <3>1 DEF bc_table_reset, Continue
    <3>3. idx[j.pos] = Blank  BY <1>a, <1>c, <2>1, <2>2 DEF BlockProc
    <3> QED  BY <1>d, <1>f, <3>2, <3>3, BlockIdle DEF BlockLabel
  <2>3. CASE ret[t] # "ok"
    <3>1. Done(t, j.h, want[j.h]) /\ UNCHANGED vars
      BY <1>2, <2>3 DEF WriteBlockCleared
    <3>2. /\ idx' = idx /\ pc'[t] = "idle" /\ cpc'[t] = "none" /\ job'[t] = NoJob
      BY <1>b, <1>c, <3>1 DEF vars, files, Done
    <3> QED  BY <1>d, <3>2, BlockIdle DEF BlockLabel
  <2> QED  BY <2>2, <2>3
<1>3. CASE WriteBlockWritten(t)
  <2>1. idx' = idx /\ pc'[t] = "idle" /\ cpc'[t] = "none" /\ job'[t] = NoJob
    BY <1>b, <1>c, <1>3 DEF WriteBlockWritten, vars, files, Done
  <2> QED  BY <1>d, <2>1, BlockIdle DEF BlockLabel
<1>4. CASE WriteBlockData(t)
  <2>1. /\ cpc[t] = "block_write" /\ bc_write(t, j.pos, j.h, j.d) /\ job' = job
        /\ cpc'[t] = "block_written"
    BY <1>4, <1>b DEF WriteBlockData, Returned, Continue
  <2>2. idx[j.pos] = Blank /\ ~Live(j.pos)
    BY <1>a, <2>1 DEF BlockProc, Live
  <2> DEFINE new == [NoLoc EXCEPT !.op = "write", !.pos = j.pos, !.hash = j.h]
             l == [new EXCEPT !.rec = NewRec(j.pos, j.h, j.d)]
  <2>3. idx' = idx /\ (Return(t, "ERR_IO") \/ Enter(t, "idx_set", l))
    BY <2>1, <2>2 DEF bc_write, files
  <2>4. l.pos = j.pos /\ l.rec.hash = j.h /\ l.rec.crc = j.d
    BY DEF NoLoc, NewRec
  <2> HIDE DEF l
  <2>5. \/ pc'[t] = "idle"
        \/ pc'[t] = "idx_set" /\ loc'[t] = l
    BY <1>b, <2>3 DEF Return, Enter, Goto
  <2>6. Link(t)'
    BY <2>1, <2>2, <2>3, <2>4, <2>5 DEF Link, WriteLabel, ClearLabel, ArchLabel
  <2>7. BlockProc(t)'  BY <1>f, <2>1, <2>5, <2>6 DEF BlockProc, BlockLabel
  <2>8. Matches'  BY <1>a, <2>3 DEF Matches
  <2> QED  BY <1>d, <1>e, <2>7, <2>8, BlockGoesOn
<1>5. CASE WriteArchBlockData(t)
  <2>1. /\ bc_arch_write(t, j.h, j.d) /\ job' = job /\ cpc'[t] = "block_written"
    BY <1>5, <1>b DEF WriteArchBlockData, Returned, Continue
  <2> DEFINE l == [NoLoc EXCEPT !.op = "arch_write", !.rec = NewRec(cnt, j.h, j.d)]
  <2>3. idx' = idx /\ (Return(t, "ERR_IO") \/ Enter(t, "aw_data", l))
    BY <2>1 DEF bc_arch_write, files
  <2>4. l.rec.hash = j.h /\ l.rec.crc = j.d  BY DEF NoLoc, NewRec
  <2> HIDE DEF l
  <2>5. \/ pc'[t] = "idle"
        \/ pc'[t] = "aw_data" /\ loc'[t] = l
    BY <1>b, <2>3 DEF Return, Enter, Goto
  <2>6. Link(t)'
    BY <2>1, <2>3, <2>4, <2>5 DEF Link, WriteLabel, ClearLabel, ArchLabel
  <2>7. BlockProc(t)'  BY <1>f, <2>1, <2>5, <2>6 DEF BlockProc, BlockLabel
  <2>8. Matches'  BY <1>a, <2>3 DEF Matches
  <2> QED  BY <1>d, <1>e, <2>7, <2>8, BlockGoesOn
<1> QED  BY <1>1, <1>2, <1>3, <1>4, <1>5

LEMMA BlockCalls ==
  ASSUME OneThread, StoreFacts, TypeInv', ClientInv, BlockInv, NEW t \in Thread,
         db = "block", ClientCall(t)
  PROVE  BlockInv'
<1>a. BlockProc(t) /\ Matches  BY DEF BlockInv
<1>b. /\ pc \in [Thread -> Label] /\ cpc \in [Thread -> ClientLabel]
      /\ job \in [Thread -> Job]
  BY DEF StoreFacts, TypeInv, TypeOK, ClientInv, ClientTypeOK
<1>c. TypeInv /\ Counted  BY DEF StoreFacts, StoreInv
<1>1. ASSUME NEW h \in Hash, WriteArchBlock(t, h) PROVE BlockInv'
  <2> DEFINE j == [NoJob EXCEPT !.h = h, !.d = BlockData[h]]
  <2>1. Call(t) /\ idx' = idx /\ pc'[t] = "idle"
    BY <1>1 DEF WriteArchBlock, Call, bc_find
  <2>2. CASE Done(t, h, BlockData[h])
    <3>1. cpc'[t] = "none" /\ job'[t] = NoJob  BY <1>b, <2>2 DEF Done
    <3> QED  BY <2>1, <3>1, BlockIdle DEF BlockLabel
  <2>3. CASE Begin(t, "block_arch", j)
    <3>1. cpc'[t] = "block_arch" /\ job'[t] = j  BY <1>b, <2>3 DEF Begin
    <3>2. j.d = BlockData[j.h]  BY DEF NoJob
    <3> HIDE DEF j
    <3> QED  BY <2>1, <3>1, <3>2, BlockIdle DEF BlockLabel
  <2> QED  BY <1>1, <2>2, <2>3 DEF WriteArchBlock
<1>2. ASSUME NEW h \in Hash, NEW p \in Pos, WriteBlock(t, p, h) PROVE BlockInv'
  <2> DEFINE j == [NoJob EXCEPT !.h = h, !.d = BlockData[h], !.pos = p]
             jo == [j EXCEPT !.old = idx[p].hash]
  <2>1. UNCHANGED vars /\ idx' = idx /\ pc'[t] = "idle"
    BY <1>2 DEF WriteBlock, vars, files, Idle
  <2>2. CASE Done(t, h, BlockData[h])
    <3>1. cpc'[t] = "none" /\ job'[t] = NoJob  BY <1>b, <2>2 DEF Done
    <3> QED  BY <2>1, <3>1, BlockIdle DEF BlockLabel
  <2>3. CASE OtherBlock(p, h) /\ Begin(t, "block_clear", jo)
    <3>1. cpc'[t] = "block_clear" /\ job'[t] = jo  BY <1>b, <2>3 DEF Begin
    <3>2. jo.d = BlockData[jo.h]  BY DEF NoJob
    <3> HIDE DEF jo
    <3> QED  BY <2>1, <3>1, <3>2, BlockIdle DEF BlockLabel
  <2>4. CASE ~SameBlock(p, h) /\ ~OtherBlock(p, h) /\ Begin(t, "block_write", j)
    <3>1. cpc'[t] = "block_write" /\ job'[t] = j  BY <1>b, <2>4 DEF Begin
    <3>2. j.d = BlockData[j.h] /\ j.pos = p  BY DEF NoJob
    <3>3. idx[p] = Blank  BY <1>c, <2>4 DEF SameBlock, OtherBlock, Live, Counted
    <3> HIDE DEF j
    <3> QED  BY <2>1, <3>1, <3>2, <3>3, BlockIdle DEF BlockLabel
  <2> QED  BY <1>2, <2>2, <2>3, <2>4 DEF WriteBlock
<1> QED  BY <1>1, <1>2 DEF ClientCall, WriteFind, EraseFind

(* What is on disk after a crash is what was there before.                 *)
LEMMA BlockCrash ==
  ASSUME StoreFacts, TypeInv', BlockInv, ClientCrash
  PROVE  BlockInv'
<1>1. [Next]_vars /\ idx' = idx /\ acked' = acked
  BY DEF ClientCrash, Crash, Next, files
<1>2. \A p \in acked' : Settled(p)'  BY <1>1, SettledStays
<1>3. \A t \in Thread : pc'[t] = "idle" /\ cpc'[t] = "none" /\ job'[t] = NoJob
  BY DEF ClientCrash, Crash
<1>4. \A t \in Thread : Link(t)'
  BY <1>3 DEF Link, WriteLabel, ClearLabel, ArchLabel
<1>5. \A t \in Thread : BlockProc(t)'  BY <1>3, <1>4 DEF BlockProc, BlockLabel
<1> QED  BY <1>1, <1>2, <1>5 DEF BlockInv, Matches

BlockOK == db = "block" => BlockInv

LEMMA BlockNext ==
  ASSUME OneThread, StoreFacts, TypeInv', ClientInv, BlockOK, [ClientNext]_allVars
  PROVE  BlockOK'
<1> SUFFICES ASSUME db' = "block" PROVE BlockInv'  BY DEF BlockOK
<1>1. db = "block" /\ BlockInv  BY SameDb DEF BlockOK
<1>2. CASE UNCHANGED allVars
  BY <1>1, <1>2 DEF allVars, vars, files, clientVars, BlockInv, Matches, Settled,
     Live, Secure, CrcOk, SlotCovers, BlockProc, Link
<1>3. ASSUME NEW t \in Thread, ClientStep(t) PROVE BlockInv'
  <2>1. BlockProc(t) /\ Link(t)  BY <1>1 DEF BlockInv, BlockProc
  <2>2. CASE Step(t) /\ UNCHANGED clientVars
    <3>1. pc[t] # "idle"
      BY <2>2 DEF Step, bc_idx_set, bc_idx_set_table, bc_write_data,
         bc_write_of, bc_rewrite, bc_write_undo, bc_write_undo_table,
         bc_arch_next, bc_arch_set, bc_clear_idx, bc_purge_next,
         bc_arch_write_data, bc_arch_write_of, bc_arch_write_add
    <3>2. \/ cpc[t] = "block_written" /\ pc[t] \in WriteLabel \cup ArchLabel
          \/ cpc[t] = "block_cleared" /\ pc[t] \in ClearLabel
      BY <2>1, <3>1 DEF BlockProc, BlockLabel, Link
    <3> QED
      BY <1>1, <2>2, <3>2, BlockWriteStep, BlockArchStep, BlockClearStep
  <2>3. CASE WriteGet(t) \/ WriteAppend(t) \/ WriteAt(t) \/ Written(t)
             \/ EraseClear(t) \/ Erased(t)
    BY <2>1, <2>3 DEF WriteGet, WriteAppend, WriteAt, Written, EraseClear,
       Erased, Returned, BlockProc, BlockLabel
  <2> QED  BY <1>1, <1>3, <2>2, <2>3, BlockProcedures DEF ClientStep
<1> QED  BY <1>1, <1>2, <1>3, BlockCalls, BlockCrash DEF ClientNext

LEMMA BlockCorrect == OneThread => (ClientSpec => []BlockOK)
<1> SUFFICES ASSUME OneThread PROVE ClientSpec => []BlockOK  OBVIOUS
<1>1. ClientInit => BlockOK
  <2> SUFFICES ASSUME ClientInit PROVE BlockInv  BY DEF BlockOK
  <2>1. /\ acked = {} /\ \A p \in Pos : idx[p] = Blank
        /\ \A t \in Thread : cpc[t] = "none" /\ pc[t] = "idle" /\ job[t] = NoJob
    BY DEF ClientInit, Init
  <2>2. \A t \in Thread : Link(t)
    BY <2>1 DEF Link, WriteLabel, ClearLabel, ArchLabel
  <2> QED  BY <2>1, <2>2 DEF BlockInv, Matches, BlockProc, BlockLabel
<1>2. StoreFacts /\ ClientInv /\ BlockOK /\ [ClientNext]_allVars
      /\ (StoreFacts /\ ClientInv)' => BlockOK'
  BY BlockNext DEF StoreFacts
<1> QED  BY <1>1, <1>2, ClientFacts, PTL DEF ClientSpec

(* The entry of a block names the block that its bytes are of, also after  *)
(* crashes: WriteBlock never rewrites an entry, since bc_rewrite would     *)
(* keep the hash of the old block.                                         *)
THEOREM BlocksMatch ==
  OneThread => (ClientSpec => [](db = "block" => HashMatchesData))
<1> SUFFICES ASSUME OneThread
             PROVE  ClientSpec => [](db = "block" => HashMatchesData)
  OBVIOUS
<1>1. BlockOK => (db = "block" => HashMatchesData)
  BY DEF BlockOK, BlockInv, Matches, HashMatchesData, Live
<1> QED  BY <1>1, BlockCorrect, PTL

(* A block that was stored can be read until it is cleared, however often  *)
(* the process is killed in the middle of storing others.                  *)
THEOREM BlocksReadable ==
  OneThread => (ClientSpec => [](db = "block" => AckedReadable))
<1> SUFFICES ASSUME OneThread
             PROVE  ClientSpec => [](db = "block" => AckedReadable)
  OBVIOUS
<1>1. BlockOK => (db = "block" => AckedReadable)
  BY DEF BlockOK, BlockInv, Settled, Secure, AckedReadable
<1> QED  BY <1>1, BlockCorrect, PTL

(* An entry that the table covers is found, or a later one of its hash.    *)
LEMMA CoveredFound ==
  ASSUME TypeOK, NEW p \in Pos, Live(p), SlotCovers(p)
  PROVE  bc_idx_find(idx[p].hash).pos >= p
<1> DEFINE h == idx[p].hash
           b == bc_table_hash[h]
           known == tab[b] # BC_TABLE_SEARCH_POS /\ tab[b] <= cnt - 1
           start == IF known THEN tab[b] ELSE cnt - 1
           match == {i \in 0 .. start : idx[i] # Blank /\ idx[i].hash = h}
<1>1. /\ p < cnt /\ idx[p] # Blank /\ h \in Hash /\ cnt \in 0 .. MaxPos
      /\ tab[b] \in Pos \cup {BC_TABLE_NULL_POS}
      /\ MaxPos \in Nat \ {0} /\ Pos = 0 .. MaxPos - 1
      /\ BC_TABLE_NULL_POS = MaxPos + 1 /\ BC_TABLE_SEARCH_POS = 0
  BY HashAssumption, BoundAssumption
  DEF TypeOK, Live, IdxRec, BC_TABLE_NULL_POS, BC_TABLE_SEARCH_POS, Pos
<1>2. tab[b] = BC_TABLE_SEARCH_POS \/ (tab[b] # BC_TABLE_NULL_POS /\ tab[b] >= p)
  BY DEF SlotCovers
<1>3. tab[b] # BC_TABLE_NULL_POS  BY <1>1, <1>2
<1>4. start \in Int /\ p <= start  BY <1>1, <1>2
<1>5. p \in match  BY <1>1, <1>4
<1>6. match \subseteq 0 .. start /\ match # {}  BY <1>5
<1>7. Max(match) >= p
  <2> HIDE DEF match, start
  <2> QED  BY <1>4, <1>5, <1>6, MaxInRange
<1>8. bc_idx_find(h).pos = Max(match)  BY <1>3, <1>6 DEF bc_idx_find
<1> QED  BY <1>7, <1>8

(* ... and it is found: the table of a bucket that a crash left behind     *)
(* hides at most the entry that was being stored.                          *)
THEOREM BlocksFindable ==
  OneThread => (ClientSpec => [](db = "block" => AckedFindable))
<1> SUFFICES ASSUME OneThread
             PROVE  ClientSpec => [](db = "block" => AckedFindable)
  OBVIOUS
<1>1. StoreFacts /\ ClientInv /\ BlockOK => (db = "block" => AckedFindable)
  BY CoveredFound
  DEF BlockOK, BlockInv, Settled, AckedFindable, StoreFacts, TypeInv, TypeOK
<1> QED  BY <1>1, ClientFacts, BlockCorrect, PTL

-----------------------------------------------------------------------------
(* Without a crash: a block that was stored is kept at its height or in    *)
(* the archive.                                                            *)

Safe(h) == \/ \E p \in acked : idx[p].hash = h
           \/ \E i \in DOMAIN arch : arch[i].hash = h /\ Secure(arch[i])

SafeProc(t) ==
  /\ cpc[t] = "block_written" /\ pc[t] = "idle" /\ ret[t] = "ok" => Safe(job[t].h)
  /\ pc[t] = "aw_of" => CrcOk(loc[t].rec)
  /\ pc[t] = "aw_arch" => Secure(loc[t].rec)

SafeInv ==
  /\ \A t \in Thread : SafeProc(t)
  /\ \A h \in Hash : want[h] = BlockData[h] => Safe(h)

(* The archive keeps what it has.                                          *)
LEMMA ArchKeeps ==
  ASSUME TypeOK, NEW rec \in IdxRec, arch' = arch \/ arch' = Append(arch, rec)
  PROVE  \A i \in DOMAIN arch : i \in DOMAIN arch' /\ arch'[i] = arch[i]
<1>1. arch \in Seq(IdxRec) /\ Len(arch) \in Nat /\ DOMAIN arch = 1 .. Len(arch)
  BY DEF TypeOK
<1>2. CASE arch' = Append(arch, rec)
  <2>1. DOMAIN arch' = 1 .. Len(arch) + 1  BY <1>1, <1>2
  <2>2. \A i \in 1 .. Len(arch) : arch'[i] = arch[i]  BY <1>1, <1>2
  <2> QED  BY <1>1, <2>1, <2>2
<1> QED  BY <1>2

LEMMA ArchStep ==
  ASSUME StoreFacts, NEW t \in Thread, Step(t)
  PROVE  \A i \in DOMAIN arch : i \in DOMAIN arch' /\ arch'[i] = arch[i]
<1>a. TypeOK /\ CallTyped(t) /\ Len(arch) \in Nat
  BY DEF StoreFacts, TypeInv, TypeOK
<1>1. CASE arch' = arch  BY <1>1
<1>2. CASE bc_arch_set(t) \/ bc_arch_write_add(t)
  <2>1. loc[t].rec \in IdxRec
    BY <1>a, <1>2 DEF bc_arch_set, bc_arch_write_add, CallTyped, ClearLabel, ArchLabel
  <2>2. arch' = arch \/ arch' = Append(arch, loc[t].rec)
    BY <1>a, <1>2 DEF bc_arch_set, bc_arch_write_add, ArchSet, ArchTaken
  <2> QED  BY <1>a, <2>1, <2>2, ArchKeeps
<1>3. CASE \/ bc_idx_set(t) \/ bc_idx_set_table(t) \/ bc_write_data(t)
           \/ bc_write_of(t) \/ bc_rewrite(t) \/ bc_write_undo(t)
           \/ bc_write_undo_table(t)
  BY <1>1, <1>3 DEF bc_idx_set, bc_idx_set_table, bc_write_data, bc_write_of,
     bc_rewrite, bc_write_undo, bc_write_undo_table, files
<1>4. CASE bc_arch_next(t) \/ bc_clear_idx(t) \/ bc_purge_next(t)
           \/ bc_arch_write_data(t) \/ bc_arch_write_of(t)
  BY <1>1, <1>4 DEF bc_arch_next, bc_clear_idx, bc_purge_next,
     bc_arch_write_data, bc_arch_write_of, files
<1> QED  BY <1>2, <1>3, <1>4 DEF Step

(* A block that is kept stays kept: what is cleared is in the archive.     *)
LEMMA SafeStays ==
  ASSUME OneThread, StoreFacts, TypeInv', BlockInv, NEW t \in Thread,
         \/ Step(t)
         \/ Call(t) /\ UNCHANGED <<idx, acked>>
         \/ UNCHANGED vars,
         NEW h, Safe(h)
  PROVE  Safe(h)'
<1>a. [Next]_vars  BY DEF Next
<1>b. \A i \in DOMAIN arch : i \in DOMAIN arch' /\ arch'[i] = arch[i]
  BY ArchStep, CallFiles DEF vars, files
<1>c. /\ idx \in [Pos -> IdxRec \cup {Blank}] /\ acked \subseteq Pos /\ CallTyped(t)
      /\ BlockProc(t) /\ Link(t)
  BY DEF StoreFacts, TypeInv, TypeOK, BlockInv, BlockProc
<1>1. ASSUME NEW i \in DOMAIN arch, arch[i].hash = h, Secure(arch[i])
      PROVE  Safe(h)'
  <2>1. arch'[i].hash = h  BY <1>1, <1>b
  <2>2. PICK r \in IdxRec : r = arch[i]
    BY DEF StoreFacts, TypeInv, TypeOK
  <2>3. Secure(r)'  BY <1>1, <1>a, <2>2, SecureStays DEF BlockInv
  <2>4. i \in DOMAIN arch' /\ arch'[i] = r  BY <1>b, <2>2
  <2>5. Secure(arch[i])'  BY <2>3, <2>4 DEF Secure, CrcOk
  <2> QED  BY <2>1, <2>4, <2>5 DEF Safe
<1>2. ASSUME NEW p \in acked, idx[p].hash = h PROVE Safe(h)'
  <2>1. p \in Pos /\ Settled(p) /\ idx[p] # Blank
    BY <1>c DEF BlockInv, Settled, Live
  <2>2. CASE p \in acked' /\ idx'[p] = idx[p]  BY <1>2, <2>2 DEF Safe
  <2>3. CASE bc_clear_idx(t) /\ ~(p \in acked' /\ idx'[p] = idx[p])
    <3>1. pc[t] = "clear_idx" /\ loc[t].pos \in Pos
      BY <2>3, <1>c DEF bc_clear_idx, CallTyped, ClearLabel
    <3>2. p = loc[t].pos
      BY <1>c, <2>1, <2>3, <3>1 DEF bc_clear_idx
    <3>3. PICK i \in DOMAIN arch : arch[i] = idx[p]
      BY <3>1, <3>2 DEF StoreFacts, CallInv, ClearInv, ClearLabel, Undisturbed, OneThread
    <3> QED  BY <1>1, <1>2, <2>1, <3>3 DEF Settled
  <2>4. CASE bc_idx_set(t) /\ ~(p \in acked' /\ idx'[p] = idx[p])
    <3>1. loc[t].pos \in Pos /\ p = loc[t].pos /\ pc[t] = "idx_set"
      BY <1>c, <2>1, <2>4 DEF bc_idx_set, files
    <3> QED  BY <1>c, <2>1, <3>1 DEF Link
  <2>5. CASE bc_write_undo(t) \/ bc_write_of(t)
    <3>1. acked \subseteq acked'  BY <2>5 DEF bc_write_undo, bc_write_of
    <3>2. Step(t)  BY <2>5 DEF Step
    <3> QED  BY <2>2, <3>1, <3>2, AckedStep
  <2>6. ~bc_rewrite(t)
    BY <1>c DEF bc_rewrite, BlockProc, BlockLabel, Link, WriteLabel, ClearLabel, ArchLabel
  <2>7. CASE \/ bc_idx_set_table(t) \/ bc_write_data(t) \/ bc_write_undo_table(t)
             \/ bc_arch_next(t) \/ bc_arch_set(t) \/ bc_purge_next(t)
    BY <2>2, <2>7 DEF bc_idx_set_table, bc_write_data, bc_write_undo_table,
       bc_arch_next, bc_arch_set, bc_purge_next, files
  <2>8. CASE bc_arch_write_data(t) \/ bc_arch_write_of(t) \/ bc_arch_write_add(t)
    BY <2>2, <2>8 DEF bc_arch_write_data, bc_arch_write_of, bc_arch_write_add
  <2>9. CASE UNCHANGED <<idx, acked>>  BY <2>2, <2>9
  <2>10. UNCHANGED vars => UNCHANGED <<idx, acked>>  BY DEF vars, files
  <2> QED
    BY <2>2, <2>3, <2>4, <2>5, <2>6, <2>7, <2>8, <2>9, <2>10 DEF Step
<1> QED  BY <1>1, <1>2 DEF Safe

(* What is wanted after a step of thread t is kept.                        *)
LEMMA SafeGoesOn ==
  ASSUME OneThread, StoreFacts, TypeInv', BlockInv, SafeInv, NEW t \in Thread,
         \/ Step(t)
         \/ Call(t) /\ UNCHANGED <<idx, acked>>
         \/ UNCHANGED vars,
         \A h \in Hash : want'[h] = want[h] \/ Safe(h), SafeProc(t)'
  PROVE  SafeInv'
<1>1. ASSUME NEW h \in Hash, want'[h] = BlockData[h] PROVE Safe(h)'
  <2>1. Safe(h)  BY <1>1 DEF SafeInv
  <2> QED  BY <2>1, SafeStays
<1> QED  BY <1>1 DEF SafeInv, OneThread

LEMMA SafeWriteStep ==
  ASSUME OneThread, StoreFacts, TypeInv', BlockInv, SafeInv, NEW t \in Thread,
         Step(t), UNCHANGED clientVars
  PROVE  SafeInv'
<1> DEFINE rec == loc[t].rec
<1>a. SafeProc(t) /\ BlockProc(t) /\ Link(t) /\ CallTyped(t) /\ Holding(t)
  BY DEF SafeInv, BlockInv, BlockProc, StoreFacts, TypeInv, StoreInv
<1>b. /\ pc \in [Thread -> Label] /\ ret \in [Thread -> Result] /\ TypeOK
      /\ of \in [Journal -> 0 .. MaxOf] /\ MaxOf \in Nat
  BY BoundAssumption DEF StoreFacts, TypeInv, TypeOK
<1>c. cpc' = cpc /\ job' = job /\ want' = want  BY DEF clientVars
<1>d. ASSUME SafeProc(t)' PROVE SafeInv'  BY <1>c, <1>d, SafeGoesOn
<1>e. \A e : Return(t, e) => pc'[t] = "idle" /\ ret'[t] = e
  BY <1>b DEF Return, Goto
<1>f. \A l : Goto(t, l) => pc'[t] = l  BY <1>b DEF Goto
<1>1. CASE bc_write_of(t)
  <2>1. /\ pc[t] = "append_of" /\ Return(t, "ok") /\ idx' = idx
        /\ acked' = acked \cup {loc[t].pos}
    BY <1>1 DEF bc_write_of
  <2>2. idx[loc[t].pos] = rec /\ rec.hash = job[t].h
    BY <1>a, <2>1 DEF Holding, StoreLabel, Link, WriteLabel
  <2>3. PICK p \in acked' : p = loc[t].pos  BY <2>1
  <2>4. idx'[p].hash = job'[t].h  BY <1>c, <2>1, <2>2, <2>3
  <2>5. Safe(job[t].h)'  BY <2>3, <2>4 DEF Safe
  <2>6. SafeProc(t)'  BY <1>e, <2>1, <2>5 DEF SafeProc
  <2> QED  BY <1>d, <2>6
<1>2. CASE bc_arch_write_data(t)
  <2>1. CASE Goto(t, "aw_of") /\ loc' = loc
    <3>1. /\ pc[t] = "aw_data" /\ Fits(rec)
          /\ cell' = [cell EXCEPT ![rec.jrnl] = Stored(@, rec.of, rec.crc)]
      BY <1>2, <1>b, <2>1 DEF bc_arch_write_data, Return, Goto
    <3>2. PICK r \in IdxRec : r = rec  BY <1>a, <3>1 DEF CallTyped, ArchLabel
    <3>3. r.size = Size[r.crc] /\ TypeInv
      BY <1>a, <3>1, <3>2 DEF CallTyped, ArchLabel, StoreFacts
    <3>4. CrcOk(r)'  BY <3>1, <3>2, <3>3, CopyReads
    <3>5. CrcOk(loc[t].rec)'  BY <2>1, <3>2, <3>4 DEF CrcOk
    <3>6. SafeProc(t)'  BY <1>f, <2>1, <3>5 DEF SafeProc
    <3> QED  BY <1>d, <3>6
  <2>2. CASE Return(t, "ERR_IO")
    <3>1. SafeProc(t)'  BY <1>e, <2>2 DEF SafeProc
    <3> QED  BY <1>d, <3>1
  <2> QED  BY <1>2, <2>1, <2>2 DEF bc_arch_write_data
<1>3. CASE bc_arch_write_of(t)
  <2>1. /\ pc[t] = "aw_of" /\ Goto(t, "aw_arch") /\ loc' = loc /\ cell' = cell
        /\ of' = [of EXCEPT ![rec.jrnl] = Max({@, rec.of + rec.size})]
    BY <1>3 DEF bc_arch_write_of
  <2>2. CrcOk(rec) /\ rec \in IdxRec
    BY <1>a, <2>1 DEF SafeProc, CallTyped, ArchLabel
  <2>3. rec.jrnl \in Journal /\ of[rec.jrnl] \in Int /\ rec.of + rec.size \in Int
    BY <1>b, <2>2 DEF IdxRec
  <2>4. Max({of[rec.jrnl], rec.of + rec.size}) >= rec.of + rec.size
    BY <2>3, MaxPair
  <2>5. rec.of + rec.size <= of'[rec.jrnl]  BY <1>b, <2>1, <2>3, <2>4
  <2>6. Secure(loc[t].rec)'  BY <2>1, <2>2, <2>5 DEF Secure, CrcOk
  <2>7. SafeProc(t)'  BY <1>f, <2>1, <2>6 DEF SafeProc
  <2> QED  BY <1>d, <2>7
<1>4. CASE bc_arch_write_add(t)
  <2>1. pc[t] = "aw_arch"  BY <1>4 DEF bc_arch_write_add
  <2>2. CASE Return(t, "ERR_IO")
    <3>1. SafeProc(t)'  BY <1>e, <2>2 DEF SafeProc
    <3> QED  BY <1>d, <3>1
  <2>3. CASE Return(t, "ok") /\ arch' = ArchSet(Len(arch), rec)
    <3>1. rec \in IdxRec /\ Secure(rec) /\ rec.hash = job[t].h
      BY <1>a, <2>1 DEF SafeProc, CallTyped, ArchLabel, Link
    <3>2. arch' = Append(arch, rec)
      BY <1>b, <2>3 DEF ArchSet, TypeOK
    <3>3. PICK i \in DOMAIN arch' : arch'[i] = rec  BY <1>b, <3>1, <3>2, ArchHas
    <3>4. cell' = cell /\ of' = of  BY <1>4 DEF bc_arch_write_add
    <3>5. Secure(arch[i])' /\ arch'[i].hash = job'[t].h
      BY <1>c, <3>1, <3>3, <3>4 DEF Secure, CrcOk
    <3>6. Safe(job[t].h)'  BY <3>3, <3>5 DEF Safe
    <3>7. SafeProc(t)'  BY <1>e, <2>3, <3>6 DEF SafeProc
    <3> QED  BY <1>d, <3>7
  <2> QED  BY <1>4, <2>2, <2>3 DEF bc_arch_write_add
<1>5. ASSUME pc'[t] \notin {"aw_of", "aw_arch"},
             cpc[t] = "block_written" /\ pc'[t] = "idle" => ret'[t] # "ok"
      PROVE  SafeInv'
  <2>1. SafeProc(t)'  BY <1>c, <1>5 DEF SafeProc
  <2> QED  BY <1>d, <2>1
<1>6. CASE \/ bc_idx_set(t) \/ bc_idx_set_table(t) \/ bc_write_data(t)
           \/ bc_rewrite(t) \/ bc_write_undo(t) \/ bc_write_undo_table(t)
  <2>1. \/ \E l \in {"table_reset", "append", "append_of", "undo_idx", "undo_tab"} :
             Goto(t, l)
        \/ Return(t, "ERR_IO")
    BY <1>6 DEF bc_idx_set, bc_idx_set_table, bc_write_data, bc_rewrite,
       bc_write_undo, bc_write_undo_table
  <2> QED  BY <1>5, <1>e, <1>f, <2>1
<1>7. CASE bc_arch_next(t) \/ bc_arch_set(t) \/ bc_clear_idx(t) \/ bc_purge_next(t)
  <2>1. cpc[t] # "block_written"
    BY <1>7, <1>a DEF bc_arch_next, bc_arch_set, bc_clear_idx, bc_purge_next,
       Link, WriteLabel, ClearLabel, ArchLabel
  <2>2. pc'[t] \notin {"aw_of", "aw_arch"}
    BY <1>7, <1>b, <1>e, <1>f DEF bc_arch_next, bc_arch_set, bc_clear_idx,
       bc_purge_next, ClearFails
  <2> QED  BY <1>5, <2>1, <2>2
<1> QED  BY <1>1, <1>2, <1>3, <1>4, <1>6, <1>7 DEF Step

(* With the mutex free, every entry is one that was acknowledged.          *)
LEMMA EntrySafe ==
  ASSUME OneThread, StoreFacts, crashes = 0, NEW t \in Thread, pc[t] = "idle",
         NEW p \in Pos, idx[p] # Blank
  PROVE  Safe(idx[p].hash)
<1>1. lock = NoThread  BY AloneUnlocked
<1>2. ~Unfinished(p)  BY <1>1, NoThreadAssumption DEF Unfinished
<1>3. p \in acked  BY <1>2 DEF StoreFacts, LiveAcked
<1> QED  BY <1>3 DEF Safe

LEMMA SafeProcedures ==
  ASSUME OneThread, StoreFacts, TypeInv', ClientInv, BlockInv, SafeInv,
         NEW t \in Thread,
         \/ WriteBlockClear(t) \/ WriteBlockCleared(t) \/ WriteBlockData(t)
         \/ WriteBlockWritten(t) \/ WriteArchBlockData(t)
  PROVE  SafeInv'
<1> DEFINE j == job[t]
<1>a. SafeProc(t) /\ BlockProc(t)  BY DEF SafeInv, BlockInv
<1>b. /\ pc \in [Thread -> Label] /\ ret \in [Thread -> Result]
      /\ cpc \in [Thread -> ClientLabel]
      /\ want \in [Hash -> Data \cup {Blank, Unknown}]
  BY DEF StoreFacts, TypeInv, TypeOK, ClientInv, ClientTypeOK
<1>c. /\ pc[t] = "idle"
      /\ cpc[t] \in {"block_clear", "block_cleared", "block_write",
                     "block_written", "block_arch"}
  BY DEF WriteBlockClear, WriteBlockCleared, WriteBlockData, WriteBlockWritten,
     WriteArchBlockData, Returned
<1>d. Call(t) \/ UNCHANGED vars
  <2>1. TypeInv  BY DEF StoreFacts
  <2>2. ~Step(t)
    BY <1>c DEF Step, bc_idx_set, bc_idx_set_table, bc_write_data, bc_write_of,
       bc_rewrite, bc_write_undo, bc_write_undo_table, bc_arch_next,
       bc_arch_set, bc_clear_idx, bc_purge_next, bc_arch_write_data,
       bc_arch_write_of, bc_arch_write_add
  <2> QED  BY <2>1, <2>2, ClientRefines DEF ClientStep
<1>e. idx' = idx /\ acked' = acked
  BY DEF WriteBlockClear, WriteBlockCleared, WriteBlockData, WriteBlockWritten,
     WriteArchBlockData, bc_clear, bc_table_reset, bc_write, bc_arch_write,
     vars, files
<1>f. j.h \in Hash  BY <1>c DEF ClientInv, JobTyped
<1>g. ASSUME \A h \in Hash : want'[h] = want[h] \/ Safe(h),
             pc'[t] \notin {"aw_of", "aw_arch"},
             cpc'[t] = "block_written" /\ pc'[t] = "idle" => ret'[t] # "ok"
      PROVE  SafeInv'
  <2>1. SafeProc(t)'  BY <1>g DEF SafeProc
  <2> QED  BY <1>d, <1>e, <1>g, <2>1, SafeGoesOn
<1>1. CASE WriteBlockClear(t)
  <2>1. /\ want' = want /\ cpc'[t] = "block_cleared"
        /\ pc'[t] \notin {"aw_of", "aw_arch"}
    BY <1>1, <1>b DEF WriteBlockClear, Continue, bc_clear, Return, Goto
  <2> QED  BY <1>g, <2>1
<1>2. CASE WriteBlockCleared(t)
  <2>1. /\ \A h \in Hash : want'[h] = want[h]
        /\ cpc'[t] # "block_written" /\ pc'[t] = "idle"
    BY <1>2, <1>b, <1>c, <1>f
    DEF WriteBlockCleared, Continue, Done, bc_table_reset, vars
  <2> QED  BY <1>g, <2>1
<1>3. CASE WriteBlockData(t) \/ WriteArchBlockData(t)
  <2>1. want' = want  BY <1>3 DEF WriteBlockData, WriteArchBlockData, Continue
  <2>2. ASSUME NEW l, NEW m, Enter(t, l, m) PROVE pc'[t] = l
    BY <2>2, <1>b DEF Enter, Goto
  <2>3. ASSUME NEW e, Return(t, e) PROVE pc'[t] = "idle" /\ ret'[t] = e
    BY <2>3, <1>b DEF Return, Goto
  <2>4. pc'[t] \notin {"aw_of", "aw_arch"} /\ (pc'[t] = "idle" => ret'[t] # "ok")
    BY <1>3, <2>2, <2>3
    DEF WriteBlockData, WriteArchBlockData, bc_write, bc_arch_write
  <2> QED  BY <1>g, <2>1, <2>4
<1>4. CASE WriteBlockWritten(t)
  <2>1. cpc[t] = "block_written"  BY <1>4 DEF WriteBlockWritten, Returned
  <2>2. ret[t] = "ok" => Safe(j.h)  BY <1>a, <1>c, <2>1 DEF SafeProc
  <2>3. /\ \A h \in Hash : h # j.h => want'[h] = want[h]
        /\ ret[t] # "ok" => want'[j.h] = want[j.h]
        /\ cpc'[t] = "none" /\ pc'[t] = "idle"
    BY <1>4, <1>b, <1>c, <1>f DEF WriteBlockWritten, Done, vars
  <2>4. \A h \in Hash : want'[h] = want[h] \/ Safe(h)  BY <2>2, <2>3
  <2> QED  BY <1>g, <2>3, <2>4
<1> QED  BY <1>1, <1>2, <1>3, <1>4

LEMMA SafeCalls ==
  ASSUME OneThread, StoreFacts, TypeInv', ClientInv, BlockInv, SafeInv,
         crashes = 0, NEW t \in Thread, db = "block", ClientCall(t)
  PROVE  SafeInv'
<1>b. /\ pc \in [Thread -> Label] /\ cpc \in [Thread -> ClientLabel]
      /\ want \in [Hash -> Data \cup {Blank, Unknown}] /\ TypeOK
  BY DEF StoreFacts, TypeInv, TypeOK, ClientInv, ClientTypeOK
<1>c. ASSUME NEW h \in Hash,
             (Call(t) /\ UNCHANGED <<idx, acked>>) \/ UNCHANGED vars, pc'[t] = "idle",
             \/ Done(t, h, BlockData[h]) /\ Safe(h)
             \/ \E l, j : Begin(t, l, j) /\ l # "block_written"
      PROVE  SafeInv'
  <2>1. \A g \in Hash : want'[g] = want[g] \/ Safe(g)
    BY <1>b, <1>c DEF Done, Begin
  <2>2. cpc'[t] # "block_written"  BY <1>b, <1>c DEF Done, Begin
  <2>3. SafeProc(t)'  BY <1>c, <2>2 DEF SafeProc
  <2> QED  BY <1>c, <2>1, <2>3, SafeGoesOn
<1>1. ASSUME NEW h \in Hash, WriteArchBlock(t, h) PROVE SafeInv'
  <2>1. Call(t) /\ UNCHANGED <<idx, acked>> /\ pc'[t] = "idle" /\ pc[t] = "idle"
    BY <1>1 DEF WriteArchBlock, Call, bc_find
  <2>2. Found(h) # -1 => Safe(h)
    BY <1>b, <2>1, FoundTyped, EntrySafe
  <2> QED  BY <1>1, <1>c, <2>1, <2>2 DEF WriteArchBlock
<1>2. ASSUME NEW h \in Hash, NEW p \in Pos, WriteBlock(t, p, h) PROVE SafeInv'
  <2>1. UNCHANGED vars /\ pc'[t] = "idle" /\ pc[t] = "idle"
    BY <1>2 DEF WriteBlock, vars, Idle
  <2>2. SameBlock(p, h) => Safe(h)  BY <2>1, EntrySafe DEF SameBlock, Live
  <2> QED  BY <1>2, <1>c, <2>1, <2>2 DEF WriteBlock
<1> QED  BY <1>1, <1>2 DEF ClientCall, WriteFind, EraseFind

SafeOK == crashes = 0 /\ db = "block" => SafeInv

LEMMA SafeNext ==
  ASSUME OneThread, StoreFacts, StoreFacts', ClientInv, BlockOK, SafeOK,
         [ClientNext]_allVars
  PROVE  SafeOK'
<1> SUFFICES ASSUME crashes' = 0, db' = "block" PROVE SafeInv'  BY DEF SafeOK
<1>a. TypeInv /\ TypeInv'  BY DEF StoreFacts
<1>1. crashes = 0 /\ ~ClientCrash /\ db = "block"
  BY <1>a, CrashCount, SameDb
<1>2. BlockInv /\ SafeInv  BY <1>1 DEF BlockOK, SafeOK
<1>3. CASE UNCHANGED allVars
  <2>1. UNCHANGED <<idx, arch, cell, of, pc, loc, ret, acked, cpc, job, want>>
    BY <1>3 DEF allVars, vars, files, clientVars
  <2>2. ASSUME NEW h PROVE Safe(h)' <=> Safe(h)
    BY <2>1 DEF Safe, Secure, CrcOk
  <2>3. ASSUME NEW t \in Thread PROVE SafeProc(t)'
    <3>1. SafeProc(t)  BY <1>2 DEF SafeInv
    <3>2. (CrcOk(loc[t].rec) => CrcOk(loc[t].rec)')
          /\ (Secure(loc[t].rec) => Secure(loc[t].rec)')
      BY <2>1 DEF Secure, CrcOk
    <3>3. Safe(job[t].h) => Safe(job[t].h)'  BY <2>1 DEF Safe, Secure, CrcOk
    <3> QED  BY <2>1, <3>1, <3>2, <3>3 DEF SafeProc
  <2> QED  BY <1>2, <2>1, <2>2, <2>3 DEF SafeInv
<1>4. ASSUME NEW t \in Thread, ClientStep(t) PROVE SafeInv'
  <2>1. BlockProc(t)  BY <1>2 DEF BlockInv
  <2>2. CASE WriteGet(t) \/ WriteAppend(t) \/ WriteAt(t) \/ Written(t)
             \/ EraseClear(t) \/ Erased(t)
    BY <2>1, <2>2 DEF WriteGet, WriteAppend, WriteAt, Written, EraseClear,
       Erased, Returned, BlockProc, BlockLabel
  <2> QED
    BY <1>2, <1>4, <1>a, <2>2, SafeWriteStep, SafeProcedures DEF ClientStep
<1>5. ASSUME NEW t \in Thread, ClientCall(t) PROVE SafeInv'
  BY <1>1, <1>2, <1>5, <1>a, SafeCalls
<1> QED  BY <1>1, <1>3, <1>4, <1>5 DEF ClientNext

(* A block that was reported as stored can be read from its height or from *)
(* the archive: also one that another block has replaced at its height,    *)
(* and when files or the archive are full or cannot be enlarged.           *)
THEOREM BlocksRetrievable ==
  OneThread => (ClientSpec => [](db = "block" => BlockRetrievable))
<1> SUFFICES ASSUME OneThread
             PROVE  ClientSpec => [](db = "block" => BlockRetrievable)
  OBVIOUS
<1>1. ClientInit => SafeOK
  <2> SUFFICES ASSUME ClientInit PROVE SafeInv  BY DEF SafeOK
  <2>1. /\ \A h \in Hash : want[h] = Blank
        /\ \A t \in Thread : cpc[t] = "none" /\ pc[t] = "idle"
    BY DEF ClientInit, Init
  <2>2. \A h \in Hash : BlockData[h] # Blank  BY ClientAssumption
  <2> QED  BY <2>1, <2>2 DEF SafeInv, SafeProc
<1>2. StoreFacts /\ ClientInv /\ BlockOK /\ SafeOK /\ [ClientNext]_allVars
      /\ (StoreFacts /\ ClientInv)' => SafeOK'
  BY SafeNext
<1>3. StoreFacts /\ ClientInv /\ BlockOK /\ SafeOK
        => (db = "block" => BlockRetrievable)
  <2> SUFFICES ASSUME StoreFacts, BlockOK, SafeOK, db = "block", crashes = 0,
                      NEW h \in Hash, want[h] = BlockData[h]
               PROVE  \/ \E p \in Pos : Live(p) /\ idx[p].hash = h /\ CrcOk(idx[p])
                      \/ \E i \in DOMAIN arch : arch[i].hash = h /\ CrcOk(arch[i])
    BY DEF BlockRetrievable, BlockStored
  <2>1. Safe(h)  BY DEF SafeOK, SafeInv
  <2>2. acked \subseteq Pos  BY DEF StoreFacts, TypeInv, TypeOK
  <2> QED
    BY <2>1, <2>2 DEF Safe, BlockOK, BlockInv, Settled, Secure
<1> QED  BY <1>1, <1>2, <1>3, ClientFacts, BlockCorrect, PTL DEF ClientSpec
=============================================================================
