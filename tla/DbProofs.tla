------------------------------ MODULE DbProofs ------------------------------
(***************************************************************************)
(* Proofs about the database library, for any number of processes, keys,   *)
(* hash chains, records and calls.  First types, locks and who may write   *)
(* what, for a process killed anywhere.  Then the hash chains and the free *)
(* list: they stay disjoint, end, hold whole records and lose none, as long*)
(* as no process is killed between the first and the last write of a       *)
(* deletion (the run db_killed shows what such a kill does).               *)
(***************************************************************************)
EXTENDS Db, TLAPS, FiniteSetTheorems, NaturalsInduction, WellFoundedInduction

-----------------------------------------------------------------------------
(* Arithmetic of the offsets.                                              *)

\* The hash table and the index file have room for at least one entry.
LEMMA Sizes == NHASH \in Nat /\ NHASH > 0 /\ MaxRecs \in Nat /\ MaxRecs > 0
BY DbAssumption

\* Records lie behind the hash table, the end of file is never beyond the bound,
\* and the bytes that lock the free list and the appends are different ones.
LEMMA Offsets ==
  /\ REC_OFF \in Nat /\ REC_OFF >= 2
  /\ Recs \subseteq Cells /\ 0 \in Cells /\ 0 \notin Recs
  /\ \A r \in Recs : r \in Nat /\ r + 1 \in 0 .. (REC_OFF + MaxRecs)
  /\ FREE_OFF \in LockBytes /\ REC_OFF \in LockBytes /\ FREE_OFF # REC_OFF
  /\ 0 \in Slots
BY Sizes DEF REC_OFF, HASH_OFF, FREE_OFF, Recs, Cells, Slots, LockBytes

\* The chain that _db_find_and_lock computes from a key is a cell of the hash
\* table, and its first byte is one that can be locked.
LEMMA ChainOff ==
  ASSUME NEW p \in Procs, call[p].key \in Keys
  PROVE  /\ chainoff(p) \in Cells /\ chainoff(p) \in LockBytes
         /\ chainoff(p) # FREE_OFF /\ chainoff(p) # REC_OFF
<1>1. Hash[call[p].key] \in 0 .. (NHASH - 1)
  BY DbAssumption
<1> QED BY <1>1, Sizes
        DEF chainoff, REC_OFF, HASH_OFF, FREE_OFF, Cells, LockBytes

\* The handle that db_open leaves behind is a well-formed one.
LEMMA NullHandleType == NullHandle \in Handle
BY Offsets DEF NullHandle, Handle, Ptrs

\* The state after db_open and the preloaded stores is well typed.
LEMMA InitTypeOK == Init => TypeOK
<1> SUFFICES ASSUME Init PROVE TypeOK
  OBVIOUS
<1>1. \A i \in 1 .. NPre : PreKey(i) \in Keys /\ PreVal(i) \in Vals
  BY DbAssumption DEF NPre, PreKey, PreVal
<1>2. NPre \in Nat /\ NPre <= MaxRecs
  BY DbAssumption DEF NPre
<1>3. \A c, n : n \in 0 .. NPre => LastOn(c, n) \in Ptrs
  <2> SUFFICES ASSUME NEW c, NEW n \in 0 .. NPre PROVE LastOn(c, n) \in Ptrs
    OBVIOUS
  <2> DEFINE S == {i \in 1 .. n : Hash[PreKey(i)] = c}
             IsLast(i) == \A j \in S : j <= i
  <2>1. CASE \E i \in S : IsLast(i)
    <3> DEFINE m == CHOOSE i \in S : IsLast(i)
    <3>1. m \in 1 .. n
      BY <2>1
    <3>2. LastOn(c, n) = REC_OFF + m - 1
      BY <2>1 DEF LastOn
    <3> HIDE DEF m
    <3> QED BY <3>1, <3>2, <1>2, Offsets, Sizes DEF Recs, Ptrs
  <2>2. CASE ~ \E i \in S : IsLast(i)
    BY <2>2 DEF LastOn, Ptrs
  <2> QED BY <2>1, <2>2
<1>4. \A r \in Recs : PreIndex(r) \in 1 .. MaxRecs
  BY Sizes DEF PreIndex, Recs, REC_OFF, HASH_OFF
<1>5. ptr \in [Cells -> Ptrs]
  <2> SUFFICES ASSUME NEW o \in Cells
               PROVE  (IF o = FREE_OFF THEN 0
                       ELSE IF o < REC_OFF THEN LastOn(o - HASH_OFF, NPre)
                       ELSE IF PreIndex(o) <= NPre
                            THEN LastOn(Hash[PreKey(PreIndex(o))], PreIndex(o) - 1)
                            ELSE 0) \in Ptrs
    BY DEF Init
  <2>1. CASE o # FREE_OFF /\ o >= REC_OFF /\ PreIndex(o) <= NPre
    <3>1. o \in Recs
      BY <2>1, Offsets, Sizes DEF Cells, Recs
    <3>2. PreIndex(o) - 1 \in 0 .. NPre
      BY <3>1, <2>1, <1>4, <1>2
    <3> QED BY <3>2, <2>1, <1>3, Offsets DEF Cells
  <2>2. NPre \in 0 .. NPre
    BY <1>2
  <2> QED BY <2>1, <2>2, <1>3, Offsets DEF Ptrs, Cells
<1>6. rec \in [Recs -> RecType]
  <2> SUFFICES ASSUME NEW r \in Recs PROVE rec[r] \in RecType
    BY DEF Init
  <2>1. CASE PreIndex(r) <= NPre
    <3>1. PreIndex(r) \in 1 .. NPre
      BY <2>1, <1>4, <1>2
    <3>2. PreIndex(r) - 1 \in Slots
      BY <1>4, Sizes DEF Slots
    <3> QED BY <3>1, <3>2, <2>1, <1>1, DbAssumption DEF Init, RecType
  <2>2. CASE ~(PreIndex(r) <= NPre)
    BY <2>2, Offsets DEF Init, RecType, EmptyRec
  <2> QED BY <2>1, <2>2
<1>7. dat \in [Slots -> DatType]
  <2> SUFFICES ASSUME NEW d \in Slots PROVE dat[d] \in DatType
    BY DEF Init
  <2>1. CASE d < NPre
    <3>1. d + 1 \in 1 .. NPre
      BY <2>1, <1>2 DEF Slots
    <3> QED BY <3>1, <2>1, <1>1, DbAssumption DEF Init, DatType
  <2>2. CASE ~(d < NPre)
    BY <2>2 DEF Init, DatType
  <2> QED BY <2>1, <2>2
<1>8. idxend \in REC_OFF .. (REC_OFF + MaxRecs) /\ datend \in 0 .. MaxRecs
  BY <1>2, Offsets, Sizes DEF Init
<1>9. /\ pc \in [Procs -> PCs] /\ call \in [Procs -> AllCalls]
      /\ left \in [Procs -> Nat] /\ ret \in [Procs -> Results]
  BY DbAssumption DEF Init, PCs, AllCalls, NoCall, Flags, Results, Result, NoResult
<1>10. h \in [Procs -> Handle] /\ fdpos \in [Procs -> 0 .. (REC_OFF + MaxRecs)]
  BY NullHandleType, Offsets, Sizes DEF Init
<1>11. /\ lockR \in [LockBytes -> SUBSET Procs]
       /\ lockW \in [LockBytes -> Procs \cup {Nobody}]
       /\ datlock \in Procs \cup {Nobody}
  BY DEF Init
<1>12. \A p \in Procs : CallFits(p)
  BY DEF Init, CallFits, InChain, DelWindow, FreeWindow, Reusing, Appending
<1> QED BY <1>5, <1>6, <1>7, <1>8, <1>9, <1>10, <1>11, <1>12 DEF TypeOK

-----------------------------------------------------------------------------
(* Every step preserves the types.                                         *)

\* When only p moves and no call changes, the other calls fit as before.
LEMMA CallFitsFrame ==
  ASSUME TypeOK, NEW p \in Procs, call' = call,
         \A q \in Procs \ {p} : pc'[q] = pc[q], CallFits(p)'
  PROVE  \A q \in Procs : CallFits(q)'
BY DEF TypeOK, CallFits

\* Moving one process to another control point keeps pc a function of its type.
LEMMA GotoType ==
  ASSUME TypeOK, NEW p \in Procs, NEW from, NEW to \in PCs, Goto(p, from, to)
  PROVE  /\ pc' \in [Procs -> PCs] /\ pc[p] = from /\ pc'[p] = to
         /\ \A q \in Procs \ {p} : pc'[q] = pc[q]
BY DEF TypeOK, Goto

\* The readw_lock, writew_lock and un_lock calls keep the lock tables typed.
LEMMA LockTypes ==
  ASSUME TypeOK, NEW p \in Procs, NEW o \in LockBytes,
         \/ readw_lock(p, o) \/ writew_lock(p, o) \/ un_lock(p, o)
         \/ writew_lock_dat(p) \/ un_lock_dat(p) \/ UNCHANGED locks
  PROVE  /\ lockR' \in [LockBytes -> SUBSET Procs]
         /\ lockW' \in [LockBytes -> Procs \cup {Nobody}]
         /\ datlock' \in Procs \cup {Nobody}
BY DEF TypeOK, readw_lock, writew_lock, un_lock, writew_lock_dat, un_lock_dat, locks

\* _db_readidx fills the handle with fields of their types.
LEMMA ReadIdxType ==
  ASSUME TypeOK, NEW p \in Procs, h[p].offset \in Recs
  PROVE  ReadIdx(p) \in Handle
<1>1. h[p] \in Handle /\ h[p].offset \in Ptrs
  BY DEF TypeOK, Handle
<1>2. ptr[h[p].offset] \in Ptrs
  BY Offsets DEF TypeOK
<1>3. rec[h[p].offset] \in RecType
  BY DEF TypeOK
<1>4. /\ rec[h[p].offset].key \in Keys \cup {NoKey}
      /\ rec[h[p].offset].datoff \in Slots /\ rec[h[p].offset].datlen \in Nat
  BY <1>3 DEF RecType
<1> QED BY <1>1, <1>2, <1>4 DEF ReadIdx, Handle

\* The mark that db_store is past a deletion leaves a well-formed handle; the
\* lemmas after this one say the same of the other fields that calls set.
LEMMA SetRepl ==
  ASSUME NEW r \in Handle PROVE [r EXCEPT !.repl = TRUE] \in Handle
BY Zenon DEF Handle

\* What db_nextrec reads from an index record.
LEMMA SetNext ==
  ASSUME NEW r \in Handle, NEW i \in Ptrs, NEW k \in Keys \cup {NoKey}, NEW d \in Slots
  PROVE  [r EXCEPT !.idxoff = i, !.kbuf = k, !.datoff = d] \in Handle
BY DEF Handle

\* The place of a search: the record it is at and the pointer that led there.
LEMMA SetPlace ==
  ASSUME NEW r \in Handle, NEW i \in Ptrs, NEW c \in Cells
  PROVE  /\ [r EXCEPT !.offset = i, !.ptroff = c] \in Handle
         /\ [r EXCEPT !.ptroff = c, !.offset = i] \in Handle
<1>1. [r EXCEPT !.offset = i, !.ptroff = c] \in Handle
  BY DEF Handle
<1>2. [r EXCEPT !.ptroff = c, !.offset = i] \in Handle
  BY DEF Handle
<1> QED BY <1>1, <1>2

\* A chain pointer kept for a later write, and the offset of a new index record.
LEMMA SetPtr ==
  ASSUME NEW r \in Handle, NEW i \in Ptrs
  PROVE  [r EXCEPT !.newptr = i] \in Handle /\ [r EXCEPT !.idxoff = i] \in Handle
<1>1. [r EXCEPT !.newptr = i] \in Handle
  BY DEF Handle
<1>2. [r EXCEPT !.idxoff = i] \in Handle
  BY DEF Handle
<1> QED BY <1>1, <1>2

\* The offset of a new data record.
LEMMA SetDat ==
  ASSUME NEW r \in Handle, NEW d \in Slots PROVE [r EXCEPT !.datoff = d] \in Handle
BY DEF Handle

\* err_dump, err_quit or a signal ends a process and keeps the types.
LEMMA ExitType ==
  ASSUME TypeOK, NEW p \in Procs, Exit(p)
  PROVE  TypeOK'
<1>1. /\ pc' \in [Procs -> PCs] /\ pc'[p] = "dead"
      /\ \A q \in Procs \ {p} : pc'[q] = pc[q]
  BY DEF Exit, TypeOK, PCs
<1>2. CallFits(p)'
  BY <1>1 DEF CallFits, InChain, DelWindow, FreeWindow, Reusing, Appending
<1>3. \A q \in Procs : CallFits(q)'
  BY <1>1, <1>2, CallFitsFrame DEF Exit
<1>4. h' \in [Procs -> Handle] /\ fdpos' \in [Procs -> 0 .. (REC_OFF + MaxRecs)]
  BY NullHandleType, Offsets, Sizes DEF Exit, TypeOK
<1>5. /\ lockR' \in [LockBytes -> SUBSET Procs]
      /\ lockW' \in [LockBytes -> Procs \cup {Nobody}]
      /\ datlock' \in Procs \cup {Nobody}
  BY DEF Exit, TypeOK
<1> QED BY <1>1, <1>3, <1>4, <1>5 DEF Exit, TypeOK, idxfile, datfile

\* The steps of db_fetch and of _db_find_and_lock keep the types.
LEMMA FetchType ==
  ASSUME TypeOK, NEW p \in Procs, Fetch(p)
  PROVE  TypeOK'
<1>0. pc[p] \in InChain \cup {"find"} =>
        chainoff(p) \in Cells /\ chainoff(p) \in LockBytes
  BY ChainOff DEF TypeOK, CallFits
<1>1. CASE FindAndLock(p)
  <2>1. /\ pc' \in [Procs -> PCs] /\ pc'[p] = "walk" /\ pc[p] = "find"
        /\ \A q \in Procs \ {p} : pc'[q] = pc[q]
    BY <1>1 DEF FindAndLock, Goto, Settle, TypeOK, PCs, InChain, DelWindow, FreeWindow,
         Reusing, Appending
  <2>2. CallFits(p)'
    BY <1>1, <2>1 DEF FindAndLock, TypeOK, Settle, Goto, CallFits, InChain, DelWindow,
         FreeWindow, Reusing, Appending
  <2>3. \A q \in Procs : CallFits(q)'
    BY <1>1, <2>1, <2>2, CallFitsFrame DEF FindAndLock
  <2>4. h' \in [Procs -> Handle]
    <3>1. [h[p] EXCEPT !.offset = ptr[chainoff(p)], !.ptroff = chainoff(p)] \in Handle
      <4>1. h[p] \in Handle /\ chainoff(p) \in Cells /\ ptr[chainoff(p)] \in Ptrs
        BY <1>0, <2>1 DEF TypeOK, InChain
      <4> QED BY <4>1, SetPlace
    <3> QED BY <1>1, <2>1, <3>1 DEF FindAndLock, TypeOK
  <2>5. fdpos' \in [Procs -> 0 .. (REC_OFF + MaxRecs)]
    BY <1>1, <2>1, Offsets, Sizes DEF FindAndLock, TypeOK
  <2>6. /\ lockR' \in [LockBytes -> SUBSET Procs]
        /\ lockW' \in [LockBytes -> Procs \cup {Nobody}]
        /\ datlock' \in Procs \cup {Nobody}
    BY <1>1, <2>1, LockTypes, Offsets, <1>0, <2>1 DEF FindAndLock, TypeOK, CallFits,
         InChain, DelWindow, FreeWindow, Reusing, Appending
  <2> QED BY <1>1, <2>1, <2>3, <2>4, <2>5, <2>6 DEF FindAndLock, TypeOK, Settle,
       idxfile, datfile
<1>2. CASE WalkPast(p)
  <2>1. \A q \in Procs : CallFits(q)'
    BY <1>2 DEF WalkPast, TypeOK, CallFits
  <2>2. h' \in [Procs -> Handle]
    <3>1. [ReadIdx(p) EXCEPT !.ptroff = h[p].offset, !.offset = ptr[h[p].offset]] \in Handle
      <4>1. h[p].offset \in Recs
        BY <1>2 DEF WalkPast
      <4>2. h[p].offset \in Cells /\ ptr[h[p].offset] \in Ptrs
        BY <4>1, Offsets DEF TypeOK
      <4> QED BY <4>1, <4>2, ReadIdxType, SetPlace
    <3> QED BY <1>2, <3>1 DEF WalkPast, TypeOK
  <2>3. fdpos' \in [Procs -> 0 .. (REC_OFF + MaxRecs)]
    BY <1>2, Offsets, Sizes DEF WalkPast, TypeOK
  <2> QED BY <1>2, <2>1, <2>2, <2>3 DEF WalkPast, TypeOK, Settle, idxfile, datfile, locks
<1>3. CASE WalkFound(p)
  <2>1. /\ pc' \in [Procs -> PCs] /\ pc'[p] \in {"fetch_dat", "del_dat", "doreturn", "over_dat"} /\ pc[p] = "walk"
        /\ \A q \in Procs \ {p} : pc'[q] = pc[q]
    BY <1>3 DEF WalkFound, Goto, Settle, TypeOK, PCs, InChain, DelWindow, FreeWindow,
         Reusing, Appending
  <2>2. CallFits(p)'
    BY <1>3, <2>1 DEF WalkFound, TypeOK, Settle, Goto, CallFits, InChain, DelWindow,
         FreeWindow, Reusing, Appending
  <2>3. \A q \in Procs : CallFits(q)'
    BY <1>3, <2>1, <2>2, CallFitsFrame DEF WalkFound
  <2>4. h' \in [Procs -> Handle]
    BY <1>3, <2>1, ReadIdxType DEF WalkFound, TypeOK, Handle
  <2>5. fdpos' \in [Procs -> 0 .. (REC_OFF + MaxRecs)]
    BY <1>3, <2>1, Offsets, Sizes DEF WalkFound, TypeOK
  <2>6. ret' \in [Procs -> Results]
    BY <1>3, <2>1 DEF WalkFound, Settle, TypeOK, Results, Result
  <2> QED BY <1>3, <2>1, <2>3, <2>4, <2>5, <2>6 DEF WalkFound, TypeOK, Settle, idxfile,
       datfile, locks
<1>4. CASE WalkMissing(p)
  <2>1. /\ pc' \in [Procs -> PCs] /\ pc'[p] \in {"doreturn", "head"} /\ pc[p] = "walk"
        /\ \A q \in Procs \ {p} : pc'[q] = pc[q]
    BY <1>4 DEF WalkMissing, Goto, Settle, TypeOK, PCs, InChain, DelWindow, FreeWindow,
         Reusing, Appending
  <2>2. CallFits(p)'
    BY <1>4, <2>1 DEF WalkMissing, TypeOK, Settle, Goto, CallFits, InChain, DelWindow,
         FreeWindow, Reusing, Appending
  <2>3. \A q \in Procs : CallFits(q)'
    BY <1>4, <2>1, <2>2, CallFitsFrame DEF WalkMissing
  <2>4. ret' \in [Procs -> Results]
    BY <1>4, <2>1 DEF WalkMissing, Settle, TypeOK, Results, Result
  <2> QED BY <1>4, <2>1, <2>3, <2>4 DEF WalkMissing, TypeOK, Settle, idxfile, datfile, locks
<1>5. CASE FetchDat(p)
  <2>1. /\ pc' \in [Procs -> PCs] /\ pc'[p] = "doreturn" /\ pc[p] = "fetch_dat"
        /\ \A q \in Procs \ {p} : pc'[q] = pc[q]
    BY <1>5 DEF FetchDat, Goto, Settle, TypeOK, PCs, InChain, DelWindow, FreeWindow,
         Reusing, Appending
  <2>2. CallFits(p)'
    BY <1>5, <2>1 DEF FetchDat, TypeOK, Settle, Goto, CallFits, InChain, DelWindow,
         FreeWindow, Reusing, Appending
  <2>3. \A q \in Procs : CallFits(q)'
    BY <1>5, <2>1, <2>2, CallFitsFrame DEF FetchDat
  <2>4. ret' \in [Procs -> Results]
    BY <1>5, <2>1 DEF FetchDat, Settle, TypeOK, Results, Result, DatType, Handle,
         CallFits, InChain, AllCalls
  <2> QED BY <1>5, <2>1, <2>3, <2>4 DEF FetchDat, TypeOK, Settle, idxfile, datfile, locks
<1>6. CASE DoReturn(p)
  <2>1. /\ pc' \in [Procs -> PCs] /\ pc'[p] = "idle" /\ pc[p] = "doreturn"
        /\ \A q \in Procs \ {p} : pc'[q] = pc[q]
    BY <1>6 DEF DoReturn, Goto, Settle, TypeOK, PCs, InChain, DelWindow, FreeWindow,
         Reusing, Appending
  <2>2. CallFits(p)'
    BY <1>6, <2>1 DEF DoReturn, TypeOK, Settle, Goto, CallFits, InChain, DelWindow,
         FreeWindow, Reusing, Appending
  <2>3. \A q \in Procs : CallFits(q)'
    BY <1>6, <2>1, <2>2, CallFitsFrame DEF DoReturn
  <2>4. h' \in [Procs -> Handle]
    BY <1>6, <2>1, NullHandleType DEF DoReturn, TypeOK, Handle
  <2>5. /\ lockR' \in [LockBytes -> SUBSET Procs]
        /\ lockW' \in [LockBytes -> Procs \cup {Nobody}]
        /\ datlock' \in Procs \cup {Nobody}
    BY <1>6, <2>1, LockTypes, Offsets, <1>0 DEF DoReturn, TypeOK, CallFits, InChain,
         DelWindow, FreeWindow, Reusing, Appending
  <2> QED BY <1>6, <2>1, <2>3, <2>4, <2>5 DEF DoReturn, TypeOK, Settle, idxfile, datfile
<1> QED BY <1>1, <1>2, <1>3, <1>4, <1>5, <1>6 DEF Fetch

\* The steps of _db_dodelete keep the types.
LEMMA DeleteType ==
  ASSUME TypeOK, NEW p \in Procs, Delete(p)
  PROVE  TypeOK'
<1>1. CASE DelDat(p)
  <2>1. /\ pc' \in [Procs -> PCs] /\ pc'[p] = "del_read" /\ pc[p] = "del_dat"
        /\ \A q \in Procs \ {p} : pc'[q] = pc[q]
    BY <1>1 DEF DelDat, Goto, Settle, TypeOK, PCs, InChain, DelWindow, FreeWindow,
         Reusing, Appending
  <2>2. CallFits(p)'
    BY <1>1, <2>1 DEF DelDat, TypeOK, Settle, Goto, CallFits, InChain, DelWindow,
         FreeWindow, Reusing, Appending
  <2>3. \A q \in Procs : CallFits(q)'
    BY <1>1, <2>1, <2>2, CallFitsFrame DEF DelDat
  <2>4. /\ lockR' \in [LockBytes -> SUBSET Procs]
        /\ lockW' \in [LockBytes -> Procs \cup {Nobody}]
        /\ datlock' \in Procs \cup {Nobody}
    BY <1>1, <2>1, LockTypes, Offsets DEF DelDat, TypeOK, CallFits, InChain, DelWindow,
         FreeWindow, Reusing, Appending
  <2>5. dat' \in [Slots -> DatType]
    BY <1>1, <2>1, Sizes DEF DelDat, TypeOK, DatType
  <2> QED BY <1>1, <2>1, <2>3, <2>4, <2>5 DEF DelDat, TypeOK, Settle, idxfile, datfile
<1>2. CASE DelReadFree(p)
  <2>1. /\ pc' \in [Procs -> PCs] /\ pc'[p] = "del_idx" /\ pc[p] = "del_read"
        /\ \A q \in Procs \ {p} : pc'[q] = pc[q]
    BY <1>2 DEF DelReadFree, Goto, Settle, TypeOK, PCs, InChain, DelWindow, FreeWindow,
         Reusing, Appending
  <2>2. CallFits(p)'
    BY <1>2, <2>1 DEF DelReadFree, TypeOK, Settle, Goto, CallFits, InChain, DelWindow,
         FreeWindow, Reusing, Appending
  <2>3. \A q \in Procs : CallFits(q)'
    BY <1>2, <2>1, <2>2, CallFitsFrame DEF DelReadFree
  <2>4. h' \in [Procs -> Handle]
    <3>1. h[p] \in Handle /\ ptr[FREE_OFF] \in Ptrs
      BY Offsets DEF TypeOK, FREE_OFF
    <3>2. [h[p] EXCEPT !.newptr = ptr[FREE_OFF]] \in Handle
      BY <3>1, SetPtr
    <3> QED BY <1>2, <3>2 DEF DelReadFree, TypeOK
  <2>5. fdpos' \in [Procs -> 0 .. (REC_OFF + MaxRecs)]
    BY <1>2, <2>1, Offsets, Sizes DEF DelReadFree, TypeOK
  <2> QED BY <1>2, <2>1, <2>3, <2>4, <2>5 DEF DelReadFree, TypeOK, Settle, idxfile,
       datfile, locks
<1>3. CASE DelIdx(p)
  <2>1. /\ pc' \in [Procs -> PCs] /\ pc'[p] = "del_free" /\ pc[p] = "del_idx"
        /\ \A q \in Procs \ {p} : pc'[q] = pc[q]
    BY <1>3 DEF DelIdx, Goto, Settle, TypeOK, PCs, InChain, DelWindow, FreeWindow,
         Reusing, Appending
  <2>2. CallFits(p)'
    BY <1>3, <2>1 DEF DelIdx, TypeOK, Settle, Goto, CallFits, InChain, DelWindow,
         FreeWindow, Reusing, Appending
  <2>3. \A q \in Procs : CallFits(q)'
    BY <1>3, <2>1, <2>2, CallFitsFrame DEF DelIdx
  <2>4. fdpos' \in [Procs -> 0 .. (REC_OFF + MaxRecs)]
    BY <1>3, <2>1, Offsets, Sizes DEF DelIdx, TypeOK, Handle, Ptrs
  <2>5. ptr' \in [Cells -> Ptrs]
    <3>1. h[p].newptr \in Ptrs
      BY DEF TypeOK, Handle
    <3> QED BY <1>3, <3>1 DEF DelIdx, TypeOK
  <2>6. rec' \in [Recs -> RecType]
    <3>1. \A r \in RecType : [r EXCEPT !.key = NoKey] \in RecType
      BY DEF RecType
    <3>2. rec \in [Recs -> RecType]
      BY DEF TypeOK
    <3> QED BY <1>3, <3>1, <3>2 DEF DelIdx
  <2> QED BY <1>3, <2>1, <2>3, <2>4, <2>5, <2>6 DEF DelIdx, TypeOK, Settle, idxfile,
       datfile, locks
<1>4. CASE DelFree(p)
  <2>1. /\ pc' \in [Procs -> PCs] /\ pc'[p] = "del_chain" /\ pc[p] = "del_free"
        /\ \A q \in Procs \ {p} : pc'[q] = pc[q]
    BY <1>4 DEF DelFree, Goto, Settle, TypeOK, PCs, InChain, DelWindow, FreeWindow,
         Reusing, Appending
  <2>2. CallFits(p)'
    BY <1>4, <2>1 DEF DelFree, TypeOK, Settle, Goto, CallFits, InChain, DelWindow,
         FreeWindow, Reusing, Appending
  <2>3. \A q \in Procs : CallFits(q)'
    BY <1>4, <2>1, <2>2, CallFitsFrame DEF DelFree
  <2>4. fdpos' \in [Procs -> 0 .. (REC_OFF + MaxRecs)]
    BY <1>4, <2>1, Offsets, Sizes DEF DelFree, TypeOK
  <2>5. ptr' \in [Cells -> Ptrs]
    BY <1>4, <2>1, Offsets DEF DelFree, TypeOK, Handle
  <2> QED BY <1>4, <2>1, <2>3, <2>4, <2>5 DEF DelFree, TypeOK, Settle, idxfile, datfile,
       locks
<1>5. CASE DelChain(p)
  <2>1. /\ pc' \in [Procs -> PCs] /\ pc'[p] \in {"doreturn", "head"} /\ pc[p] = "del_chain"
        /\ \A q \in Procs \ {p} : pc'[q] = pc[q]
    BY <1>5 DEF DelChain, Goto, Settle, TypeOK, PCs, InChain, DelWindow, FreeWindow,
         Reusing, Appending
  <2>2. CallFits(p)'
    BY <1>5, <2>1 DEF DelChain, TypeOK, Settle, Goto, CallFits, InChain, DelWindow,
         FreeWindow, Reusing, Appending
  <2>3. \A q \in Procs : CallFits(q)'
    BY <1>5, <2>1, <2>2, CallFitsFrame DEF DelChain
  <2>4. h' \in [Procs -> Handle]
    <3>1. [h[p] EXCEPT !.repl = TRUE] \in Handle
      BY SetRepl DEF TypeOK
    <3> QED BY <1>5, <2>1, <3>1 DEF DelChain, TypeOK
  <2>5. fdpos' \in [Procs -> 0 .. (REC_OFF + MaxRecs)]
    BY <1>5, <2>1, Offsets, Sizes DEF DelChain, TypeOK
  <2>6. ret' \in [Procs -> Results]
    BY <1>5, <2>1 DEF DelChain, Settle, TypeOK, Results, Result
  <2>7. /\ lockR' \in [LockBytes -> SUBSET Procs]
        /\ lockW' \in [LockBytes -> Procs \cup {Nobody}]
        /\ datlock' \in Procs \cup {Nobody}
    BY <1>5, <2>1, LockTypes, Offsets DEF DelChain, TypeOK, CallFits, InChain,
         DelWindow, FreeWindow, Reusing, Appending
  <2>8. ptr' \in [Cells -> Ptrs]
    BY <1>5, <2>1, Offsets DEF DelChain, TypeOK, Handle
  <2> QED BY <1>5, <2>1, <2>3, <2>4, <2>5, <2>6, <2>7, <2>8 DEF DelChain, TypeOK,
       Settle, idxfile, datfile
<1> QED BY <1>1, <1>2, <1>3, <1>4, <1>5 DEF Delete

\* The steps of db_store and of _db_findfree keep the types.
LEMMA StoreType ==
  ASSUME TypeOK, NEW p \in Procs, Store(p)
  PROVE  TypeOK'
<1>0. pc[p] \in InChain =>
        chainoff(p) \in Cells /\ chainoff(p) \in LockBytes
  BY ChainOff DEF TypeOK, CallFits
<1>1. CASE OverDat(p)
  <2>1. /\ pc' \in [Procs -> PCs] /\ pc'[p] = "doreturn" /\ pc[p] = "over_dat"
        /\ \A q \in Procs \ {p} : pc'[q] = pc[q]
    BY <1>1 DEF OverDat, Goto, Settle, TypeOK, PCs, InChain, DelWindow, FreeWindow,
         Reusing, Appending
  <2>2. CallFits(p)'
    BY <1>1, <2>1 DEF OverDat, TypeOK, Settle, Goto, CallFits, InChain, DelWindow,
         FreeWindow, Reusing, Appending
  <2>3. \A q \in Procs : CallFits(q)'
    BY <1>1, <2>1, <2>2, CallFitsFrame DEF OverDat
  <2>4. ret' \in [Procs -> Results]
    BY <1>1, <2>1 DEF OverDat, Settle, TypeOK, Results, Result
  <2>5. dat' \in [Slots -> DatType]
    BY <1>1, <2>1, DbAssumption DEF OverDat, Settle, Goto, TypeOK, DatType, CallFits,
         InChain, DelWindow, FreeWindow, Reusing, Appending
  <2> QED BY <1>1, <2>1, <2>3, <2>4, <2>5 DEF OverDat, TypeOK, Settle, idxfile, datfile,
       locks
<1>2. CASE ReadHead(p)
  <2>1. /\ pc' \in [Procs -> PCs] /\ pc'[p] \in {"app_dat_seek", "free_find"} /\ pc[p] = "head"
        /\ \A q \in Procs \ {p} : pc'[q] = pc[q]
    BY <1>2 DEF ReadHead, Goto, Settle, TypeOK, PCs, InChain, DelWindow, FreeWindow,
         Reusing, Appending
  <2>2. CallFits(p)'
    BY <1>2, <2>1 DEF ReadHead, TypeOK, Settle, Goto, CallFits, InChain, DelWindow,
         FreeWindow, Reusing, Appending
  <2>3. \A q \in Procs : CallFits(q)'
    BY <1>2, <2>1, <2>2, CallFitsFrame DEF ReadHead
  <2>4. h' \in [Procs -> Handle]
    <3>1. h[p] \in Handle /\ ptr[chainoff(p)] \in Ptrs
      BY <1>0, <2>1 DEF TypeOK, InChain
    <3>2. [h[p] EXCEPT !.newptr = ptr[chainoff(p)]] \in Handle
      BY <3>1, SetPtr
    <3> QED BY <1>2, <3>2 DEF ReadHead, TypeOK
  <2>5. fdpos' \in [Procs -> 0 .. (REC_OFF + MaxRecs)]
    BY <1>2, <2>1, Offsets, Sizes DEF ReadHead, TypeOK
  <2> QED BY <1>2, <2>1, <2>3, <2>4, <2>5 DEF ReadHead, TypeOK, Settle, idxfile,
       datfile, locks
<1>3. CASE FindFree(p)
  <2>1. /\ pc' \in [Procs -> PCs] /\ pc'[p] = "free_walk" /\ pc[p] = "free_find"
        /\ \A q \in Procs \ {p} : pc'[q] = pc[q]
    BY <1>3 DEF FindFree, Goto, Settle, TypeOK, PCs, InChain, DelWindow, FreeWindow,
         Reusing, Appending
  <2>2. CallFits(p)'
    BY <1>3, <2>1 DEF FindFree, TypeOK, Settle, Goto, CallFits, InChain, DelWindow,
         FreeWindow, Reusing, Appending
  <2>3. \A q \in Procs : CallFits(q)'
    BY <1>3, <2>1, <2>2, CallFitsFrame DEF FindFree
  <2>4. h' \in [Procs -> Handle]
    <3>1. [h[p] EXCEPT !.offset = ptr[FREE_OFF], !.ptroff = FREE_OFF] \in Handle
      <4>1. h[p] \in Handle /\ FREE_OFF \in Cells /\ ptr[FREE_OFF] \in Ptrs
        BY Offsets DEF TypeOK, FREE_OFF
      <4> QED BY <4>1, SetPlace
    <3> QED BY <1>3, <2>1, <3>1 DEF FindFree, TypeOK
  <2>5. fdpos' \in [Procs -> 0 .. (REC_OFF + MaxRecs)]
    BY <1>3, <2>1, Offsets, Sizes DEF FindFree, TypeOK
  <2>6. /\ lockR' \in [LockBytes -> SUBSET Procs]
        /\ lockW' \in [LockBytes -> Procs \cup {Nobody}]
        /\ datlock' \in Procs \cup {Nobody}
    BY <1>3, <2>1, LockTypes, Offsets DEF FindFree, TypeOK, CallFits, InChain,
         DelWindow, FreeWindow, Reusing, Appending
  <2> QED BY <1>3, <2>1, <2>3, <2>4, <2>5, <2>6 DEF FindFree, TypeOK, Settle, idxfile,
       datfile
<1>4. CASE FreePast(p)
  <2>1. \A q \in Procs : CallFits(q)'
    BY <1>4 DEF FreePast, TypeOK, CallFits
  <2>2. h' \in [Procs -> Handle]
    <3>1. [ReadIdx(p) EXCEPT !.ptroff = h[p].offset, !.offset = ptr[h[p].offset]] \in Handle
      <4>1. h[p].offset \in Recs
        BY <1>4 DEF FreePast
      <4>2. h[p].offset \in Cells /\ ptr[h[p].offset] \in Ptrs
        BY <4>1, Offsets DEF TypeOK
      <4> QED BY <4>1, <4>2, ReadIdxType, SetPlace
    <3> QED BY <1>4, <3>1 DEF FreePast, TypeOK
  <2>3. fdpos' \in [Procs -> 0 .. (REC_OFF + MaxRecs)]
    BY <1>4, Offsets, Sizes DEF FreePast, TypeOK
  <2> QED BY <1>4, <2>1, <2>2, <2>3 DEF FreePast, TypeOK, Settle, idxfile, datfile, locks
<1>5. CASE FreeFound(p)
  <2>1. /\ pc' \in [Procs -> PCs] /\ pc'[p] = "free_take" /\ pc[p] = "free_walk"
        /\ \A q \in Procs \ {p} : pc'[q] = pc[q]
    BY <1>5 DEF FreeFound, Goto, Settle, TypeOK, PCs, InChain, DelWindow, FreeWindow,
         Reusing, Appending
  <2>2. CallFits(p)'
    BY <1>5, <2>1 DEF FreeFound, TypeOK, Settle, Goto, CallFits, InChain, DelWindow,
         FreeWindow, Reusing, Appending
  <2>3. \A q \in Procs : CallFits(q)'
    BY <1>5, <2>1, <2>2, CallFitsFrame DEF FreeFound
  <2>4. h' \in [Procs -> Handle]
    BY <1>5, <2>1, ReadIdxType DEF FreeFound, TypeOK, Handle
  <2>5. fdpos' \in [Procs -> 0 .. (REC_OFF + MaxRecs)]
    BY <1>5, <2>1, Offsets, Sizes DEF FreeFound, TypeOK
  <2> QED BY <1>5, <2>1, <2>3, <2>4, <2>5 DEF FreeFound, TypeOK, Settle, idxfile,
       datfile, locks
<1>6. CASE FreeMissing(p)
  <2>1. /\ pc' \in [Procs -> PCs] /\ pc'[p] = "app_dat_seek" /\ pc[p] = "free_walk"
        /\ \A q \in Procs \ {p} : pc'[q] = pc[q]
    BY <1>6 DEF FreeMissing, Goto, Settle, TypeOK, PCs, InChain, DelWindow, FreeWindow,
         Reusing, Appending
  <2>2. CallFits(p)'
    BY <1>6, <2>1 DEF FreeMissing, TypeOK, Settle, Goto, CallFits, InChain, DelWindow,
         FreeWindow, Reusing, Appending
  <2>3. \A q \in Procs : CallFits(q)'
    BY <1>6, <2>1, <2>2, CallFitsFrame DEF FreeMissing
  <2>4. /\ lockR' \in [LockBytes -> SUBSET Procs]
        /\ lockW' \in [LockBytes -> Procs \cup {Nobody}]
        /\ datlock' \in Procs \cup {Nobody}
    BY <1>6, <2>1, LockTypes, Offsets DEF FreeMissing, TypeOK, CallFits, InChain,
         DelWindow, FreeWindow, Reusing, Appending
  <2> QED BY <1>6, <2>1, <2>3, <2>4 DEF FreeMissing, TypeOK, Settle, idxfile, datfile
<1>7. CASE FreeTake(p)
  <2>1. /\ pc' \in [Procs -> PCs] /\ pc'[p] = "reuse_dat" /\ pc[p] = "free_take"
        /\ \A q \in Procs \ {p} : pc'[q] = pc[q]
    BY <1>7 DEF FreeTake, Goto, Settle, TypeOK, PCs, InChain, DelWindow, FreeWindow,
         Reusing, Appending
  <2>2. CallFits(p)'
    BY <1>7, <2>1 DEF FreeTake, TypeOK, Settle, Goto, CallFits, InChain, DelWindow,
         FreeWindow, Reusing, Appending
  <2>3. \A q \in Procs : CallFits(q)'
    BY <1>7, <2>1, <2>2, CallFitsFrame DEF FreeTake
  <2>4. fdpos' \in [Procs -> 0 .. (REC_OFF + MaxRecs)]
    BY <1>7, <2>1, Offsets, Sizes DEF FreeTake, TypeOK
  <2>5. /\ lockR' \in [LockBytes -> SUBSET Procs]
        /\ lockW' \in [LockBytes -> Procs \cup {Nobody}]
        /\ datlock' \in Procs \cup {Nobody}
    BY <1>7, <2>1, LockTypes, Offsets DEF FreeTake, TypeOK, CallFits, InChain,
         DelWindow, FreeWindow, Reusing, Appending
  <2>6. ptr' \in [Cells -> Ptrs]
    BY <1>7, <2>1, Offsets DEF FreeTake, TypeOK, Handle
  <2> QED BY <1>7, <2>1, <2>3, <2>4, <2>5, <2>6 DEF FreeTake, TypeOK, Settle, idxfile,
       datfile
<1>8. CASE ReuseDat(p)
  <2>1. /\ pc' \in [Procs -> PCs] /\ pc'[p] = "reuse_idx" /\ pc[p] = "reuse_dat"
        /\ \A q \in Procs \ {p} : pc'[q] = pc[q]
    BY <1>8 DEF ReuseDat, Goto, Settle, TypeOK, PCs, InChain, DelWindow, FreeWindow,
         Reusing, Appending
  <2>2. CallFits(p)'
    BY <1>8, <2>1 DEF ReuseDat, TypeOK, Settle, Goto, CallFits, InChain, DelWindow,
         FreeWindow, Reusing, Appending
  <2>3. \A q \in Procs : CallFits(q)'
    BY <1>8, <2>1, <2>2, CallFitsFrame DEF ReuseDat
  <2>4. dat' \in [Slots -> DatType]
    BY <1>8, <2>1, DbAssumption DEF ReuseDat, Settle, Goto, TypeOK, DatType, CallFits,
         InChain, DelWindow, FreeWindow, Reusing, Appending
  <2> QED BY <1>8, <2>1, <2>3, <2>4 DEF ReuseDat, TypeOK, Settle, idxfile, datfile, locks
<1>9. CASE ReuseIdx(p)
  <2>1. /\ pc' \in [Procs -> PCs] /\ pc'[p] = "commit" /\ pc[p] = "reuse_idx"
        /\ \A q \in Procs \ {p} : pc'[q] = pc[q]
    BY <1>9 DEF ReuseIdx, Goto, Settle, TypeOK, PCs, InChain, DelWindow, FreeWindow,
         Reusing, Appending
  <2>2. CallFits(p)'
    BY <1>9, <2>1 DEF ReuseIdx, TypeOK, Settle, Goto, CallFits, InChain, DelWindow,
         FreeWindow, Reusing, Appending
  <2>3. \A q \in Procs : CallFits(q)'
    BY <1>9, <2>1, <2>2, CallFitsFrame DEF ReuseIdx
  <2>4. fdpos' \in [Procs -> 0 .. (REC_OFF + MaxRecs)]
    BY <1>9, <2>1, Offsets, Sizes DEF ReuseIdx, TypeOK, Handle, Ptrs
  <2>5. NewRec(p) \in RecType
    BY <1>9, <2>1, DbAssumption DEF ReuseIdx, NewRec, RecType, Handle, TypeOK, CallFits,
         InChain, DelWindow, FreeWindow, Reusing, Appending
  <2>6. ptr' \in [Cells -> Ptrs]
    BY <1>9, <2>1, Offsets DEF ReuseIdx, TypeOK, Handle
  <2>7. rec' \in [Recs -> RecType]
    BY <1>9, <2>1, <2>5 DEF ReuseIdx, TypeOK
  <2> QED BY <1>9, <2>1, <2>3, <2>4, <2>5, <2>6, <2>7 DEF ReuseIdx, TypeOK, Settle,
       idxfile, datfile, locks
<1>10. CASE AppendDatSeek(p)
  <2>1. /\ pc' \in [Procs -> PCs] /\ pc'[p] = "app_dat" /\ pc[p] = "app_dat_seek"
        /\ \A q \in Procs \ {p} : pc'[q] = pc[q]
    BY <1>10 DEF AppendDatSeek, Goto, Settle, TypeOK, PCs, InChain, DelWindow,
         FreeWindow, Reusing, Appending
  <2>2. CallFits(p)'
    BY <1>10, <2>1 DEF AppendDatSeek, TypeOK, Settle, Goto, CallFits, InChain,
         DelWindow, FreeWindow, Reusing, Appending
  <2>3. \A q \in Procs : CallFits(q)'
    BY <1>10, <2>1, <2>2, CallFitsFrame DEF AppendDatSeek
  <2>4. h' \in [Procs -> Handle]
    <3>1. h[p] \in Handle /\ datend \in Slots
      BY <1>10 DEF AppendDatSeek, TypeOK
    <3>2. [h[p] EXCEPT !.datoff = datend] \in Handle
      BY <3>1, SetDat
    <3> QED BY <1>10, <3>2 DEF AppendDatSeek, TypeOK
  <2>5. /\ lockR' \in [LockBytes -> SUBSET Procs]
        /\ lockW' \in [LockBytes -> Procs \cup {Nobody}]
        /\ datlock' \in Procs \cup {Nobody}
    BY <1>10, <2>1, LockTypes, Offsets DEF AppendDatSeek, TypeOK, CallFits, InChain,
         DelWindow, FreeWindow, Reusing, Appending
  <2> QED BY <1>10, <2>1, <2>3, <2>4, <2>5 DEF AppendDatSeek, TypeOK, Settle, idxfile,
       datfile
<1>11. CASE AppendDat(p)
  <2>1. /\ pc' \in [Procs -> PCs] /\ pc'[p] = "app_idx_seek" /\ pc[p] = "app_dat"
        /\ \A q \in Procs \ {p} : pc'[q] = pc[q]
    BY <1>11 DEF AppendDat, Goto, Settle, TypeOK, PCs, InChain, DelWindow, FreeWindow,
         Reusing, Appending
  <2>2. CallFits(p)'
    BY <1>11, <2>1 DEF AppendDat, TypeOK, Settle, Goto, CallFits, InChain, DelWindow,
         FreeWindow, Reusing, Appending
  <2>3. \A q \in Procs : CallFits(q)'
    BY <1>11, <2>1, <2>2, CallFitsFrame DEF AppendDat
  <2>4. /\ lockR' \in [LockBytes -> SUBSET Procs]
        /\ lockW' \in [LockBytes -> Procs \cup {Nobody}]
        /\ datlock' \in Procs \cup {Nobody}
    BY <1>11, <2>1, LockTypes, Offsets DEF AppendDat, TypeOK, CallFits, InChain,
         DelWindow, FreeWindow, Reusing, Appending
  <2>5. dat' \in [Slots -> DatType]
    BY <1>11, <2>1, DbAssumption DEF AppendDat, Settle, Goto, TypeOK, DatType, CallFits,
         InChain, DelWindow, FreeWindow, Reusing, Appending
  <2>6. datend' \in 0 .. MaxRecs
    BY <1>11, <2>1, Sizes DEF AppendDat, TypeOK, Handle, Slots
  <2> QED BY <1>11, <2>1, <2>3, <2>4, <2>5, <2>6 DEF AppendDat, TypeOK, Settle, idxfile,
       datfile
<1>12. CASE AppendIdxSeek(p)
  <2>1. /\ pc' \in [Procs -> PCs] /\ pc'[p] = "app_idx" /\ pc[p] = "app_idx_seek"
        /\ \A q \in Procs \ {p} : pc'[q] = pc[q]
    BY <1>12 DEF AppendIdxSeek, Goto, Settle, TypeOK, PCs, InChain, DelWindow,
         FreeWindow, Reusing, Appending
  <2>2. CallFits(p)'
    BY <1>12, <2>1 DEF AppendIdxSeek, TypeOK, Settle, Goto, CallFits, InChain,
         DelWindow, FreeWindow, Reusing, Appending
  <2>3. \A q \in Procs : CallFits(q)'
    BY <1>12, <2>1, <2>2, CallFitsFrame DEF AppendIdxSeek
  <2>4. h' \in [Procs -> Handle]
    <3>1. [h[p] EXCEPT !.idxoff = idxend] \in Handle
      <4>1. idxend \in Ptrs
        BY <1>12, Offsets DEF AppendIdxSeek, TypeOK, Ptrs, Recs
      <4>2. h[p] \in Handle
        BY DEF TypeOK
      <4> QED BY <4>1, <4>2, SetPtr
    <3> QED BY <1>12, <2>1, <3>1 DEF AppendIdxSeek, TypeOK
  <2>5. fdpos' \in [Procs -> 0 .. (REC_OFF + MaxRecs)]
    BY <1>12, <2>1, Offsets, Sizes DEF AppendIdxSeek, TypeOK
  <2>6. /\ lockR' \in [LockBytes -> SUBSET Procs]
        /\ lockW' \in [LockBytes -> Procs \cup {Nobody}]
        /\ datlock' \in Procs \cup {Nobody}
    BY <1>12, <2>1, LockTypes, Offsets DEF AppendIdxSeek, TypeOK, CallFits, InChain,
         DelWindow, FreeWindow, Reusing, Appending
  <2> QED BY <1>12, <2>1, <2>3, <2>4, <2>5, <2>6 DEF AppendIdxSeek, TypeOK, Settle,
       idxfile, datfile
<1>13. CASE AppendIdx(p)
  <2>1. /\ pc' \in [Procs -> PCs] /\ pc'[p] = "commit" /\ pc[p] = "app_idx"
        /\ \A q \in Procs \ {p} : pc'[q] = pc[q]
    BY <1>13 DEF AppendIdx, Goto, Settle, TypeOK, PCs, InChain, DelWindow, FreeWindow,
         Reusing, Appending
  <2>2. CallFits(p)'
    BY <1>13, <2>1 DEF AppendIdx, TypeOK, Settle, Goto, CallFits, InChain, DelWindow,
         FreeWindow, Reusing, Appending
  <2>3. \A q \in Procs : CallFits(q)'
    BY <1>13, <2>1, <2>2, CallFitsFrame DEF AppendIdx
  <2>4. fdpos' \in [Procs -> 0 .. (REC_OFF + MaxRecs)]
    BY <1>13, <2>1, Offsets, Sizes DEF AppendIdx, TypeOK, Handle, Ptrs
  <2>5. /\ lockR' \in [LockBytes -> SUBSET Procs]
        /\ lockW' \in [LockBytes -> Procs \cup {Nobody}]
        /\ datlock' \in Procs \cup {Nobody}
    BY <1>13, <2>1, LockTypes, Offsets DEF AppendIdx, TypeOK, CallFits, InChain,
         DelWindow, FreeWindow, Reusing, Appending
  <2>6. NewRec(p) \in RecType
    BY <1>13, <2>1, DbAssumption DEF AppendIdx, NewRec, RecType, Handle, TypeOK,
         CallFits, InChain, DelWindow, FreeWindow, Reusing, Appending
  <2>7. ptr' \in [Cells -> Ptrs]
    BY <1>13, <2>1, Offsets DEF AppendIdx, TypeOK, Handle
  <2>8. rec' \in [Recs -> RecType]
    BY <1>13, <2>1, <2>6 DEF AppendIdx, TypeOK
  <2>9. idxend' \in REC_OFF .. (REC_OFF + MaxRecs)
    BY <1>13, <2>1, Offsets, Sizes DEF AppendIdx, TypeOK, Handle, Ptrs, Recs
  <2> QED BY <1>13, <2>1, <2>3, <2>4, <2>5, <2>6, <2>7, <2>8, <2>9 DEF AppendIdx,
       TypeOK, Settle, idxfile, datfile
<1>14. CASE AppendNoSpace(p)
  BY <1>14, ExitType DEF AppendNoSpace
<1>15. CASE Commit(p)
  <2>1. /\ pc' \in [Procs -> PCs] /\ pc'[p] = "doreturn" /\ pc[p] = "commit"
        /\ \A q \in Procs \ {p} : pc'[q] = pc[q]
    BY <1>15 DEF Commit, Goto, Settle, TypeOK, PCs, InChain, DelWindow, FreeWindow,
         Reusing, Appending
  <2>2. CallFits(p)'
    BY <1>15, <2>1 DEF Commit, TypeOK, Settle, Goto, CallFits, InChain, DelWindow,
         FreeWindow, Reusing, Appending
  <2>3. \A q \in Procs : CallFits(q)'
    BY <1>15, <2>1, <2>2, CallFitsFrame DEF Commit
  <2>4. fdpos' \in [Procs -> 0 .. (REC_OFF + MaxRecs)]
    BY <1>15, <2>1, Offsets, Sizes DEF Commit, TypeOK
  <2>5. ret' \in [Procs -> Results]
    BY <1>15, <2>1 DEF Commit, Settle, TypeOK, Results, Result
  <2>6. ptr' \in [Cells -> Ptrs]
    BY <1>15, <2>1, Offsets DEF Commit, TypeOK, Handle
  <2> QED BY <1>15, <2>1, <2>3, <2>4, <2>5, <2>6 DEF Commit, TypeOK, Settle, idxfile,
       datfile, locks
<1>16. CASE CommitTooFar(p)
  BY <1>16, ExitType DEF CommitTooFar
<1> QED BY <1>1, <1>2, <1>3, <1>4, <1>5, <1>6, <1>7, <1>8, <1>9, <1>10, <1>11, <1>12,
     <1>13, <1>14, <1>15, <1>16 DEF Store

\* The steps of db_nextrec keep the types.
LEMMA NextRecType ==
  ASSUME TypeOK, NEW p \in Procs, NextRec(p)
  PROVE  TypeOK'
<1>1. CASE NextLock(p)
  <2>1. /\ pc' \in [Procs -> PCs] /\ pc'[p] = "next_idx" /\ pc[p] = "next_lock"
        /\ \A q \in Procs \ {p} : pc'[q] = pc[q]
    BY <1>1 DEF NextLock, Goto, Settle, TypeOK, PCs, InChain, DelWindow, FreeWindow,
         Reusing, Appending
  <2>2. CallFits(p)'
    BY <1>1, <2>1 DEF NextLock, TypeOK, Settle, Goto, CallFits, InChain, DelWindow,
         FreeWindow, Reusing, Appending
  <2>3. \A q \in Procs : CallFits(q)'
    BY <1>1, <2>1, <2>2, CallFitsFrame DEF NextLock
  <2>4. /\ lockR' \in [LockBytes -> SUBSET Procs]
        /\ lockW' \in [LockBytes -> Procs \cup {Nobody}]
        /\ datlock' \in Procs \cup {Nobody}
    BY <1>1, <2>1, LockTypes, Offsets DEF NextLock, TypeOK, CallFits, InChain,
         DelWindow, FreeWindow, Reusing, Appending
  <2> QED BY <1>1, <2>1, <2>3, <2>4 DEF NextLock, TypeOK, Settle, idxfile, datfile
<1>2. CASE NextPast(p)
  <2>1. \A q \in Procs : CallFits(q)'
    BY <1>2 DEF NextPast, TypeOK, CallFits
  <2>2. fdpos' \in [Procs -> 0 .. (REC_OFF + MaxRecs)]
    BY <1>2, Offsets, Sizes DEF NextPast, TypeOK
  <2> QED BY <1>2, <2>1, <2>2 DEF NextPast, TypeOK, Settle, idxfile, datfile, locks
<1>3. CASE NextFound(p)
  <2>1. /\ pc' \in [Procs -> PCs] /\ pc'[p] = "next_dat" /\ pc[p] = "next_idx"
        /\ \A q \in Procs \ {p} : pc'[q] = pc[q]
    BY <1>3 DEF NextFound, Goto, Settle, TypeOK, PCs, InChain, DelWindow, FreeWindow,
         Reusing, Appending
  <2>2. CallFits(p)'
    BY <1>3, <2>1 DEF NextFound, TypeOK, Settle, Goto, CallFits, InChain, DelWindow,
         FreeWindow, Reusing, Appending
  <2>3. \A q \in Procs : CallFits(q)'
    BY <1>3, <2>1, <2>2, CallFitsFrame DEF NextFound
  <2>4. h' \in [Procs -> Handle]
    <3>1. [h[p] EXCEPT !.idxoff = fdpos[p], !.kbuf = rec[fdpos[p]].key, !.datoff = rec[fdpos[p]].datoff] \in Handle
      BY <1>3, <2>1, SetNext DEF NextFound, TypeOK, RecType, Ptrs
    <3> QED BY <1>3, <2>1, <3>1 DEF NextFound, TypeOK
  <2>5. fdpos' \in [Procs -> 0 .. (REC_OFF + MaxRecs)]
    BY <1>3, <2>1, Offsets, Sizes DEF NextFound, TypeOK
  <2> QED BY <1>3, <2>1, <2>3, <2>4, <2>5 DEF NextFound, TypeOK, Settle, idxfile,
       datfile, locks
<1>4. CASE NextEof(p)
  <2>1. /\ pc' \in [Procs -> PCs] /\ pc'[p] = "idle" /\ pc[p] = "next_idx"
        /\ \A q \in Procs \ {p} : pc'[q] = pc[q]
    BY <1>4 DEF NextEof, Goto, Settle, TypeOK, PCs, InChain, DelWindow, FreeWindow,
         Reusing, Appending
  <2>2. CallFits(p)'
    BY <1>4, <2>1 DEF NextEof, TypeOK, Settle, Goto, CallFits, InChain, DelWindow,
         FreeWindow, Reusing, Appending
  <2>3. \A q \in Procs : CallFits(q)'
    BY <1>4, <2>1, <2>2, CallFitsFrame DEF NextEof
  <2>4. ret' \in [Procs -> Results]
    BY <1>4, <2>1 DEF NextEof, Settle, TypeOK, Results, Result
  <2>5. /\ lockR' \in [LockBytes -> SUBSET Procs]
        /\ lockW' \in [LockBytes -> Procs \cup {Nobody}]
        /\ datlock' \in Procs \cup {Nobody}
    BY <1>4, <2>1, LockTypes, Offsets DEF NextEof, TypeOK, CallFits, InChain, DelWindow,
         FreeWindow, Reusing, Appending
  <2> QED BY <1>4, <2>1, <2>3, <2>4, <2>5 DEF NextEof, TypeOK, Settle, idxfile, datfile
<1>5. CASE NextDat(p)
  <2>1. /\ pc' \in [Procs -> PCs] /\ pc'[p] = "idle" /\ pc[p] = "next_dat"
        /\ \A q \in Procs \ {p} : pc'[q] = pc[q]
    BY <1>5 DEF NextDat, Goto, Settle, TypeOK, PCs, InChain, DelWindow, FreeWindow,
         Reusing, Appending
  <2>2. CallFits(p)'
    BY <1>5, <2>1 DEF NextDat, TypeOK, Settle, Goto, CallFits, InChain, DelWindow,
         FreeWindow, Reusing, Appending
  <2>3. \A q \in Procs : CallFits(q)'
    BY <1>5, <2>1, <2>2, CallFitsFrame DEF NextDat
  <2>4. h' \in [Procs -> Handle]
    BY <1>5, <2>1, NullHandleType DEF NextDat, TypeOK, Handle
  <2>5. ret' \in [Procs -> Results]
    BY <1>5, <2>1 DEF NextDat, Settle, TypeOK, Results, Result, Handle, DatType
  <2>6. /\ lockR' \in [LockBytes -> SUBSET Procs]
        /\ lockW' \in [LockBytes -> Procs \cup {Nobody}]
        /\ datlock' \in Procs \cup {Nobody}
    BY <1>5, <2>1, LockTypes, Offsets DEF NextDat, TypeOK, CallFits, InChain, DelWindow,
         FreeWindow, Reusing, Appending
  <2> QED BY <1>5, <2>1, <2>3, <2>4, <2>5, <2>6 DEF NextDat, TypeOK, Settle, idxfile,
       datfile
<1>6. CASE NextAstray(p)
  BY <1>6, ExitType DEF NextAstray
<1> QED BY <1>1, <1>2, <1>3, <1>4, <1>5, <1>6 DEF NextRec

\* Entering a call, an invalid flag and db_rewind keep the types.
LEMMA StartType ==
  ASSUME TypeOK, NEW p \in Procs, Start(p)
  PROVE  TypeOK'
<1> PICK c \in Calls[p] : Begin(p, c) \/ StoreInvalid(p, c) \/ db_rewind(p, c)
  BY DEF Start
<1>0. /\ c \in AllCalls
      /\ c.kind \in {"fetch", "delete", "store"} => c.key \in Keys
      /\ c.kind = "store" => c.val \in Vals
  BY DbAssumption
<1>1. CASE Begin(p, c)
  <2>1. /\ pc' \in [Procs -> PCs] /\ pc'[p] \in {"next_lock", "find"}
        /\ pc'[p] = "find" => c.kind \in {"fetch", "delete", "store"}
        /\ \A q \in Procs \ {p} : pc'[q] = pc[q]
    BY <1>0, <1>1 DEF Begin, TypeOK, PCs, AllCalls
  <2>2. call' \in [Procs -> AllCalls] /\ call'[p] = c
        /\ \A q \in Procs \ {p} : call'[q] = call[q]
    BY <1>0, <1>1 DEF Begin, TypeOK
  <2>3. CallFits(p)'
    BY <2>1, <2>2, <1>0 DEF CallFits, InChain, DelWindow, FreeWindow, Reusing, Appending
  <2>4. \A q \in Procs : CallFits(q)'
    BY <2>1, <2>2, <2>3 DEF TypeOK, CallFits
  <2>5. left' \in [Procs -> Nat] /\ ret' \in [Procs -> Results]
    BY <1>1 DEF Begin, TypeOK, Results, Result, NoResult
  <2> QED BY <1>1, <2>1, <2>2, <2>4, <2>5 DEF Begin, TypeOK, idxfile, datfile, locks
<1>2. CASE StoreInvalid(p, c)
  <2>1. left' \in [Procs -> Nat] /\ ret' \in [Procs -> Results]
    BY <1>2 DEF StoreInvalid, TypeOK, Results, Result
  <2>2. \A q \in Procs : CallFits(q)'
    BY <1>2 DEF StoreInvalid, TypeOK, CallFits
  <2> QED BY <1>2, <2>1, <2>2 DEF StoreInvalid, TypeOK, idxfile, datfile, locks
<1>3. CASE db_rewind(p, c)
  <2>1. left' \in [Procs -> Nat] /\ fdpos' \in [Procs -> 0 .. (REC_OFF + MaxRecs)]
    BY <1>3, Offsets, Sizes DEF db_rewind, TypeOK
  <2>2. \A q \in Procs : CallFits(q)'
    BY <1>3 DEF db_rewind, TypeOK, CallFits
  <2> QED BY <1>3, <2>1, <2>2 DEF db_rewind, TypeOK, idxfile, datfile, locks
<1> QED BY <1>1, <1>2, <1>3

\* A stuttering step keeps the types.
LEMMA StutterType == TypeOK /\ UNCHANGED vars => TypeOK'
BY DEF TypeOK, vars, CallFits

\* Every step of every process keeps the types.
LEMMA TypeStep == TypeOK /\ [Next]_vars => TypeOK'
<1> SUFFICES ASSUME TypeOK, [Next]_vars PROVE TypeOK'
  OBVIOUS
<1>1. CASE UNCHANGED vars
  BY <1>1, StutterType
<1>2. ASSUME NEW p \in Procs, Start(p) \/ Step(p) \/ Crash(p) PROVE TypeOK'
  BY <1>2, StartType, FetchType, DeleteType, StoreType, NextRecType, ExitType
     DEF Step, Crash
<1> QED BY <1>1, <1>2 DEF Next

\* Every variable keeps its type and every process stays at a control point
\* that its call leads to, whatever the calls, the kills and the failed writes.
THEOREM TypeCorrect == Spec => []TypeOK
BY InitTypeOK, TypeStep, PTL DEF Spec

-----------------------------------------------------------------------------
(* Every step preserves the lock discipline.  A step of p concerns only    *)
(* what p holds, so it is enough to say how HoldsW and HoldsR of p change. *)

Others(p) == \A q \in Procs \ {p} : pc'[q] = pc[q] /\ call'[q] = call[q]

\* The locks that a process ought to hold depend on its own call and control
\* point only, so a step of another process does not change them.
LEMMA HoldsFrame ==
  ASSUME NEW p \in Procs, Others(p), NEW q \in Procs \ {p}, NEW o \in LockBytes
  PROVE  /\ HoldsW(q, o)' <=> HoldsW(q, o)
         /\ HoldsR(q, o)' <=> HoldsR(q, o)
         /\ pc'[q] = pc[q]
BY DEF Others, HoldsW, HoldsR, Writing, chainoff

SameDat(p) == pc'[p] = "app_dat" <=> pc[p] = "app_dat"

\* A step that moves a process between two control points with the same locks,
\* and leaves the lock tables alone, keeps the discipline.
LEMMA KeepLocks ==
  ASSUME TypeOK, LockDiscipline, NEW p \in Procs, Others(p), SameDat(p), UNCHANGED locks,
         \A o \in LockBytes : /\ HoldsW(p, o)' <=> HoldsW(p, o)
                              /\ HoldsR(p, o)' <=> HoldsR(p, o)
  PROVE  LockDiscipline'
<1>1. \A q \in Procs, o \in LockBytes : /\ lockW'[o] = q <=> HoldsW(q, o)'
                                        /\ q \in lockR'[o] <=> HoldsR(q, o)'
  BY HoldsFrame DEF LockDiscipline, locks
<1>2. \A q \in Procs : datlock' = q <=> pc'[q] = "app_dat"
  BY DEF LockDiscipline, locks, Others, SameDat
<1> QED BY <1>1, <1>2 DEF LockDiscipline, locks

\* A granted readw_lock, with the step to a control point that holds just that
\* read lock more, keeps the discipline.
LEMMA TakeReadLock ==
  ASSUME TypeOK, LockDiscipline, NEW p \in Procs, Others(p), SameDat(p),
         NEW b \in LockBytes, readw_lock(p, b), ~HoldsW(p, b),
         \A o \in LockBytes : /\ HoldsW(p, o)' <=> HoldsW(p, o)
                              /\ HoldsR(p, o)' <=> HoldsR(p, o) \/ o = b
  PROVE  LockDiscipline'
<1>1. lockW[b] = Nobody
  BY DEF LockDiscipline, readw_lock, CanReadLock
<1>2. \A q \in Procs, o \in LockBytes : /\ lockW'[o] = q <=> HoldsW(q, o)'
                                        /\ q \in lockR'[o] <=> HoldsR(q, o)'
  BY HoldsFrame DEF LockDiscipline, readw_lock, TypeOK
<1>3. \A q \in Procs : datlock' = q <=> pc'[q] = "app_dat"
  BY DEF LockDiscipline, readw_lock, Others, SameDat
<1>4. \A o \in LockBytes : lockW'[o] # Nobody => lockR'[o] \subseteq {lockW'[o]}
  BY <1>1 DEF LockDiscipline, readw_lock, TypeOK
<1> QED BY <1>2, <1>3, <1>4 DEF LockDiscipline

\* A granted writew_lock, with the step to a control point that holds just that
\* write lock more, keeps the discipline.
LEMMA TakeWriteLock ==
  ASSUME TypeOK, LockDiscipline, NEW p \in Procs, Others(p), SameDat(p),
         NEW b \in LockBytes, writew_lock(p, b),
         \A o \in LockBytes : /\ HoldsW(p, o)' <=> HoldsW(p, o) \/ o = b
                              /\ HoldsR(p, o)' <=> HoldsR(p, o)
  PROVE  LockDiscipline'
<1>1. lockW[b] \in {Nobody, p} /\ lockR[b] \subseteq {p} /\ Nobody \notin Procs
  BY DbAssumption DEF writew_lock, CanWriteLock
<1>2. \A q \in Procs, o \in LockBytes : /\ lockW'[o] = q <=> HoldsW(q, o)'
                                        /\ q \in lockR'[o] <=> HoldsR(q, o)'
  BY <1>1, HoldsFrame DEF LockDiscipline, writew_lock, TypeOK
<1>3. \A q \in Procs : datlock' = q <=> pc'[q] = "app_dat"
  BY DEF LockDiscipline, writew_lock, Others, SameDat
<1>4. \A o \in LockBytes : lockW'[o] # Nobody => lockR'[o] \subseteq {lockW'[o]}
  BY <1>1 DEF LockDiscipline, writew_lock, TypeOK
<1> QED BY <1>2, <1>3, <1>4 DEF LockDiscipline

\* An un_lock, with the step to a control point that holds just that lock less,
\* keeps the discipline.
LEMMA ReleaseLock ==
  ASSUME TypeOK, LockDiscipline, NEW p \in Procs, Others(p), SameDat(p),
         NEW b \in LockBytes, un_lock(p, b),
         \A o \in LockBytes : /\ HoldsW(p, o)' <=> HoldsW(p, o) /\ o # b
                              /\ HoldsR(p, o)' <=> HoldsR(p, o) /\ o # b
  PROVE  LockDiscipline'
<1>1. Nobody \notin Procs
  BY DbAssumption
<1>2. \A q \in Procs, o \in LockBytes : /\ lockW'[o] = q <=> HoldsW(q, o)'
                                        /\ q \in lockR'[o] <=> HoldsR(q, o)'
  BY <1>1, HoldsFrame DEF LockDiscipline, un_lock, TypeOK
<1>3. \A q \in Procs : datlock' = q <=> pc'[q] = "app_dat"
  BY DEF LockDiscipline, un_lock, Others, SameDat
<1>4. \A o \in LockBytes : lockW'[o] # Nobody => lockR'[o] \subseteq {lockW'[o]}
  BY <1>1 DEF LockDiscipline, un_lock, TypeOK
<1> QED BY <1>2, <1>3, <1>4 DEF LockDiscipline

\* The kernel drops every lock of a process that ends: the discipline is kept.
LEMMA ExitLocks ==
  ASSUME TypeOK, LockDiscipline, NEW p \in Procs, Exit(p)
  PROVE  LockDiscipline'
<1>1. Nobody \notin Procs
  BY DbAssumption
<1>2. Others(p) /\ pc'[p] = "dead"
  BY DEF Exit, Others, TypeOK
<1>3. \A o \in LockBytes : ~HoldsW(p, o)' /\ ~HoldsR(p, o)'
  BY <1>2 DEF HoldsW, HoldsR, Writing, InChain, DelWindow, FreeWindow, Reusing, Appending
<1>4. \A q \in Procs, o \in LockBytes : /\ lockW'[o] = q <=> HoldsW(q, o)'
                                        /\ q \in lockR'[o] <=> HoldsR(q, o)'
  BY <1>1, <1>2, <1>3, HoldsFrame DEF LockDiscipline, Exit
<1>5. \A q \in Procs : datlock' = q <=> pc'[q] = "app_dat"
  BY <1>1, <1>2 DEF LockDiscipline, Exit, Others
<1>6. \A o \in LockBytes : lockW'[o] # Nobody => lockR'[o] \subseteq {lockW'[o]}
  BY <1>1 DEF LockDiscipline, Exit
<1> QED BY <1>4, <1>5, <1>6 DEF LockDiscipline

\* The steps of db_fetch and of _db_find_and_lock keep the discipline.
LEMMA FetchLocks ==
  ASSUME TypeOK, LockDiscipline, NEW p \in Procs, Fetch(p)
  PROVE  LockDiscipline'
<1>0. pc[p] \in InChain \cup {"find"} =>
        /\ chainoff(p) \in LockBytes
        /\ chainoff(p) # FREE_OFF /\ chainoff(p) # REC_OFF
  BY ChainOff DEF TypeOK, CallFits
<1>1. CASE FindAndLock(p)
  <2>1. /\ Others(p) /\ SameDat(p) /\ chainoff(p) \in LockBytes
        /\ pc[p] = "find" /\ pc'[p] = "walk" /\ call' = call
    BY <1>1, <1>0 DEF FindAndLock, Goto, Others, SameDat, TypeOK
  <2>2. CASE call[p].kind = "fetch"
    <3>1. \A o \in LockBytes : /\ HoldsW(p, o)' <=> HoldsW(p, o)
                               /\ HoldsR(p, o)' <=> HoldsR(p, o) \/ o = chainoff(p)
      BY <2>1, <2>2 DEF HoldsW, HoldsR, Writing, chainoff, FREE_OFF, InChain, DelWindow,
           FreeWindow, Reusing, Appending
    <3>2. ~HoldsW(p, chainoff(p))
      BY <2>1 DEF HoldsW, HoldsR, Writing, chainoff, FREE_OFF, InChain, DelWindow,
           FreeWindow, Reusing, Appending
    <3> QED BY <1>1, <2>1, <2>2, <3>1, <3>2, TakeReadLock DEF FindAndLock
  <2>3. CASE call[p].kind # "fetch"
    <3>1. \A o \in LockBytes : /\ HoldsW(p, o)' <=> HoldsW(p, o) \/ o = chainoff(p)
                               /\ HoldsR(p, o)' <=> HoldsR(p, o)
      BY <2>1, <2>3 DEF HoldsW, HoldsR, Writing, chainoff, FREE_OFF, InChain, DelWindow,
           FreeWindow, Reusing, Appending
    <3> QED BY <1>1, <2>1, <2>3, <3>1, TakeWriteLock DEF FindAndLock
  <2> QED BY <2>2, <2>3
<1>2. CASE WalkPast(p)
  <2>1. Others(p) /\ SameDat(p)
    BY <1>2, <1>0, Offsets DEF WalkPast, Goto, Settle, Others, SameDat, TypeOK
  <2>2. \A o \in LockBytes : /\ HoldsW(p, o)' <=> HoldsW(p, o)
                             /\ HoldsR(p, o)' <=> HoldsR(p, o)
    BY <1>2, <1>0, Offsets DEF WalkPast, Goto, Settle, TypeOK, CallFits, HoldsW, HoldsR,
         Writing, chainoff, FREE_OFF, InChain, DelWindow, FreeWindow, Reusing, Appending
  <2> QED BY <1>2, <2>1, <2>2, KeepLocks DEF WalkPast
<1>3. CASE WalkFound(p)
  <2>1. Others(p) /\ SameDat(p)
    BY <1>3, <1>0, Offsets DEF WalkFound, Goto, Settle, Others, SameDat, TypeOK
  <2>2. \A o \in LockBytes : /\ HoldsW(p, o)' <=> HoldsW(p, o)
                             /\ HoldsR(p, o)' <=> HoldsR(p, o)
    BY <1>3, <1>0, Offsets DEF WalkFound, Goto, Settle, TypeOK, CallFits, HoldsW,
         HoldsR, Writing, chainoff, FREE_OFF, InChain, DelWindow, FreeWindow, Reusing,
         Appending
  <2> QED BY <1>3, <2>1, <2>2, KeepLocks DEF WalkFound
<1>4. CASE WalkMissing(p)
  <2>1. Others(p) /\ SameDat(p)
    BY <1>4, <1>0, Offsets DEF WalkMissing, Goto, Settle, Others, SameDat, TypeOK
  <2>2. \A o \in LockBytes : /\ HoldsW(p, o)' <=> HoldsW(p, o)
                             /\ HoldsR(p, o)' <=> HoldsR(p, o)
    BY <1>4, <1>0, Offsets DEF WalkMissing, Goto, Settle, TypeOK, CallFits, HoldsW,
         HoldsR, Writing, chainoff, FREE_OFF, InChain, DelWindow, FreeWindow, Reusing,
         Appending
  <2> QED BY <1>4, <2>1, <2>2, KeepLocks DEF WalkMissing
<1>5. CASE FetchDat(p)
  <2>1. Others(p) /\ SameDat(p)
    BY <1>5, <1>0, Offsets DEF FetchDat, Goto, Settle, Others, SameDat, TypeOK
  <2>2. \A o \in LockBytes : /\ HoldsW(p, o)' <=> HoldsW(p, o)
                             /\ HoldsR(p, o)' <=> HoldsR(p, o)
    BY <1>5, <1>0, Offsets DEF FetchDat, Goto, Settle, TypeOK, CallFits, HoldsW, HoldsR,
         Writing, chainoff, FREE_OFF, InChain, DelWindow, FreeWindow, Reusing, Appending
  <2> QED BY <1>5, <2>1, <2>2, KeepLocks DEF FetchDat
<1>6. CASE DoReturn(p)
  <2>1. Others(p) /\ SameDat(p) /\ chainoff(p) \in LockBytes
    BY <1>6, <1>0, Offsets DEF DoReturn, Goto, Settle, Others, SameDat, TypeOK, InChain
  <2>2. \A o \in LockBytes : /\ HoldsW(p, o)' <=> HoldsW(p, o) /\ o # chainoff(p)
                             /\ HoldsR(p, o)' <=> HoldsR(p, o) /\ o # chainoff(p)
    BY <1>6, <1>0, Offsets DEF DoReturn, Goto, Settle, TypeOK, CallFits, HoldsW, HoldsR,
         Writing, chainoff, FREE_OFF, InChain, DelWindow, FreeWindow, Reusing, Appending
  <2> QED BY <1>6, <2>1, <2>2, ReleaseLock DEF DoReturn
<1> QED BY <1>1, <1>2, <1>3, <1>4, <1>5, <1>6 DEF Fetch

\* The steps of _db_dodelete, which takes the free list's lock inside the chain's,
\* keep the discipline.
LEMMA DeleteLocks ==
  ASSUME TypeOK, LockDiscipline, NEW p \in Procs, Delete(p)
  PROVE  LockDiscipline'
<1>0. pc[p] \in InChain \cup {"find"} =>
        /\ chainoff(p) \in LockBytes
        /\ chainoff(p) # FREE_OFF /\ chainoff(p) # REC_OFF
  BY ChainOff DEF TypeOK, CallFits
<1>1. CASE DelDat(p)
  <2>1. Others(p) /\ SameDat(p) /\ FREE_OFF \in LockBytes
    BY <1>1, <1>0, Offsets DEF DelDat, Goto, Settle, Others, SameDat, TypeOK
  <2>2. \A o \in LockBytes : /\ HoldsW(p, o)' <=> HoldsW(p, o) \/ o = FREE_OFF
                             /\ HoldsR(p, o)' <=> HoldsR(p, o)
    BY <1>1, <1>0, Offsets DEF DelDat, Goto, Settle, TypeOK, CallFits, HoldsW, HoldsR,
         Writing, chainoff, FREE_OFF, InChain, DelWindow, FreeWindow, Reusing, Appending
  <2> QED BY <1>1, <2>1, <2>2, TakeWriteLock DEF DelDat
<1>2. CASE DelReadFree(p)
  <2>1. Others(p) /\ SameDat(p)
    BY <1>2, <1>0, Offsets DEF DelReadFree, Goto, Settle, Others, SameDat, TypeOK
  <2>2. \A o \in LockBytes : /\ HoldsW(p, o)' <=> HoldsW(p, o)
                             /\ HoldsR(p, o)' <=> HoldsR(p, o)
    BY <1>2, <1>0, Offsets DEF DelReadFree, Goto, Settle, TypeOK, CallFits, HoldsW,
         HoldsR, Writing, chainoff, FREE_OFF, InChain, DelWindow, FreeWindow, Reusing,
         Appending
  <2> QED BY <1>2, <2>1, <2>2, KeepLocks DEF DelReadFree
<1>3. CASE DelIdx(p)
  <2>1. Others(p) /\ SameDat(p)
    BY <1>3, <1>0, Offsets DEF DelIdx, Goto, Settle, Others, SameDat, TypeOK
  <2>2. \A o \in LockBytes : /\ HoldsW(p, o)' <=> HoldsW(p, o)
                             /\ HoldsR(p, o)' <=> HoldsR(p, o)
    BY <1>3, <1>0, Offsets DEF DelIdx, Goto, Settle, TypeOK, CallFits, HoldsW, HoldsR,
         Writing, chainoff, FREE_OFF, InChain, DelWindow, FreeWindow, Reusing, Appending
  <2> QED BY <1>3, <2>1, <2>2, KeepLocks DEF DelIdx
<1>4. CASE DelFree(p)
  <2>1. Others(p) /\ SameDat(p)
    BY <1>4, <1>0, Offsets DEF DelFree, Goto, Settle, Others, SameDat, TypeOK
  <2>2. \A o \in LockBytes : /\ HoldsW(p, o)' <=> HoldsW(p, o)
                             /\ HoldsR(p, o)' <=> HoldsR(p, o)
    BY <1>4, <1>0, Offsets DEF DelFree, Goto, Settle, TypeOK, CallFits, HoldsW, HoldsR,
         Writing, chainoff, FREE_OFF, InChain, DelWindow, FreeWindow, Reusing, Appending
  <2> QED BY <1>4, <2>1, <2>2, KeepLocks DEF DelFree
<1>5. CASE DelChain(p)
  <2>1. Others(p) /\ SameDat(p) /\ FREE_OFF \in LockBytes
    BY <1>5, <1>0, Offsets DEF DelChain, Goto, Settle, Others, SameDat, TypeOK
  <2>2. \A o \in LockBytes : /\ HoldsW(p, o)' <=> HoldsW(p, o) /\ o # FREE_OFF
                             /\ HoldsR(p, o)' <=> HoldsR(p, o) /\ o # FREE_OFF
    BY <1>5, <1>0, Offsets DEF DelChain, Goto, Settle, TypeOK, CallFits, HoldsW, HoldsR,
         Writing, chainoff, FREE_OFF, InChain, DelWindow, FreeWindow, Reusing, Appending
  <2> QED BY <1>5, <2>1, <2>2, ReleaseLock DEF DelChain
<1> QED BY <1>1, <1>2, <1>3, <1>4, <1>5 DEF Delete

\* The steps of db_store and of _db_findfree keep the discipline.
LEMMA StoreLocks ==
  ASSUME TypeOK, LockDiscipline, NEW p \in Procs, Store(p)
  PROVE  LockDiscipline'
<1>0. pc[p] \in InChain \cup {"find"} =>
        /\ chainoff(p) \in LockBytes
        /\ chainoff(p) # FREE_OFF /\ chainoff(p) # REC_OFF
  BY ChainOff DEF TypeOK, CallFits
<1>1. CASE OverDat(p)
  <2>1. Others(p) /\ SameDat(p)
    BY <1>1, <1>0, Offsets DEF OverDat, Goto, Settle, Others, SameDat, TypeOK
  <2>2. \A o \in LockBytes : /\ HoldsW(p, o)' <=> HoldsW(p, o)
                             /\ HoldsR(p, o)' <=> HoldsR(p, o)
    BY <1>1, <1>0, Offsets DEF OverDat, Goto, Settle, TypeOK, CallFits, HoldsW, HoldsR,
         Writing, chainoff, FREE_OFF, InChain, DelWindow, FreeWindow, Reusing, Appending
  <2> QED BY <1>1, <2>1, <2>2, KeepLocks DEF OverDat
<1>2. CASE ReadHead(p)
  <2>1. Others(p) /\ SameDat(p)
    BY <1>2, <1>0, Offsets DEF ReadHead, Goto, Settle, Others, SameDat, TypeOK
  <2>2. \A o \in LockBytes : /\ HoldsW(p, o)' <=> HoldsW(p, o)
                             /\ HoldsR(p, o)' <=> HoldsR(p, o)
    BY <1>2, <1>0, Offsets DEF ReadHead, Goto, Settle, TypeOK, CallFits, HoldsW, HoldsR,
         Writing, chainoff, FREE_OFF, InChain, DelWindow, FreeWindow, Reusing, Appending
  <2> QED BY <1>2, <2>1, <2>2, KeepLocks DEF ReadHead
<1>3. CASE FindFree(p)
  <2>1. Others(p) /\ SameDat(p) /\ FREE_OFF \in LockBytes
    BY <1>3, <1>0, Offsets DEF FindFree, Goto, Settle, Others, SameDat, TypeOK
  <2>2. \A o \in LockBytes : /\ HoldsW(p, o)' <=> HoldsW(p, o) \/ o = FREE_OFF
                             /\ HoldsR(p, o)' <=> HoldsR(p, o)
    BY <1>3, <1>0, Offsets DEF FindFree, Goto, Settle, TypeOK, CallFits, HoldsW, HoldsR,
         Writing, chainoff, FREE_OFF, InChain, DelWindow, FreeWindow, Reusing, Appending
  <2> QED BY <1>3, <2>1, <2>2, TakeWriteLock DEF FindFree
<1>4. CASE FreePast(p)
  <2>1. Others(p) /\ SameDat(p)
    BY <1>4, <1>0, Offsets DEF FreePast, Goto, Settle, Others, SameDat, TypeOK
  <2>2. \A o \in LockBytes : /\ HoldsW(p, o)' <=> HoldsW(p, o)
                             /\ HoldsR(p, o)' <=> HoldsR(p, o)
    BY <1>4, <1>0, Offsets DEF FreePast, Goto, Settle, TypeOK, CallFits, HoldsW, HoldsR,
         Writing, chainoff, FREE_OFF, InChain, DelWindow, FreeWindow, Reusing, Appending
  <2> QED BY <1>4, <2>1, <2>2, KeepLocks DEF FreePast
<1>5. CASE FreeFound(p)
  <2>1. Others(p) /\ SameDat(p)
    BY <1>5, <1>0, Offsets DEF FreeFound, Goto, Settle, Others, SameDat, TypeOK
  <2>2. \A o \in LockBytes : /\ HoldsW(p, o)' <=> HoldsW(p, o)
                             /\ HoldsR(p, o)' <=> HoldsR(p, o)
    BY <1>5, <1>0, Offsets DEF FreeFound, Goto, Settle, TypeOK, CallFits, HoldsW,
         HoldsR, Writing, chainoff, FREE_OFF, InChain, DelWindow, FreeWindow, Reusing,
         Appending
  <2> QED BY <1>5, <2>1, <2>2, KeepLocks DEF FreeFound
<1>6. CASE FreeMissing(p)
  <2>1. Others(p) /\ SameDat(p) /\ FREE_OFF \in LockBytes
    BY <1>6, <1>0, Offsets DEF FreeMissing, Goto, Settle, Others, SameDat, TypeOK
  <2>2. \A o \in LockBytes : /\ HoldsW(p, o)' <=> HoldsW(p, o) /\ o # FREE_OFF
                             /\ HoldsR(p, o)' <=> HoldsR(p, o) /\ o # FREE_OFF
    BY <1>6, <1>0, Offsets DEF FreeMissing, Goto, Settle, TypeOK, CallFits, HoldsW,
         HoldsR, Writing, chainoff, FREE_OFF, InChain, DelWindow, FreeWindow, Reusing,
         Appending
  <2> QED BY <1>6, <2>1, <2>2, ReleaseLock DEF FreeMissing
<1>7. CASE FreeTake(p)
  <2>1. Others(p) /\ SameDat(p) /\ FREE_OFF \in LockBytes
    BY <1>7, <1>0, Offsets DEF FreeTake, Goto, Settle, Others, SameDat, TypeOK
  <2>2. \A o \in LockBytes : /\ HoldsW(p, o)' <=> HoldsW(p, o) /\ o # FREE_OFF
                             /\ HoldsR(p, o)' <=> HoldsR(p, o) /\ o # FREE_OFF
    BY <1>7, <1>0, Offsets DEF FreeTake, Goto, Settle, TypeOK, CallFits, HoldsW, HoldsR,
         Writing, chainoff, FREE_OFF, InChain, DelWindow, FreeWindow, Reusing, Appending
  <2> QED BY <1>7, <2>1, <2>2, ReleaseLock DEF FreeTake
<1>8. CASE ReuseDat(p)
  <2>1. Others(p) /\ SameDat(p)
    BY <1>8, <1>0, Offsets DEF ReuseDat, Goto, Settle, Others, SameDat, TypeOK
  <2>2. \A o \in LockBytes : /\ HoldsW(p, o)' <=> HoldsW(p, o)
                             /\ HoldsR(p, o)' <=> HoldsR(p, o)
    BY <1>8, <1>0, Offsets DEF ReuseDat, Goto, Settle, TypeOK, CallFits, HoldsW, HoldsR,
         Writing, chainoff, FREE_OFF, InChain, DelWindow, FreeWindow, Reusing, Appending
  <2> QED BY <1>8, <2>1, <2>2, KeepLocks DEF ReuseDat
<1>9. CASE ReuseIdx(p)
  <2>1. Others(p) /\ SameDat(p)
    BY <1>9, <1>0, Offsets DEF ReuseIdx, Goto, Settle, Others, SameDat, TypeOK
  <2>2. \A o \in LockBytes : /\ HoldsW(p, o)' <=> HoldsW(p, o)
                             /\ HoldsR(p, o)' <=> HoldsR(p, o)
    BY <1>9, <1>0, Offsets DEF ReuseIdx, Goto, Settle, TypeOK, CallFits, HoldsW, HoldsR,
         Writing, chainoff, FREE_OFF, InChain, DelWindow, FreeWindow, Reusing, Appending
  <2> QED BY <1>9, <2>1, <2>2, KeepLocks DEF ReuseIdx
<1>10. CASE AppendDatSeek(p)
  <2>1. Others(p) /\ (pc'[p] = "app_dat" <=> TRUE)
    BY <1>10 DEF AppendDatSeek, Goto, Others, TypeOK
  <2>2. \A o \in LockBytes : /\ HoldsW(p, o)' <=> HoldsW(p, o)
                             /\ HoldsR(p, o)' <=> HoldsR(p, o)
    BY <1>10 DEF AppendDatSeek, Goto, TypeOK, CallFits, HoldsW, HoldsR, Writing,
         chainoff, FREE_OFF, InChain, DelWindow, FreeWindow, Reusing, Appending
  <2>3. \A q \in Procs, o \in LockBytes : /\ lockW'[o] = q <=> HoldsW(q, o)'
                                          /\ q \in lockR'[o] <=> HoldsR(q, o)'
    BY <1>10, <2>1, <2>2, HoldsFrame DEF AppendDatSeek, writew_lock_dat, un_lock_dat,
         LockDiscipline
  <2>4. \A q \in Procs : datlock' = q <=> pc'[q] = "app_dat"
    BY <1>10, <2>1, DbAssumption DEF AppendDatSeek, Goto, writew_lock_dat, un_lock_dat,
         LockDiscipline, Others
  <2> QED BY <1>10, <2>3, <2>4 DEF AppendDatSeek, writew_lock_dat, un_lock_dat,
       LockDiscipline
<1>11. CASE AppendDat(p)
  <2>1. Others(p) /\ (pc'[p] = "app_dat" <=> FALSE)
    BY <1>11 DEF AppendDat, Goto, Others, TypeOK
  <2>2. \A o \in LockBytes : /\ HoldsW(p, o)' <=> HoldsW(p, o)
                             /\ HoldsR(p, o)' <=> HoldsR(p, o)
    BY <1>11 DEF AppendDat, Goto, TypeOK, CallFits, HoldsW, HoldsR, Writing, chainoff,
         FREE_OFF, InChain, DelWindow, FreeWindow, Reusing, Appending
  <2>3. \A q \in Procs, o \in LockBytes : /\ lockW'[o] = q <=> HoldsW(q, o)'
                                          /\ q \in lockR'[o] <=> HoldsR(q, o)'
    BY <1>11, <2>1, <2>2, HoldsFrame DEF AppendDat, writew_lock_dat, un_lock_dat,
         LockDiscipline
  <2>4. \A q \in Procs : datlock' = q <=> pc'[q] = "app_dat"
    BY <1>11, <2>1, DbAssumption DEF AppendDat, Goto, writew_lock_dat, un_lock_dat,
         LockDiscipline, Others
  <2> QED BY <1>11, <2>3, <2>4 DEF AppendDat, writew_lock_dat, un_lock_dat, LockDiscipline
<1>12. CASE AppendIdxSeek(p)
  <2>1. Others(p) /\ SameDat(p) /\ REC_OFF \in LockBytes
    BY <1>12, <1>0, Offsets DEF AppendIdxSeek, Goto, Settle, Others, SameDat, TypeOK
  <2>2. \A o \in LockBytes : /\ HoldsW(p, o)' <=> HoldsW(p, o) \/ o = REC_OFF
                             /\ HoldsR(p, o)' <=> HoldsR(p, o)
    BY <1>12, <1>0, Offsets DEF AppendIdxSeek, Goto, Settle, TypeOK, CallFits, HoldsW,
         HoldsR, Writing, chainoff, FREE_OFF, InChain, DelWindow, FreeWindow, Reusing,
         Appending
  <2> QED BY <1>12, <2>1, <2>2, TakeWriteLock DEF AppendIdxSeek
<1>13. CASE AppendIdx(p)
  <2>1. Others(p) /\ SameDat(p) /\ REC_OFF \in LockBytes
    BY <1>13, <1>0, Offsets DEF AppendIdx, Goto, Settle, Others, SameDat, TypeOK
  <2>2. \A o \in LockBytes : /\ HoldsW(p, o)' <=> HoldsW(p, o) /\ o # REC_OFF
                             /\ HoldsR(p, o)' <=> HoldsR(p, o) /\ o # REC_OFF
    BY <1>13, <1>0, Offsets DEF AppendIdx, Goto, Settle, TypeOK, CallFits, HoldsW,
         HoldsR, Writing, chainoff, FREE_OFF, InChain, DelWindow, FreeWindow, Reusing,
         Appending
  <2> QED BY <1>13, <2>1, <2>2, ReleaseLock DEF AppendIdx
<1>14. CASE AppendNoSpace(p)
  BY <1>14, ExitLocks DEF AppendNoSpace
<1>15. CASE Commit(p)
  <2>1. Others(p) /\ SameDat(p)
    BY <1>15, <1>0, Offsets DEF Commit, Goto, Settle, Others, SameDat, TypeOK
  <2>2. \A o \in LockBytes : /\ HoldsW(p, o)' <=> HoldsW(p, o)
                             /\ HoldsR(p, o)' <=> HoldsR(p, o)
    BY <1>15, <1>0, Offsets DEF Commit, Goto, Settle, TypeOK, CallFits, HoldsW, HoldsR,
         Writing, chainoff, FREE_OFF, InChain, DelWindow, FreeWindow, Reusing, Appending
  <2> QED BY <1>15, <2>1, <2>2, KeepLocks DEF Commit
<1>16. CASE CommitTooFar(p)
  BY <1>16, ExitLocks DEF CommitTooFar
<1> QED BY <1>1, <1>2, <1>3, <1>4, <1>5, <1>6, <1>7, <1>8, <1>9, <1>10, <1>11, <1>12,
     <1>13, <1>14, <1>15, <1>16 DEF Store

\* The steps of db_nextrec, which holds the free list's read lock, keep it.
LEMMA NextRecLocks ==
  ASSUME TypeOK, LockDiscipline, NEW p \in Procs, NextRec(p)
  PROVE  LockDiscipline'
<1>0. pc[p] \in InChain \cup {"find"} =>
        /\ chainoff(p) \in LockBytes
        /\ chainoff(p) # FREE_OFF /\ chainoff(p) # REC_OFF
  BY ChainOff DEF TypeOK, CallFits
<1>1. CASE NextLock(p)
  <2>1. Others(p) /\ SameDat(p) /\ FREE_OFF \in LockBytes
    BY <1>1, <1>0, Offsets DEF NextLock, Goto, Settle, Others, SameDat, TypeOK
  <2>2. \A o \in LockBytes : /\ HoldsW(p, o)' <=> HoldsW(p, o)
                             /\ HoldsR(p, o)' <=> HoldsR(p, o) \/ o = FREE_OFF
    BY <1>1, <1>0, Offsets DEF NextLock, Goto, Settle, TypeOK, CallFits, HoldsW, HoldsR,
         Writing, chainoff, FREE_OFF, InChain, DelWindow, FreeWindow, Reusing, Appending
  <2>3. ~HoldsW(p, FREE_OFF)
    BY <1>1, <1>0, Offsets DEF NextLock, Goto, TypeOK, CallFits, HoldsW, HoldsR,
         Writing, chainoff, FREE_OFF, InChain, DelWindow, FreeWindow, Reusing, Appending
  <2> QED BY <1>1, <2>1, <2>2, <2>3, TakeReadLock DEF NextLock
<1>2. CASE NextPast(p)
  <2>1. Others(p) /\ SameDat(p)
    BY <1>2, <1>0, Offsets DEF NextPast, Goto, Settle, Others, SameDat, TypeOK
  <2>2. \A o \in LockBytes : /\ HoldsW(p, o)' <=> HoldsW(p, o)
                             /\ HoldsR(p, o)' <=> HoldsR(p, o)
    BY <1>2, <1>0, Offsets DEF NextPast, Goto, Settle, TypeOK, CallFits, HoldsW, HoldsR,
         Writing, chainoff, FREE_OFF, InChain, DelWindow, FreeWindow, Reusing, Appending
  <2> QED BY <1>2, <2>1, <2>2, KeepLocks DEF NextPast
<1>3. CASE NextFound(p)
  <2>1. Others(p) /\ SameDat(p)
    BY <1>3, <1>0, Offsets DEF NextFound, Goto, Settle, Others, SameDat, TypeOK
  <2>2. \A o \in LockBytes : /\ HoldsW(p, o)' <=> HoldsW(p, o)
                             /\ HoldsR(p, o)' <=> HoldsR(p, o)
    BY <1>3, <1>0, Offsets DEF NextFound, Goto, Settle, TypeOK, CallFits, HoldsW,
         HoldsR, Writing, chainoff, FREE_OFF, InChain, DelWindow, FreeWindow, Reusing,
         Appending
  <2> QED BY <1>3, <2>1, <2>2, KeepLocks DEF NextFound
<1>4. CASE NextEof(p)
  <2>1. Others(p) /\ SameDat(p) /\ FREE_OFF \in LockBytes
    BY <1>4, <1>0, Offsets DEF NextEof, Goto, Settle, Others, SameDat, TypeOK
  <2>2. \A o \in LockBytes : /\ HoldsW(p, o)' <=> HoldsW(p, o) /\ o # FREE_OFF
                             /\ HoldsR(p, o)' <=> HoldsR(p, o) /\ o # FREE_OFF
    BY <1>4, <1>0, Offsets DEF NextEof, Goto, Settle, TypeOK, CallFits, HoldsW, HoldsR,
         Writing, chainoff, FREE_OFF, InChain, DelWindow, FreeWindow, Reusing, Appending
  <2> QED BY <1>4, <2>1, <2>2, ReleaseLock DEF NextEof
<1>5. CASE NextDat(p)
  <2>1. Others(p) /\ SameDat(p) /\ FREE_OFF \in LockBytes
    BY <1>5, <1>0, Offsets DEF NextDat, Goto, Settle, Others, SameDat, TypeOK
  <2>2. \A o \in LockBytes : /\ HoldsW(p, o)' <=> HoldsW(p, o) /\ o # FREE_OFF
                             /\ HoldsR(p, o)' <=> HoldsR(p, o) /\ o # FREE_OFF
    BY <1>5, <1>0, Offsets DEF NextDat, Goto, Settle, TypeOK, CallFits, HoldsW, HoldsR,
         Writing, chainoff, FREE_OFF, InChain, DelWindow, FreeWindow, Reusing, Appending
  <2> QED BY <1>5, <2>1, <2>2, ReleaseLock DEF NextDat
<1>6. CASE NextAstray(p)
  BY <1>6, ExitLocks DEF NextAstray
<1> QED BY <1>1, <1>2, <1>3, <1>4, <1>5, <1>6 DEF NextRec

\* Entering a call takes no lock.
LEMMA StartLocks ==
  ASSUME TypeOK, LockDiscipline, NEW p \in Procs, Start(p)
  PROVE  LockDiscipline'
<1> PICK c \in Calls[p] : Begin(p, c) \/ StoreInvalid(p, c) \/ db_rewind(p, c)
  BY DEF Start
<1>1. Others(p) /\ SameDat(p) /\ UNCHANGED locks /\ pc[p] = "idle"
      /\ pc'[p] \in {"idle", "find", "next_lock"}
  BY DEF Begin, StoreInvalid, db_rewind, Others, SameDat, TypeOK
<1>2. \A o \in LockBytes : /\ HoldsW(p, o)' <=> HoldsW(p, o)
                           /\ HoldsR(p, o)' <=> HoldsR(p, o)
  BY <1>1 DEF HoldsW, HoldsR, Writing, chainoff, FREE_OFF, InChain, DelWindow,
       FreeWindow, Reusing, Appending
<1> QED BY <1>1, <1>2, KeepLocks

\* No lock is held after db_open.
LEMMA InitLocks == Init => LockDiscipline
BY DbAssumption DEF Init, LockDiscipline, HoldsW, HoldsR, Writing, InChain, DelWindow,
     FreeWindow, Reusing, Appending

LockInv == TypeOK /\ LockDiscipline

\* A step keeps types and lock discipline.
LEMMA LockStep == LockInv /\ [Next]_vars => LockInv'
<1> SUFFICES ASSUME TypeOK, LockDiscipline, [Next]_vars PROVE LockInv'
  BY DEF LockInv
<1>1. TypeOK'
  BY TypeStep
<1>2. CASE UNCHANGED vars
  BY <1>1, <1>2 DEF LockInv, vars, LockDiscipline, HoldsW, HoldsR, Writing, chainoff
<1>3. ASSUME NEW p \in Procs, Start(p) \/ Step(p) \/ Crash(p) PROVE LockDiscipline'
  BY <1>3, StartLocks, FetchLocks, DeleteLocks, StoreLocks, NextRecLocks, ExitLocks
     DEF Step, Crash
<1> QED BY <1>1, <1>2, <1>3 DEF Next, LockInv

\* Types and lock discipline together are inductive.
LEMMA LockInvariance == Spec => []LockInv
<1>1. Init => LockInv
  BY InitTypeOK, InitLocks DEF LockInv
<1> QED BY <1>1, LockStep, PTL DEF Spec

\* Locks are held exactly between the calls that take and release them, and
\* no reader shares a byte with a writer, even when processes are killed.
THEOREM LocksKept == Spec => []LockDiscipline
<1>1. LockInv => LockDiscipline
  BY DEF LockInv
<1> QED BY <1>1, LockInvariance, PTL

\* Two processes on a chain of which one writes cannot both have the chain's lock.
LEMMA ChainsApart == LockInv => ChainExclusion
<1> SUFFICES ASSUME LockInv, NEW p \in Procs, NEW q \in Procs, p # q,
                    Writing(p), pc[q] \in InChain, chainoff(p) = chainoff(q)
             PROVE  FALSE
  BY DEF ChainExclusion
<1>1. chainoff(p) \in LockBytes
  BY ChainOff DEF LockInv, TypeOK, CallFits, Writing
<1>2. lockW[chainoff(p)] = p
  BY <1>1 DEF LockInv, LockDiscipline, HoldsW
<1>3. CASE call[q].kind = "fetch"
  <2>1. q \in lockR[chainoff(p)]
    BY <1>1, <1>3 DEF LockInv, LockDiscipline, HoldsR
  <2>2. p # Nobody
    BY DbAssumption
  <2> QED BY <1>1, <1>2, <2>1, <2>2 DEF LockInv, LockDiscipline
<1>4. CASE call[q].kind # "fetch"
  BY <1>1, <1>2, <1>4 DEF LockInv, LockDiscipline, HoldsW, Writing
<1> QED BY <1>3, <1>4

\* A process that has found its place on a hash chain for a store or a
\* deletion is alone there until it has released the chain.
THEOREM OneWriterPerChain == Spec => []ChainExclusion
BY ChainsApart, LockInvariance, PTL

\* Two processes at the free list cannot both have its lock.
LEMMA FreeListApart == LockInv => FreeListExclusion
<1> SUFFICES ASSUME LockInv, NEW p \in Procs, NEW q \in Procs, p # q,
                    pc[p] \in DelWindow \cup FreeWindow,
                    pc[q] \in DelWindow \cup FreeWindow \cup {"next_idx", "next_dat"}
             PROVE  FALSE
  BY DEF FreeListExclusion
<1>1. FREE_OFF \in LockBytes /\ lockW[FREE_OFF] = p
  BY Offsets DEF LockInv, LockDiscipline, HoldsW
<1>2. lockW[FREE_OFF] = q \/ q \in lockR[FREE_OFF]
  BY Offsets DEF LockInv, LockDiscipline, HoldsW, HoldsR
<1> QED BY <1>1, <1>2, DbAssumption DEF LockInv, LockDiscipline

\* The free list and the blanking of deleted records belong to one process at
\* a time, and to none while db_nextrec is between its two reads.
THEOREM OneFreeListWriter == Spec => []FreeListExclusion
BY FreeListApart, LockInvariance, PTL
-----------------------------------------------------------------------------
(* The lists.                                                              *)

\* No process is killed between the first and the last write of a deletion.
DeletionsEnd == CrashAt \cap DelWindow = {}

-----------------------------------------------------------------------------
(* The inductive invariant.  The lists are described by two functions that *)
(* the program does not have: own, the list that a cell is in, and rk, its *)
(* rank, which falls along the list.  A pointer leads to the record of the *)
(* same list with the next lower rank.                                     *)

Heads == 0 .. (REC_OFF - 1)               \* the free list and the hash table
HashHeads == HASH_OFF .. (REC_OFF - 1)
Off == REC_OFF                            \* own[r] of a record in no list

LinkF == [c \in Cells |-> Link(c)]

\* x is the record that comes after rank n in list o, 0 if none does.
After(own, rk, o, n, x) ==
  \/ x = 0 /\ \A s \in Recs : own[s] = o => rk[s] >= n
  \/ /\ x \in Recs /\ own[x] = o /\ rk[x] < n
     /\ \A s \in Recs : own[s] = o /\ rk[s] < n => rk[s] <= rk[x]

Sorted(link, own, rk) ==
  /\ link \in [Cells -> Ptrs]
  /\ own \in [Cells -> 0 .. REC_OFF]
  /\ rk \in [Cells -> Nat]
  /\ \A o \in Heads : own[o] = o
  /\ \A r \in Recs : own[r] # Off => rk[r] < rk[own[r]]
  /\ \A r, s \in Recs : own[r] # Off /\ own[s] = own[r] /\ rk[s] = rk[r] => s = r
  /\ \A c \in Cells : own[c] # Off => After(own, rk, own[c], rk[c], link[c])

\* What the index file says of the records in the lists.
Listed(own) ==
  /\ \A r \in Recs : own[r] # Off => r < idxend
  /\ \A r \in Recs : own[r] \in HashHeads =>
       /\ rec[r].key \in Keys /\ own[r] = HASH_OFF + Hash[rec[r].key]
       /\ rec[r].klen = KeyLen[rec[r].key]
       /\ dat[rec[r].datoff].val # NoVal
  /\ \A r, s \in Recs : own[r] \in HashHeads /\ own[s] \in HashHeads
                          /\ rec[s].key = rec[r].key => s = r
  /\ \A r \in Recs : own[r] = FREE_OFF =>
       rec[r].key = NoKey /\ dat[rec[r].datoff].val = NoVal

\* Every record of the index file has its own data, of the length it says.
DataOwned ==
  /\ \A r \in Recs : r < idxend =>
       rec[r].datoff < datend /\ dat[rec[r].datoff].len = rec[r].datlen
  /\ \A r, s \in Recs : r < idxend /\ s < idxend /\ rec[s].datoff = rec[r].datoff => s = r

NewDat(p) == [val |-> call[p].val, len |-> DatLen[call[p].val]]

\* The chain of p's call holds no record with its key.
Missing(own, p) == \A r \in Recs : own[r] = chainoff(p) => rec[r].key # call[p].key

\* The search is at a place of the chain, and the key is not before it.
Searching(own, rk, p) ==
  pc[p] = "walk" =>
    /\ own[h[p].ptroff] = chainoff(p)
    /\ Link(h[p].ptroff) = h[p].offset
    /\ \A r \in Recs : own[r] = chainoff(p) /\ rk[r] >= rk[h[p].ptroff]
                         => rec[r].key # call[p].key

\* The handle describes the record found.
Reached(own, p) ==
  /\ pc[p] \in {"fetch_dat", "del_dat", "over_dat"} =>
       /\ h[p].idxoff \in Recs /\ own[h[p].idxoff] = chainoff(p)
       /\ rec[h[p].idxoff].key = call[p].key
       /\ h[p].datoff = rec[h[p].idxoff].datoff
  /\ pc[p] = "del_dat" =>
       /\ own[h[p].ptroff] = chainoff(p)
       /\ Link(h[p].ptroff) = h[p].idxoff
       /\ h[p].ptrval = Link(h[p].idxoff)
  /\ pc[p] = "over_dat" => rec[h[p].idxoff].datlen = DatLen[call[p].val]

\* The record being deleted is in no list until it is pushed on the free list.
Deleting(own, p) ==
  /\ pc[p] \in DelWindow =>
       own[h[p].ptroff] = chainoff(p) /\ Missing(own, p)
  /\ pc[p] \in DelWindow \ {"del_chain"} =>
       /\ h[p].idxoff \in Recs /\ h[p].idxoff < idxend /\ own[h[p].idxoff] = Off
       /\ dat[rec[h[p].idxoff].datoff].val = NoVal
  /\ pc[p] \in {"del_idx", "del_free"} => h[p].newptr = Link(FREE_OFF)
  /\ pc[p] = "del_free" =>
       rec[h[p].idxoff].key = NoKey /\ Link(h[p].idxoff) = h[p].newptr

\* A new record's key is not in its chain, whose first record is still the one
\* that the new record will point at.
Storing == {"head", "free_find", "commit"} \cup FreeWindow \cup Reusing \cup Appending
Inserting(own, p) ==
  /\ pc[p] \in Storing => Missing(own, p)
  /\ pc[p] \in Storing \ {"head"} => h[p].newptr = Link(chainoff(p))

\* The search for an empty record is at a place of the free list.
Freeing(own, p) ==
  /\ pc[p] \in FreeWindow => own[h[p].ptroff] = FREE_OFF
  /\ pc[p] = "free_walk" => Link(h[p].ptroff) = h[p].offset
  /\ pc[p] = "free_take" =>
       /\ h[p].idxoff \in Recs /\ Link(h[p].ptroff) = h[p].idxoff
       /\ h[p].ptrval = Link(h[p].idxoff)
       /\ h[p].datoff = rec[h[p].idxoff].datoff
       /\ Fits(p, h[p].idxoff)

\* A record taken from the free list stays blank and of its lengths.
Refilling(own, p) ==
  /\ pc[p] \in Reusing =>
       /\ h[p].idxoff \in Recs /\ h[p].idxoff < idxend /\ own[h[p].idxoff] = Off
       /\ rec[h[p].idxoff].key = NoKey
       /\ h[p].datoff = rec[h[p].idxoff].datoff
       /\ Fits(p, h[p].idxoff)
  /\ pc[p] = "reuse_idx" => dat[h[p].datoff] = NewDat(p)

\* What is appended goes where nothing was.
Growing(p) ==
  /\ pc[p] = "app_dat" => h[p].datoff = datend
  /\ pc[p] \in {"app_idx_seek", "app_idx"} =>
       /\ h[p].datoff < datend /\ dat[h[p].datoff] = NewDat(p)
       /\ \A r \in Recs : r < idxend => rec[r].datoff # h[p].datoff
  /\ pc[p] = "app_idx" => h[p].idxoff \in Recs /\ h[p].idxoff = idxend

\* The record about to become the first of its chain is complete.
Committing(own, p) ==
  pc[p] = "commit" =>
    /\ h[p].idxoff \in Recs /\ h[p].idxoff < idxend /\ own[h[p].idxoff] = Off
    /\ rec[h[p].idxoff] = NewRec(p) /\ dat[h[p].datoff] = NewDat(p)
    /\ Link(h[p].idxoff) = h[p].newptr

\* db_nextrec has read the index record it is going to return.
Scanning(p) ==
  pc[p] = "next_dat" =>
    /\ h[p].idxoff \in Recs /\ h[p].idxoff < idxend
    /\ h[p].kbuf = rec[h[p].idxoff].key /\ h[p].kbuf # NoKey
    /\ h[p].datoff = rec[h[p].idxoff].datoff

AtWork(own, rk, p) ==
  /\ Searching(own, rk, p) /\ Reached(own, p) /\ Deleting(own, p)
  /\ Inserting(own, p) /\ Freeing(own, p) /\ Refilling(own, p)
  /\ Growing(p) /\ Committing(own, p) /\ Scanning(p)

\* No record and no data slot is in the hands of two processes.
Apart ==
  \A p, q \in Procs : p # q =>
    /\ Private(p) \cap Private(q) = {}
    /\ pc[p] \in {"app_idx_seek", "app_idx"} /\ pc[q] \in {"app_idx_seek", "app_idx"}
         => h[p].datoff # h[q].datoff

Alive == \A p \in Procs : pc[p] # "dead"

\* Without a kill each record of the index file is in a list or in the hands
\* of a process.
NoneLost(own) ==
  Alive => \A r \in Recs : r < idxend => own[r] # Off \/ \E p \in Procs : r \in Private(p)

Shape(own, rk) ==
  /\ Sorted(LinkF, own, rk)
  /\ Listed(own) /\ DataOwned
  /\ \A p \in Procs : AtWork(own, rk, p)
  /\ Apart /\ NoneLost(own)

ListInv == \E own \in [Cells -> 0 .. REC_OFF], rk \in [Cells -> Nat] : Shape(own, rk)

-----------------------------------------------------------------------------
(* Natural numbers.                                                        *)

\* A set of natural numbers that is not empty has a least member.
LEMMA LeastNat ==
  ASSUME NEW T, T \subseteq Nat, T # {}
  PROVE  \E n \in T : \A m \in T : n <= m
<1> DEFINE R == {ss \in Nat \X Nat : ss[1] < ss[2]}
<1>1. IsWellFoundedOn(OpToRel(<, Nat), Nat)
  BY NatLessThanWellFounded
<1>2. OpToRel(<, Nat) = R
  BY DEF OpToRel
<1>3. IsWellFoundedOn(R, Nat)
  BY <1>1, <1>2
<1>4. \A x, y \in Nat : <<y, x>> \in R <=> y < x
  OBVIOUS
<1> HIDE DEF R
<1>5. PICK n \in T : \A m \in T : ~(<<m, n>> \in R)
  BY <1>3, WFMin, Zenon
<1>6. \A m \in T : ~(m < n)
  BY <1>4, <1>5
<1> QED BY <1>5, <1>6

-----------------------------------------------------------------------------
(* Lists described by owners and ranks.                                    *)

\* Cells are the heads of the lists and the records.
LEMMA CellKinds ==
  /\ Cells = Heads \cup Recs /\ Heads \cap Recs = {} /\ Off \notin Heads
  /\ FREE_OFF \in Heads /\ HashHeads \subseteq Heads /\ FREE_OFF \notin HashHeads
  /\ Heads = {FREE_OFF} \cup HashHeads /\ 0 \notin Recs
  /\ \A o \in 0 .. REC_OFF : o = Off \/ o = FREE_OFF \/ o \in HashHeads
  /\ Cells \subseteq Nat /\ FREE_OFF = 0 /\ Off \in 0 .. REC_OFF /\ Heads \subseteq 0 .. REC_OFF
BY Offsets, Sizes DEF Cells, Heads, Recs, Off, HashHeads, FREE_OFF, HASH_OFF, REC_OFF

\* The parts of Sorted about one cell: its rank is below its list's head's, and
\* what it points at is in the same list, lower, with nothing in between.
LEMMA SortedCell ==
  ASSUME NEW link, NEW own, NEW rk, Sorted(link, own, rk), NEW c \in Cells, own[c] # Off
  PROVE  /\ own[c] \in Heads /\ rk[c] \in Nat /\ link[c] \in Ptrs
         /\ own[own[c]] = own[c]
         /\ rk[c] <= rk[own[c]]
         /\ link[c] # 0 => /\ link[c] \in Recs /\ own[link[c]] = own[c]
                           /\ rk[link[c]] \in Nat /\ rk[link[c]] < rk[c]
         /\ \A s \in Recs : own[s] = own[c] /\ rk[s] < rk[c] =>
              link[c] \in Recs /\ rk[s] <= rk[link[c]]
<1>1. own[c] \in 0 .. REC_OFF /\ own[c] \in Heads
  BY CellKinds DEF Sorted, Heads, HashHeads
<1>2. rk[c] \in Nat /\ link[c] \in Ptrs
  BY DEF Sorted
<1>3. own[own[c]] = own[c]
  BY <1>1 DEF Sorted
<1>4. rk[c] <= rk[own[c]]
  <2>1. CASE c \in Recs
    BY <2>1, <1>2, <1>1, CellKinds DEF Sorted
  <2>2. CASE c \in Heads
    <3>1. own[c] = c
      BY <2>2 DEF Sorted
    <3> QED BY <3>1, <1>2
  <2> QED BY <2>1, <2>2, CellKinds
<1>5. After(own, rk, own[c], rk[c], link[c])
  BY DEF Sorted
<1>6. link[c] # 0 => /\ link[c] \in Recs /\ own[link[c]] = own[c]
                     /\ rk[link[c]] \in Nat /\ rk[link[c]] < rk[c]
  BY <1>5, CellKinds DEF After, Sorted
<1>7. \A s \in Recs : own[s] = own[c] /\ rk[s] < rk[c] => link[c] \in Recs /\ rk[s] <= rk[link[c]]
  <2> TAKE s \in Recs
  <2>1. rk[s] \in Nat
    BY CellKinds DEF Sorted
  <2> QED BY <1>5, <1>2, <2>1 DEF After
<1> QED BY <1>1, <1>2, <1>3, <1>4, <1>6, <1>7

\* Only one cell points at a record of a list.
LEMMA OneReferrer ==
  ASSUME NEW link, NEW own, NEW rk, Sorted(link, own, rk),
         NEW c \in Cells, NEW d \in Cells, own[c] # Off, own[d] # Off,
         link[c] = link[d], link[c] # 0
  PROVE  c = d
<1> SUFFICES ASSUME c # d PROVE FALSE
  OBVIOUS
<1>1. own[c] = own[d] /\ link[c] \in Recs
  BY SortedCell
<1>2. rk[link[c]] \in Nat /\ rk[link[c]] < rk[c] /\ rk[link[c]] < rk[d] /\ rk[c] \in Nat /\ rk[d] \in Nat
  BY SortedCell
<1>3. \A e \in Cells : e \in Recs /\ own[e] = own[c] =>
        (~(rk[e] < rk[c]) /\ ~(rk[e] < rk[d])) \/ rk[e] <= rk[link[c]]
  BY <1>1, SortedCell
<1>4. ~(c \in Recs /\ rk[c] < rk[d]) /\ ~(d \in Recs /\ rk[d] < rk[c])
  BY <1>1, <1>2, <1>3
<1>5. \A e \in Cells : e \in Heads => own[e] = e
  BY DEF Sorted
<1>6. CASE c \in Recs /\ d \in Recs
  <2>1. rk[c] = rk[d]
    BY <1>6, <1>4, <1>2
  <2> QED BY <2>1, <1>6, <1>1 DEF Sorted
<1>7. CASE c \in Recs /\ d \in Heads
  <2>1. rk[c] < rk[own[c]] /\ own[c] = d
    BY <1>7, <1>1, <1>5 DEF Sorted
  <2> QED BY <2>1, <1>7, <1>4
<1>8. CASE d \in Recs /\ c \in Heads
  <2>1. rk[d] < rk[own[d]] /\ own[d] = c
    BY <1>8, <1>1, <1>5 DEF Sorted
  <2> QED BY <2>1, <1>8, <1>4
<1>9. CASE c \in Heads /\ d \in Heads
  BY <1>9, <1>1, <1>5
<1> QED BY <1>6, <1>7, <1>8, <1>9, CellKinds

\* A record is taken out by leading the cell before it to the one after it.
LEMMA SortedRemove ==
  ASSUME NEW link, NEW own, NEW rk, Sorted(link, own, rk),
         NEW c \in Cells, own[c] # Off, NEW r \in Recs, link[c] = r
  PROVE  Sorted([link EXCEPT ![c] = link[r]], [own EXCEPT ![r] = Off], rk)
<1> DEFINE link2 == [link EXCEPT ![c] = link[r]]
           own2 == [own EXCEPT ![r] = Off]
<1>1. r \in Cells /\ own[r] = own[c] /\ own[r] # Off /\ r # 0 /\ rk[r] < rk[c] /\ r # c
  BY SortedCell, CellKinds
<1>2. link2 \in [Cells -> Ptrs] /\ own2 \in [Cells -> 0 .. REC_OFF]
  BY <1>1, CellKinds DEF Sorted
<1>3. \A o \in Heads : own2[o] = o
  BY CellKinds DEF Sorted
<1>4. \A s \in Cells : own2[s] # Off => s # r /\ own2[s] = own[s]
  BY <1>1, <1>2, CellKinds DEF Sorted
<1>5. \A s \in Recs : own2[s] # Off => rk[s] < rk[own2[s]]
  BY <1>4, CellKinds DEF Sorted
<1>6. \A s, t \in Recs : own2[s] # Off /\ own2[t] = own2[s] /\ rk[t] = rk[s] => t = s
  BY <1>4, CellKinds DEF Sorted
<1>7. ASSUME NEW d \in Cells, own2[d] # Off
      PROVE  After(own2, rk, own2[d], rk[d], link2[d])
  <2>1. d # r /\ own2[d] = own[d] /\ own[d] # Off
    BY <1>4, <1>7
  <2>2. \A s \in Recs : own2[s] = own[d] => own[s] = own[d] /\ s # r
    BY <2>1, <1>4, CellKinds
  <2>3. CASE d = c
    <3>1. link2[d] = link[r]
      BY <2>3 DEF Sorted
    <3>2. After(own, rk, own[c], rk[r], link[r])
      BY <1>1 DEF Sorted
    <3>3. \A s \in Recs : own[s] = own[c] /\ rk[s] < rk[c] => rk[s] <= rk[r]
      BY SortedCell
    <3>4. \A s \in Recs : own[s] = own[c] /\ s # r /\ rk[s] < rk[c] => rk[s] < rk[r]
      <4> TAKE s \in Recs
      <4>1. rk[s] \in Nat /\ rk[r] \in Nat
        BY CellKinds DEF Sorted
      <4>2. own[s] = own[c] /\ rk[s] = rk[r] => s = r
        BY <1>1 DEF Sorted
      <4> QED BY <4>1, <4>2, <3>3
    <3>5. CASE link[r] = 0
      <4>1. \A s \in Recs : own[s] = own[c] => rk[s] >= rk[r]
        BY <3>2, <3>5, CellKinds DEF After
      <4>2. \A s \in Recs : own2[s] = own[c] => rk[s] >= rk[c]
        <5> SUFFICES ASSUME NEW s \in Recs, own2[s] = own[c], ~(rk[s] >= rk[c]) PROVE FALSE
          OBVIOUS
        <5>1. rk[s] \in Nat /\ rk[c] \in Nat /\ rk[r] \in Nat
          BY CellKinds DEF Sorted
        <5> QED BY <5>1, <4>1, <3>4, <2>2, <2>3
      <4> QED BY <4>2, <3>1, <3>5, <2>1, <2>3 DEF After
    <3>6. CASE link[r] # 0
      <4>1. /\ link[r] \in Recs /\ own[link[r]] = own[c] /\ rk[link[r]] < rk[r]
            /\ \A s \in Recs : own[s] = own[c] /\ rk[s] < rk[r] => rk[s] <= rk[link[r]]
        BY <3>2, <3>6 DEF After
      <4>2. link[r] # r /\ own2[link[r]] = own[c]
        <5>1. rk[r] \in Nat
          BY CellKinds DEF Sorted
        <5>2. link[r] # r
          BY <5>1, <4>1
        <5> QED BY <5>2, <4>1, CellKinds DEF Sorted
      <4>3. rk[link[r]] < rk[c]
        <5>1. rk[link[r]] \in Nat /\ rk[r] \in Nat /\ rk[c] \in Nat
          BY <4>1, CellKinds DEF Sorted
        <5> QED BY <5>1, <4>1, <1>1
      <4>4. \A s \in Recs : own2[s] = own[c] /\ rk[s] < rk[c] => rk[s] <= rk[link[r]]
        BY <2>2, <2>3, <3>4, <4>1
      <4> QED BY <4>1, <4>2, <4>3, <4>4, <3>1, <2>1, <2>3 DEF After
    <3> QED BY <3>5, <3>6
  <2>4. CASE d # c
    <3>1. link2[d] = link[d]
      BY <2>4 DEF Sorted
    <3>2. link[d] # r
      BY <2>4, <2>1, OneReferrer, <1>1
    <3>3. After(own, rk, own[d], rk[d], link[d])
      BY <2>1 DEF Sorted
    <3>4. link[d] \in Recs /\ own[link[d]] = own[d] => own2[link[d]] = own[d]
      BY <3>2, CellKinds DEF Sorted
    <3> QED BY <3>1, <3>3, <3>4, <2>1, <2>2 DEF After
  <2> QED BY <2>3, <2>4
<1>8. rk \in [Cells -> Nat]
  BY DEF Sorted
<1> HIDE DEF link2, own2
<1>9. Sorted(link2, own2, rk)
  BY <1>2, <1>3, <1>5, <1>6, <1>7, <1>8 DEF Sorted
<1> QED BY <1>9 DEF link2, own2

\* A record that points where a head points comes first when the head is led to it.
LEMMA SortedPush ==
  ASSUME NEW link, NEW own, NEW rk, Sorted(link, own, rk),
         NEW o \in Heads, NEW n \in Recs, own[n] = Off, link[n] = link[o]
  PROVE  Sorted([link EXCEPT ![o] = n], [own EXCEPT ![n] = o],
                [rk EXCEPT ![n] = rk[o], ![o] = rk[o] + 1])
<1> DEFINE link2 == [link EXCEPT ![o] = n]
           own2 == [own EXCEPT ![n] = o]
           rk2 == [rk EXCEPT ![n] = rk[o], ![o] = rk[o] + 1]
<1>1. /\ n \in Cells /\ o \in Cells /\ n # o /\ own[o] = o /\ o # Off /\ rk[o] \in Nat
      /\ n # 0 /\ o \notin Recs /\ n \in Ptrs /\ o \in 0 .. REC_OFF /\ n \notin Heads
  BY CellKinds DEF Sorted, Ptrs
<1>2. link2 \in [Cells -> Ptrs] /\ own2 \in [Cells -> 0 .. REC_OFF] /\ rk2 \in [Cells -> Nat]
  BY <1>1 DEF Sorted
<1>3. \A e \in Heads : own2[e] = e
  BY <1>1, CellKinds DEF Sorted
<1>4. /\ own2[n] = o /\ rk2[n] = rk[o] /\ rk2[o] = rk[o] + 1 /\ link2[o] = n /\ link2[n] = link[o]
      /\ \A s \in Cells : s # n => own2[s] = own[s]
      /\ \A s \in Cells : s # n /\ s # o => rk2[s] = rk[s]
      /\ \A s \in Cells : s # o => link2[s] = link[s]
  BY <1>1 DEF Sorted
<1>5. \A s \in Recs : s # n => own2[s] = own[s] /\ rk2[s] = rk[s] /\ rk[s] \in Nat /\ s \in Cells /\ s # o
  BY <1>1, <1>4, CellKinds DEF Sorted
<1> HIDE DEF link2, own2, rk2
<1>6. \A s \in Recs : s # n /\ own[s] = o => rk[s] < rk[o]
  BY <1>1 DEF Sorted
<1>7. \A s \in Recs : own2[s] # Off => rk2[s] < rk2[own2[s]]
  <2> SUFFICES ASSUME NEW s \in Recs, own2[s] # Off PROVE rk2[s] < rk2[own2[s]]
    OBVIOUS
  <2>1. CASE s = n
    BY <2>1, <1>4, <1>1
  <2>2. CASE s # n
    <3>1. own2[s] = own[s] /\ rk2[s] = rk[s] /\ rk[s] \in Nat
      BY <2>2, <1>5
    <3>2. rk[s] < rk[own[s]] /\ own[s] \in Heads
      BY <3>1, SortedCell, CellKinds DEF Sorted
    <3>3. own[s] # n
      BY <3>2, <1>1
    <3>4. rk[own[s]] \in Nat /\ own[s] \in Cells
      BY <3>2, CellKinds DEF Sorted
    <3>5. rk2[own[s]] = rk[own[s]] \/ own[s] = o
      BY <3>3, <3>4, <1>4
    <3> QED BY <3>1, <3>2, <3>4, <3>5, <1>4
  <2> QED BY <2>1, <2>2
<1>8. \A s, t \in Recs : own2[s] # Off /\ own2[t] = own2[s] /\ rk2[t] = rk2[s] => t = s
  <2> SUFFICES ASSUME NEW s \in Recs, NEW t \in Recs, own2[s] # Off, own2[t] = own2[s],
                      rk2[t] = rk2[s], t # s
               PROVE  FALSE
    OBVIOUS
  <2>1. CASE s # n /\ t # n
    BY <2>1, <1>5 DEF Sorted
  <2>2. CASE s = n
    <3>1. own[t] = o /\ rk[t] = rk[o]
      BY <2>2, <1>4, <1>5
    <3> QED BY <3>1, <2>2, <1>6, <1>1
  <2>3. CASE t = n
    <3>1. own[s] = o /\ rk[s] = rk[o]
      BY <2>3, <1>4, <1>5
    <3> QED BY <3>1, <2>3, <1>6, <1>1
  <2> QED BY <2>1, <2>2, <2>3
<1>9. ASSUME NEW d \in Cells, own2[d] # Off
      PROVE  After(own2, rk2, own2[d], rk2[d], link2[d])
  <2>1. CASE d = o
    <3>1. own2[d] = o /\ rk2[d] = rk[o] + 1 /\ link2[d] = n
      BY <2>1, <1>4, <1>1
    <3>2. \A s \in Recs : own2[s] = o => rk2[s] <= rk[o]
      <4> SUFFICES ASSUME NEW s \in Recs, own2[s] = o PROVE rk2[s] <= rk[o]
        OBVIOUS
      <4>1. CASE s = n
        <5>1. rk2[s] = rk[o]
          BY <4>1, <1>4
        <5> QED BY <5>1, <1>1
      <4>2. CASE s # n
        <5>1. own[s] = o /\ rk2[s] = rk[s] /\ rk[s] \in Nat
          BY <4>2, <1>5
        <5>2. rk[s] < rk[o] /\ rk[o] \in Nat
          BY <5>1, <4>2, <1>6, <1>1
        <5> QED BY <5>1, <5>2
      <4> QED BY <4>1, <4>2
    <3> QED BY <3>1, <3>2, <1>4, <1>1 DEF After
  <2>2. CASE d = n
    <3>1. own2[d] = o /\ rk2[d] = rk[o] /\ link2[d] = link[o]
      BY <2>2, <1>4
    <3>2. After(own, rk, o, rk[o], link[o])
      BY <1>1 DEF Sorted
    <3>3. link[o] # n
      BY <3>2, <1>1 DEF After
    <3>4. CASE link[o] = 0
      <4>1. \A s \in Recs : own[s] = o => rk[s] >= rk[o]
        BY <3>2, <3>4, CellKinds DEF After
      <4>2. \A s \in Recs : own2[s] = o => rk2[s] >= rk[o]
        BY <4>1, <1>4, <1>5, <1>1
      <4> QED BY <4>2, <3>1, <3>4 DEF After
    <3>5. CASE link[o] # 0
      <4>1. /\ link[o] \in Recs /\ own[link[o]] = o /\ rk[link[o]] < rk[o]
            /\ \A s \in Recs : own[s] = o /\ rk[s] < rk[o] => rk[s] <= rk[link[o]]
        BY <3>2, <3>5 DEF After
      <4>2. own2[link[o]] = o /\ rk2[link[o]] = rk[link[o]]
        BY <4>1, <3>3, <1>5
      <4>3. \A s \in Recs : own2[s] = o /\ rk2[s] < rk[o] => rk2[s] <= rk[link[o]]
        BY <4>1, <1>4, <1>5, <1>1
      <4> QED BY <4>1, <4>2, <4>3, <3>1 DEF After
    <3> QED BY <3>4, <3>5
  <2>3. CASE d # o /\ d # n
    <3>1. own2[d] = own[d] /\ rk2[d] = rk[d] /\ link2[d] = link[d] /\ own[d] # Off /\ rk[d] \in Nat
      BY <2>3, <1>4, <1>9 DEF Sorted
    <3>2. After(own, rk, own[d], rk[d], link[d])
      BY <3>1 DEF Sorted
    <3>3. own[d] = o => rk[d] < rk[o]
      BY <2>3, <1>6, CellKinds DEF Sorted
    <3>4. link[d] \in Recs /\ own[link[d]] = own[d] =>
            link[d] # n /\ own2[link[d]] = own[d] /\ rk2[link[d]] = rk[link[d]]
      BY <3>1, <1>5
    <3>5. CASE link[d] = 0
      <4>1. \A s \in Recs : own[s] = own[d] => rk[s] >= rk[d]
        BY <3>2, <3>5, CellKinds DEF After
      <4>2. \A s \in Recs : own2[s] = own[d] => rk2[s] >= rk[d]
        <5> SUFFICES ASSUME NEW s \in Recs, own2[s] = own[d] PROVE rk2[s] >= rk[d]
          OBVIOUS
        <5>1. CASE s = n
          BY <5>1, <1>4, <3>3, <3>1, <1>1
        <5>2. CASE s # n
          BY <5>2, <1>5, <4>1
        <5> QED BY <5>1, <5>2
      <4> QED BY <4>2, <3>1, <3>5 DEF After
    <3>6. CASE link[d] # 0
      <4>1. /\ link[d] \in Recs /\ own[link[d]] = own[d] /\ rk[link[d]] < rk[d]
            /\ \A s \in Recs : own[s] = own[d] /\ rk[s] < rk[d] => rk[s] <= rk[link[d]]
        BY <3>2, <3>6 DEF After
      <4>2. \A s \in Recs : own2[s] = own[d] /\ rk2[s] < rk[d] => rk2[s] <= rk[link[d]]
        <5> SUFFICES ASSUME NEW s \in Recs, own2[s] = own[d], rk2[s] < rk[d]
                     PROVE  rk2[s] <= rk[link[d]]
          OBVIOUS
        <5>1. CASE s = n
          BY <5>1, <1>4, <3>3, <3>1, <1>1
        <5>2. CASE s # n
          BY <5>2, <1>5, <4>1
        <5> QED BY <5>1, <5>2
      <4> QED BY <4>1, <4>2, <3>1, <3>4 DEF After
    <3> QED BY <3>5, <3>6
  <2> QED BY <2>1, <2>2, <2>3
<1>10. Sorted(link2, own2, rk2)
  BY <1>2, <1>3, <1>7, <1>8, <1>9 DEF Sorted
<1> QED BY <1>10 DEF link2, own2, rk2

\* Where a record in no list points does not matter.
LEMMA SortedOff ==
  ASSUME NEW link, NEW own, NEW rk, Sorted(link, own, rk),
         NEW n \in Recs, own[n] = Off, NEW x \in Ptrs
  PROVE  Sorted([link EXCEPT ![n] = x], own, rk)
<1>1. [link EXCEPT ![n] = x] \in [Cells -> Ptrs]
  BY DEF Sorted
<1>2. \A c \in Cells : own[c] # Off => [link EXCEPT ![n] = x][c] = link[c]
  BY DEF Sorted
<1> QED BY <1>1, <1>2 DEF Sorted

-----------------------------------------------------------------------------
(* Path and On follow the lists.                                           *)

\* Path(o) is the walk along the links that its recursive definition describes.
LEMMA PathWalk ==
  ASSUME \A c \in Cells : Link(c) \in Ptrs, NEW o \in Cells
  PROVE  /\ \A n \in 0 .. MaxRecs : Path(o)[n] \in Ptrs
         /\ Path(o)[0] = Link(o)
         /\ \A n \in 1 .. MaxRecs :
              Path(o)[n] = IF Path(o)[n - 1] = 0 THEN 0 ELSE Link(Path(o)[n - 1])
<1> DEFINE Walk(f, n) == /\ f \in [0 .. n -> Ptrs] /\ f[0] = Link(o)
                         /\ \A m \in 1 .. n :
                              f[m] = IF f[m - 1] = 0 THEN 0 ELSE Link(f[m - 1])
           T == {n \in Nat : ~ \E f : Walk(f, n)}
<1>1. \A x \in Ptrs : x # 0 => x \in Cells
  BY CellKinds DEF Ptrs
<1>2. T = {}
  <2> SUFFICES ASSUME T # {} PROVE FALSE
    OBVIOUS
  <2>1. PICK n \in T : \A m \in T : n <= m
    <3> HIDE DEF T
    <3>1. T \subseteq Nat
      BY DEF T
    <3> QED BY <3>1, LeastNat
  <2>2. n \in Nat /\ ~ \E f : Walk(f, n)
    OBVIOUS
  <2>3. n # 0
    <3> SUFFICES ASSUME n = 0 PROVE FALSE
      OBVIOUS
    <3>1. Walk([m \in 0 .. 0 |-> Link(o)], 0)
      OBVIOUS
    <3> QED BY <3>1, <2>2
  <2>4. n - 1 \in Nat /\ ~(n - 1 \in T)
    <3>1. n - 1 \in Nat /\ ~(n <= n - 1)
      BY <2>2, <2>3
    <3> HIDE DEF T
    <3> QED BY <3>1, <2>1
  <2>5. PICK f : Walk(f, n - 1)
    BY <2>4
  <2>6. f[n - 1] \in Ptrs
    BY <2>4, <2>5
  <2> DEFINE last == IF f[n - 1] = 0 THEN 0 ELSE Link(f[n - 1])
             g == [m \in 0 .. n |-> IF m = n THEN last ELSE f[m]]
  <2>7. last \in Ptrs
    BY <2>6, <1>1 DEF Ptrs
  <2>8. g \in [0 .. n -> Ptrs]
    <3> HIDE DEF last
    <3>1. \A m \in 0 .. n : m # n => m \in 0 .. (n - 1)
      BY <2>2
    <3> QED BY <3>1, <2>5, <2>7
  <2>9. \A m \in 0 .. n : g[m] = IF m = n THEN last ELSE f[m]
    OBVIOUS
  <2>10. ASSUME NEW m \in 1 .. n
         PROVE  g[m] = IF g[m - 1] = 0 THEN 0 ELSE Link(g[m - 1])
    <3> HIDE DEF g
    <3>1. m - 1 \in 0 .. n /\ m - 1 # n /\ m \in 0 .. n
      BY <2>2
    <3>2. g[m - 1] = f[m - 1]
      BY <3>1, <2>9
    <3>3. CASE m = n
      BY <3>1, <3>2, <3>3, <2>9
    <3>4. CASE m # n
      <4> HIDE DEF last
      <4>1. m \in 1 .. (n - 1)
        BY <3>4, <2>2
      <4> QED BY <4>1, <3>1, <3>2, <3>4, <2>9, <2>5
    <3> QED BY <3>3, <3>4
  <2>11. g[0] = Link(o)
    <3> HIDE DEF g, last
    <3>1. 0 \in 0 .. n /\ 0 # n
      BY <2>2, <2>3
    <3> QED BY <3>1, <2>9, <2>5
  <2>12. Walk(g, n)
    <3> HIDE DEF g
    <3> QED BY <2>8, <2>10, <2>11
  <2> QED BY <2>12, <2>2
<1>3. PICK f : Walk(f, MaxRecs)
  BY <1>2, Sizes
<1> DEFINE body(at) == [n \in 0 .. MaxRecs |->
                         IF n = 0 THEN Link(o)
                         ELSE IF at[n - 1] = 0 THEN 0 ELSE Link(at[n - 1])]
<1>4. f = body(f)
  <2>1. \A n \in 0 .. MaxRecs : f[n] = body(f)[n]
    <3> TAKE n \in 0 .. MaxRecs
    <3>1. n # 0 => n \in 1 .. MaxRecs
      BY Sizes
    <3> QED BY <3>1, <1>3
  <2>2. f \in [0 .. MaxRecs -> Ptrs]
    BY <1>3
  <2> QED BY <2>1, <2>2
<1>5. Path(o) = CHOOSE at : at = body(at)
  BY DEF Path
<1>6. Path(o) = body(Path(o))
  <2> HIDE DEF body
  <2>1. \E at : at = body(at)
    BY <1>4
  <2> QED BY <2>1, <1>5
<1>7. Path(o)[0] = Link(o)
  BY <1>6, Sizes
<1>8. \A n \in 1 .. MaxRecs :
        Path(o)[n] = IF Path(o)[n - 1] = 0 THEN 0 ELSE Link(Path(o)[n - 1])
  <2> TAKE n \in 1 .. MaxRecs
  <2>1. n \in 0 .. MaxRecs /\ n # 0
    BY Sizes
  <2> QED BY <2>1, <1>6
<1>9. \A n \in 0 .. MaxRecs : Path(o)[n] \in Ptrs
  <2> DEFINE U == {n \in Nat : n \in 0 .. MaxRecs /\ Path(o)[n] \notin Ptrs}
  <2> SUFFICES ASSUME U # {} PROVE FALSE
    BY Sizes
  <2>1. PICK n \in U : \A m \in U : n <= m
    <3> HIDE DEF U
    <3>1. U \subseteq Nat
      BY DEF U
    <3> QED BY <3>1, LeastNat
  <2>2. n \in 1 .. MaxRecs
    BY <1>7, Sizes
  <2>3. n - 1 \in 0 .. MaxRecs /\ n - 1 \in Nat /\ ~(n <= n - 1)
    BY <2>2, Sizes
  <2>4. Path(o)[n - 1] \in Ptrs
    BY <2>1, <2>3
  <2>5. Path(o)[n] \in Ptrs
    BY <2>2, <2>4, <1>8, <1>1 DEF Ptrs
  <2> QED BY <2>5
<1> QED BY <1>7, <1>8, <1>9

\* In sorted lists the walk from a head ends within MaxRecs records, and it
\* meets exactly the records that the list owns.
LEMMA PathOwned ==
  ASSUME NEW own, NEW rk, Sorted(LinkF, own, rk), NEW o \in Heads
  PROVE  Path(o)[MaxRecs] = 0 /\ On(o) = {r \in Recs : own[r] = o}
<1>1. \A c \in Cells : LinkF[c] = Link(c) /\ Link(c) \in Ptrs
  <2>1. \A c \in Cells : LinkF[c] = Link(c)
    BY DEF LinkF
  <2> QED BY <2>1 DEF Sorted
<1>2. o \in Cells /\ own[o] = o /\ o # Off
  BY CellKinds DEF Sorted
<1>3. /\ \A n \in 0 .. MaxRecs : Path(o)[n] \in Ptrs
      /\ Path(o)[0] = Link(o)
      /\ \A n \in 1 .. MaxRecs :
           Path(o)[n] = IF Path(o)[n - 1] = 0 THEN 0 ELSE Link(Path(o)[n - 1])
  BY <1>1, <1>2, PathWalk
<1>4. \A x \in Ptrs : x # 0 => x \in Recs /\ x \in Cells
  BY CellKinds DEF Ptrs
<1>5. ASSUME NEW n \in 0 .. MaxRecs, Path(o)[n] # 0
      PROVE  Path(o)[n] \in Recs /\ own[Path(o)[n]] = o
  <2> DEFINE T == {m \in Nat : m \in 0 .. MaxRecs /\ Path(o)[m] # 0 /\ own[Path(o)[m]] # o}
  <2>1. T = {}
    <3> SUFFICES ASSUME T # {} PROVE FALSE
      OBVIOUS
    <3>1. PICK m \in T : \A k \in T : m <= k
      <4> HIDE DEF T
      <4>1. T \subseteq Nat
        BY DEF T
      <4> QED BY <4>1, LeastNat
    <3>2. m # 0
      <4> SUFFICES ASSUME m = 0 PROVE FALSE
        OBVIOUS
      <4>1. Path(o)[0] = LinkF[o] /\ LinkF[o] # 0
        BY <1>1, <1>2, <1>3, <3>1
      <4>2. own[LinkF[o]] = own[o]
        BY <4>1, <1>2, SortedCell
      <4> QED BY <4>1, <4>2, <1>2, <3>1
    <3>3. m \in 1 .. MaxRecs /\ m - 1 \in 0 .. MaxRecs /\ m - 1 \in Nat /\ ~(m <= m - 1)
      BY <3>1, <3>2, Sizes
    <3>4. Path(o)[m - 1] # 0 /\ Path(o)[m] = Link(Path(o)[m - 1])
      BY <3>1, <3>3, <1>3
    <3>5. Path(o)[m - 1] \in Cells /\ own[Path(o)[m - 1]] = o
      BY <3>1, <3>3, <3>4, <1>3, <1>4
    <3>6. own[LinkF[Path(o)[m - 1]]] = o
      BY <3>1, <3>4, <3>5, <1>1, <1>2, SortedCell
    <3> QED BY <3>1, <3>4, <3>5, <3>6, <1>1
  <2>2. n \in Nat
    BY Sizes
  <2> QED BY <2>1, <2>2, <1>3, <1>4, <1>5
<1>6. ASSUME NEW n \in 1 .. MaxRecs, Path(o)[n] # 0
      PROVE  Path(o)[n - 1] # 0 /\ rk[Path(o)[n]] < rk[Path(o)[n - 1]]
  <2>1. n - 1 \in 0 .. MaxRecs
    BY Sizes
  <2>2. Path(o)[n - 1] # 0 /\ Path(o)[n] = Link(Path(o)[n - 1])
    BY <1>3, <1>6
  <2>3. Path(o)[n - 1] \in Cells /\ own[Path(o)[n - 1]] = o
    BY <2>1, <2>2, <1>5, <1>4, <1>3
  <2> QED BY <2>2, <2>3, <1>1, <1>2, <1>6, SortedCell
<1>7. \A c \in Cells : rk[c] \in Nat
  BY DEF Sorted
<1>8. \A m, n \in 0 .. MaxRecs : m < n /\ Path(o)[n] # 0 =>
        Path(o)[m] # 0 /\ rk[Path(o)[n]] < rk[Path(o)[m]]
  <2> SUFFICES ASSUME NEW m \in 0 .. MaxRecs
               PROVE  \A n \in 0 .. MaxRecs : m < n /\ Path(o)[n] # 0 =>
                        Path(o)[m] # 0 /\ rk[Path(o)[n]] < rk[Path(o)[m]]
    OBVIOUS
  <2> DEFINE T == {n \in Nat : /\ n \in 0 .. MaxRecs /\ m < n /\ Path(o)[n] # 0
                               /\ ~(Path(o)[m] # 0 /\ rk[Path(o)[n]] < rk[Path(o)[m]])}
  <2> SUFFICES ASSUME T # {} PROVE FALSE
    BY Sizes
  <2>1. PICK n \in T : \A k \in T : n <= k
    <3> HIDE DEF T
    <3>1. T \subseteq Nat
      BY DEF T
    <3> QED BY <3>1, LeastNat
  <2>2. n \in 1 .. MaxRecs /\ n - 1 \in 0 .. MaxRecs /\ n - 1 \in Nat /\ ~(n <= n - 1) /\ m <= n - 1
    BY <2>1, Sizes
  <2>3. Path(o)[n - 1] # 0 /\ rk[Path(o)[n]] < rk[Path(o)[n - 1]]
    BY <2>1, <2>2, <1>6
  <2>4. m # n - 1
    BY <2>1, <2>3
  <2>5. Path(o)[m] # 0 /\ rk[Path(o)[n - 1]] < rk[Path(o)[m]]
    BY <2>1, <2>2, <2>3, <2>4
  <2>6. rk[Path(o)[n]] \in Nat /\ rk[Path(o)[n - 1]] \in Nat /\ rk[Path(o)[m]] \in Nat
    BY <2>1, <2>2, <2>3, <2>5, <1>3, <1>4, <1>7
  <2> QED BY <2>1, <2>3, <2>5, <2>6
<1>9. Path(o)[MaxRecs] = 0
  <2> SUFFICES ASSUME Path(o)[MaxRecs] # 0 PROVE FALSE
    OBVIOUS
  <2>1. MaxRecs \in 0 .. MaxRecs
    BY Sizes
  <2>2. \A n \in 0 .. MaxRecs : Path(o)[n] # 0
    <3> TAKE n \in 0 .. MaxRecs
    <3>1. n = MaxRecs \/ n < MaxRecs
      BY Sizes
    <3> QED BY <3>1, <2>1, <1>8
  <2> DEFINE f == [n \in 0 .. MaxRecs |-> Path(o)[n]]
  <2>3. f \in [0 .. MaxRecs -> Recs]
    BY <2>2, <1>5
  <2>4. IsFiniteSet(0 .. MaxRecs) /\ Cardinality(0 .. MaxRecs) = MaxRecs + 1
    BY FS_Interval, Sizes
  <2>5. IsFiniteSet(Recs) /\ Cardinality(Recs) = MaxRecs
    <3>1. REC_OFF \in Int /\ REC_OFF + MaxRecs - 1 \in Int /\ ~(REC_OFF > REC_OFF + MaxRecs - 1)
      BY Sizes, Offsets
    <3>2. (REC_OFF + MaxRecs - 1) - REC_OFF + 1 = MaxRecs
      BY Sizes, Offsets
    <3> QED BY <3>1, <3>2, FS_Interval DEF Recs
  <2>6. \E m, n \in 0 .. MaxRecs : m # n /\ f[m] = f[n]
    <3> HIDE DEF f
    <3> DEFINE S == 0 .. MaxRecs
    <3> HIDE DEF S
    <3>1. IsFiniteSet(S) /\ IsFiniteSet(Recs) /\ Cardinality(Recs) < Cardinality(S)
      BY <2>4, <2>5, Sizes DEF S
    <3>2. f \in [S -> Recs]
      BY <2>3 DEF S
    <3>3. \E m, n \in S : m # n /\ f[m] = f[n]
      BY <3>1, <3>2, FS_PigeonHole, Zenon
    <3> QED BY <3>3 DEF S
  <2>7. PICK m \in 0 .. MaxRecs, n \in 0 .. MaxRecs : m # n /\ Path(o)[m] = Path(o)[n]
    BY <2>6
  <2>8. rk[Path(o)[m]] \in Nat
    BY <2>2, <1>3, <1>4, <1>7
  <2>9. m < n \/ n < m
    BY <2>7, Sizes
  <2> QED BY <2>2, <2>7, <2>8, <2>9, <1>8
<1>10. On(o) \subseteq {r \in Recs : own[r] = o}
  BY <1>5 DEF On
<1>11. ASSUME NEW r \in Recs, own[r] = o PROVE r \in On(o)
  <2>0. rk[r] \in Nat /\ rk[o] \in Nat /\ rk[r] < rk[o]
    BY <1>7, <1>2, <1>11, CellKinds DEF Sorted
  <2> DEFINE T == {n \in Nat : /\ n \in 0 .. MaxRecs
                               /\ Path(o)[n] = 0 \/ rk[Path(o)[n]] <= rk[r]}
  <2>1. MaxRecs \in T
    BY <1>9, Sizes
  <2>2. PICK n \in T : \A k \in T : n <= k
    <3> HIDE DEF T
    <3>1. T \subseteq Nat
      BY DEF T
    <3> QED BY <2>1, <3>1, LeastNat
  <2>3. \E c \in Cells : own[c] = o /\ rk[r] < rk[c] /\ Path(o)[n] = LinkF[c]
    <3>1. CASE n = 0
      BY <3>1, <2>0, <1>1, <1>2, <1>3
    <3>2. CASE n # 0
      <4>1. n \in 1 .. MaxRecs /\ n - 1 \in 0 .. MaxRecs /\ n - 1 \in Nat /\ ~(n <= n - 1)
        BY <2>2, <3>2, Sizes
      <4>2. Path(o)[n - 1] # 0 /\ ~(rk[Path(o)[n - 1]] <= rk[r])
        BY <2>2, <4>1
      <4>3. Path(o)[n - 1] \in Cells /\ own[Path(o)[n - 1]] = o
        BY <4>1, <4>2, <1>3, <1>4, <1>5
      <4>4. rk[r] < rk[Path(o)[n - 1]]
        BY <4>2, <4>3, <1>7, <2>0
      <4>5. Path(o)[n] = LinkF[Path(o)[n - 1]]
        BY <4>1, <4>2, <4>3, <1>1, <1>3
      <4> QED BY <4>3, <4>4, <4>5
    <3> QED BY <3>1, <3>2
  <2>4. PICK c \in Cells : own[c] = o /\ rk[r] < rk[c] /\ Path(o)[n] = LinkF[c]
    BY <2>3
  <2>5. LinkF[c] \in Recs /\ rk[r] <= rk[LinkF[c]]
    BY <2>4, <1>11, <1>2, SortedCell
  <2>6. n \in 0 .. MaxRecs /\ Path(o)[n] # 0 /\ rk[Path(o)[n]] <= rk[r]
    BY <2>2, <2>4, <2>5, CellKinds
  <2>7. own[Path(o)[n]] = o /\ Path(o)[n] \in Recs /\ rk[Path(o)[n]] \in Nat
    BY <2>6, <1>5, <1>4, <1>7, CellKinds
  <2>8. rk[Path(o)[n]] = rk[r]
    BY <2>4, <2>5, <2>6, <2>7, <2>0
  <2>9. Path(o)[n] = r
    BY <2>7, <2>8, <1>11, <1>2 DEF Sorted
  <2> QED BY <2>6, <2>9, CellKinds DEF On
<1> QED BY <1>9, <1>10, <1>11

-----------------------------------------------------------------------------
(* What a step of one process leaves alone.                                *)

\* The fields of a handle have their types.
LEMMA HandleFields ==
  ASSUME TypeOK, NEW p \in Procs
  PROVE  /\ h[p].offset \in Ptrs /\ h[p].ptroff \in Cells /\ h[p].idxoff \in Ptrs
         /\ h[p].ptrval \in Ptrs /\ h[p].newptr \in Ptrs /\ h[p].datoff \in Slots
         /\ idxend \in Nat /\ datend \in Nat /\ idxend >= REC_OFF
         /\ idxend <= REC_OFF + MaxRecs /\ datend <= MaxRecs
         /\ \A r \in Recs : r \in Cells /\ r # 0 /\ r \in Nat
                            /\ rec[r].datoff \in Slots /\ rec[r].datoff \in Nat
<1>1. h[p] \in Handle
  BY DEF TypeOK
<1>2. \A r \in Recs : rec[r] \in RecType
  BY DEF TypeOK
<1>3. \A r \in Recs : rec[r].datoff \in Slots
  BY <1>2 DEF RecType
<1>4. Slots \subseteq Nat
  BY Sizes DEF Slots
<1>5. /\ idxend \in Nat /\ datend \in Nat /\ idxend >= REC_OFF
      /\ idxend <= REC_OFF + MaxRecs /\ datend <= MaxRecs
  BY Sizes, Offsets DEF TypeOK
<1> QED BY <1>1, <1>3, <1>4, <1>5, CellKinds DEF Handle

\* A process inside a call works on a chain of the hash table.
LEMMA ChainHead ==
  ASSUME TypeOK, NEW p \in Procs, pc[p] \in InChain \cup {"find"}
  PROVE  /\ chainoff(p) \in HashHeads /\ chainoff(p) \in Heads /\ chainoff(p) \in Cells
         /\ chainoff(p) # FREE_OFF /\ chainoff(p) # Off /\ call[p].key \in Keys
         /\ call[p].key # NoKey
<1>1. call[p].key \in Keys
  BY DEF TypeOK, CallFits
<1>2. chainoff(p) \in Cells /\ chainoff(p) # FREE_OFF /\ chainoff(p) # Off /\ chainoff(p) \in LockBytes
  BY <1>1, ChainOff DEF Off
<1>3. chainoff(p) \in HashHeads
  BY <1>2, Sizes DEF LockBytes, HashHeads, Off, FREE_OFF, HASH_OFF, REC_OFF
<1> QED BY <1>1, <1>2, <1>3, CellKinds, DbAssumption

\* One process at a time is between seeking to the end of a file and writing there.
AppendExclusion ==
  \A p, q \in Procs : p # q =>
    /\ ~(pc[p] = "app_dat" /\ pc[q] = "app_dat")
    /\ ~(pc[p] = "app_idx" /\ pc[q] = "app_idx")

\* The lock of the data file and of the index file's end see to that.
LEMMA AppendApart == LockInv => AppendExclusion
<1> SUFFICES ASSUME LockInv, NEW p \in Procs, NEW q \in Procs, p # q
             PROVE  /\ ~(pc[p] = "app_dat" /\ pc[q] = "app_dat")
                    /\ ~(pc[p] = "app_idx" /\ pc[q] = "app_idx")
  BY DEF AppendExclusion
<1>1. ~(pc[p] = "app_dat" /\ pc[q] = "app_dat")
  BY DEF LockInv, LockDiscipline
<1>2. ~(pc[p] = "app_idx" /\ pc[q] = "app_idx")
  BY Offsets DEF LockInv, LockDiscipline, HoldsW
<1> QED BY <1>1, <1>2

\* A record in the hands of a process is the one in its handle, in no list.
LEMMA PrivateOff ==
  ASSUME TypeOK, NEW own, NEW rk, Shape(own, rk), NEW q \in Procs, NEW r \in Private(q)
  PROVE  /\ r = h[q].idxoff /\ r \in Recs /\ own[r] = Off
         /\ IF pc[q] = "app_idx" THEN r = idxend ELSE r < idxend
<1>1. r = h[q].idxoff
  BY DEF Private
<1>2. AtWork(own, rk, q)
  BY DEF Shape
<1>3. CASE pc[q] = "app_idx"
  <2>1. r \in Recs /\ r = idxend
    BY <1>1, <1>2, <1>3 DEF AtWork, Growing
  <2>2. own[r] \in 0 .. REC_OFF /\ ~(own[r] # Off)
    BY <2>1, HandleFields DEF Shape, Listed, Sorted
  <2> QED BY <1>1, <1>3, <2>1, <2>2
<1>4. CASE pc[q] \in Reusing
  BY <1>1, <1>2, <1>4 DEF AtWork, Refilling, Reusing
<1>5. CASE pc[q] = "commit"
  BY <1>1, <1>2, <1>5 DEF AtWork, Committing
<1>6. CASE pc[q] \in DelWindow \ {"del_chain"}
  BY <1>1, <1>2, <1>6 DEF AtWork, Deleting, DelWindow
<1> QED BY <1>3, <1>4, <1>5, <1>6 DEF Private

\* At most one process is in the middle of a deletion.
LEMMA OneUnlinker ==
  ASSUME LockInv, NEW p \in Procs, NEW q \in Procs, pc[p] \in DelWindow, pc[q] \in DelWindow
  PROVE  p = q
BY FreeListApart DEF FreeListExclusion

\* A link is the pointer in the file, but for the one that a deletion is going
\* to rewrite.
LEMMA LinkValue ==
  ASSUME LockInv
  PROVE  /\ (\A q \in Procs : pc[q] \notin DelWindow) => \A c : Link(c) = ptr[c]
         /\ \A p \in Procs : pc[p] \in DelWindow =>
              \A c : Link(c) = IF c = h[p].ptroff THEN h[p].ptrval ELSE ptr[c]
<1>1. ASSUME \A q \in Procs : pc[q] \notin DelWindow, NEW c PROVE Link(c) = ptr[c]
  BY <1>1 DEF Link, Unlinking
<1>2. ASSUME NEW p \in Procs, pc[p] \in DelWindow, NEW c
      PROVE  Link(c) = IF c = h[p].ptroff THEN h[p].ptrval ELSE ptr[c]
  <2>1. \A q \in Unlinking(c) : q = p
    BY <1>2, OneUnlinker DEF Unlinking
  <2>2. CASE c = h[p].ptroff
    <3>1. p \in Unlinking(c)
      BY <1>2, <2>2 DEF Unlinking
    <3>2. (CHOOSE q \in Unlinking(c) : TRUE) = p
      BY <2>1, <3>1
    <3> QED BY <2>2, <3>1, <3>2 DEF Link
  <2>3. CASE c # h[p].ptroff
    <3>1. Unlinking(c) = {}
      BY <2>1, <2>3 DEF Unlinking
    <3> QED BY <2>3, <3>1 DEF Link
  <2> QED BY <2>2, <2>3
<1> QED BY <1>1, <1>2

\* On a chain and on the free list, a process that holds the lock reads links.
LEMMA LinkRead ==
  ASSUME LockInv, NEW own, NEW rk, Shape(own, rk), NEW p \in Procs, NEW c \in Cells,
         \/ pc[p] \in InChain /\ pc[p] \notin DelWindow /\ own[c] = chainoff(p)
         \/ own[c] = FREE_OFF
  PROVE  Link(c) = ptr[c]
<1> SUFFICES ASSUME NEW q \in Procs, pc[q] \in DelWindow, h[q].ptroff = c PROVE FALSE
  BY LinkValue
<1>1. own[c] = chainoff(q) /\ pc[q] \in InChain
  BY DEF Shape, AtWork, Deleting, InChain
<1>2. Writing(q) /\ chainoff(q) # FREE_OFF
  BY <1>1, ChainHead DEF Writing, LockInv, TypeOK, CallFits
<1>3. pc[p] \in InChain /\ pc[p] \notin DelWindow /\ chainoff(p) = chainoff(q)
  BY <1>1, <1>2
<1> QED BY <1>2, <1>3, ChainsApart DEF ChainExclusion

\* The process is where it was, in the same call with the same handle.
Still(q) == pc'[q] = pc[q] /\ h'[q] = h[q] /\ call'[q] = call[q]

\* Record o goes to list w, the others stay where they are.
Moved(own, own2, o, w) == \A r \in Recs : own2[r] = IF r = o THEN w ELSE own[r]

\* A step leaves list o as it was.
SameList(own, rk, own2, rk2, o) ==
  \A c \in Cells :
    /\ own2[c] = o <=> own[c] = o
    /\ own[c] = o => /\ rk2[c] = rk[c] /\ Link(c)' = Link(c)
                     /\ c \in Recs => rec'[c] = rec[c]

\* What is said of a process at work stays true when a step leaves alone the
\* process, the lists it has locked, and the records and data in its hands.
LEMMA OtherKept ==
  ASSUME TypeOK, NEW own, NEW rk, NEW own2, NEW rk2, Shape(own, rk),
         NEW q \in Procs, Still(q),
         pc[q] \in InChain => SameList(own, rk, own2, rk2, chainoff(q)),
         pc[q] \in DelWindow \cup FreeWindow => SameList(own, rk, own2, rk2, FREE_OFF),
         \A r \in Private(q) : own2[r] = Off /\ rec'[r] = rec[r] /\ Link(r)' = Link(r),
         \A r \in Private(q) : r < idxend =>
           r < idxend' /\ dat'[rec[r].datoff] = dat[rec[r].datoff],
         pc[q] = "app_dat" => datend' = datend,
         pc[q] \in {"app_idx_seek", "app_idx"} =>
           /\ h[q].datoff < datend' /\ dat'[h[q].datoff] = dat[h[q].datoff]
           /\ \A r \in Recs : r < idxend' => rec'[r].datoff # h[q].datoff,
         pc[q] = "app_idx" => idxend' = idxend,
         pc[q] = "next_dat" => rec'[h[q].idxoff] = rec[h[q].idxoff] /\ h[q].idxoff < idxend'
  PROVE  AtWork(own2, rk2, q)'
<1>1. AtWork(own, rk, q)
  BY DEF Shape
<1>2. /\ pc'[q] = pc[q] /\ h'[q] = h[q] /\ call'[q] = call[q]
      /\ chainoff(q)' = chainoff(q)
  BY DEF Still, chainoff
<1>3. h[q].ptroff \in Cells /\ \A r \in Recs : r \in Cells
  BY HandleFields
<1>4. pc[q] \in InChain => chainoff(q) \in Cells /\ own[chainoff(q)] = chainoff(q)
  BY ChainHead DEF Shape, Sorted
<1>5. FREE_OFF \in Cells /\ own[FREE_OFF] = FREE_OFF
  BY CellKinds DEF Shape, Sorted
<1>6. pc[q] \in InChain => \A r \in Recs :
        /\ own2[r] = chainoff(q) <=> own[r] = chainoff(q)
        /\ own[r] = chainoff(q) => rec'[r] = rec[r] /\ rk2[r] = rk[r] /\ Link(r)' = Link(r)
  BY <1>3 DEF SameList
<1>7. Missing(own, q) /\ pc[q] \in InChain => Missing(own2, q)'
  BY <1>2, <1>6 DEF Missing
<1>8. Searching(own2, rk2, q)'
  <2> SUFFICES ASSUME pc[q] = "walk"
               PROVE  /\ own2[h[q].ptroff] = chainoff(q)
                      /\ Link(h[q].ptroff)' = h[q].offset
                      /\ \A r \in Recs : own2[r] = chainoff(q) /\ rk2[r] >= rk2[h[q].ptroff]
                                           => rec'[r].key # call[q].key
    BY <1>2 DEF Searching
  <2>1. Searching(own, rk, q) /\ pc[q] \in InChain
    BY <1>1 DEF AtWork, InChain
  <2>2. /\ own[h[q].ptroff] = chainoff(q) /\ Link(h[q].ptroff) = h[q].offset
        /\ \A r \in Recs : own[r] = chainoff(q) /\ rk[r] >= rk[h[q].ptroff]
                             => rec[r].key # call[q].key
    BY <2>1 DEF Searching
  <2>3. /\ own2[h[q].ptroff] = chainoff(q) /\ Link(h[q].ptroff)' = h[q].offset
        /\ rk2[h[q].ptroff] = rk[h[q].ptroff]
    BY <2>1, <2>2, <1>2, <1>3 DEF SameList
  <2> QED BY <2>1, <2>2, <2>3, <1>6
<1>9. Reached(own2, q)'
  <2>1. Reached(own, q) /\ (pc[q] \in {"fetch_dat", "del_dat", "over_dat"} => pc[q] \in InChain)
    BY <1>1 DEF AtWork, InChain
  <2>2. pc[q] = "del_dat" =>
          own2[h[q].ptroff] = chainoff(q) /\ Link(h[q].ptroff)' = Link(h[q].ptroff)
    BY <2>1, <1>2, <1>3 DEF Reached, SameList
  <2>3. pc[q] \in {"fetch_dat", "del_dat", "over_dat"} =>
          /\ h[q].idxoff \in Recs /\ own2[h[q].idxoff] = chainoff(q)
          /\ rec'[h[q].idxoff] = rec[h[q].idxoff] /\ Link(h[q].idxoff)' = Link(h[q].idxoff)
    BY <2>1, <1>2, <1>6 DEF Reached
  <2>4. /\ pc[q] \in {"fetch_dat", "del_dat", "over_dat"} =>
             /\ h[q].idxoff \in Recs /\ own2[h[q].idxoff] = chainoff(q)
             /\ rec'[h[q].idxoff].key = call[q].key
             /\ h[q].datoff = rec'[h[q].idxoff].datoff
        /\ pc[q] = "del_dat" =>
             /\ own2[h[q].ptroff] = chainoff(q)
             /\ Link(h[q].ptroff)' = h[q].idxoff
             /\ h[q].ptrval = Link(h[q].idxoff)'
        /\ pc[q] = "over_dat" => rec'[h[q].idxoff].datlen = DatLen[call[q].val]
    BY <2>1, <2>2, <2>3 DEF Reached
  <2> QED BY <2>4, <1>2 DEF Reached
<1>10. Deleting(own2, q)'
  <2>1. Deleting(own, q) /\ (pc[q] \in DelWindow => pc[q] \in InChain)
    BY <1>1 DEF AtWork, InChain
  <2>2. pc[q] \in DelWindow => own2[h[q].ptroff] = chainoff(q) /\ Missing(own2, q)'
    BY <2>1, <1>3, <1>7 DEF Deleting, SameList
  <2>3. pc[q] \in DelWindow \ {"del_chain"} => h[q].idxoff \in Private(q)
    BY DEF Private, DelWindow, Reusing
  <2>4. pc[q] \in DelWindow \ {"del_chain"} =>
          /\ h[q].idxoff \in Recs /\ h[q].idxoff < idxend' /\ own2[h[q].idxoff] = Off
          /\ rec'[h[q].idxoff] = rec[h[q].idxoff]
          /\ Link(h[q].idxoff)' = Link(h[q].idxoff)
          /\ dat'[rec'[h[q].idxoff].datoff].val = NoVal
    BY <2>1, <2>3, <1>2 DEF Deleting
  <2>5. pc[q] \in DelWindow => Link(FREE_OFF)' = Link(FREE_OFF)
    BY <1>5 DEF SameList
  <2>6. pc[q] \in {"del_idx", "del_free"} => h[q].newptr = Link(FREE_OFF)'
    BY <2>1, <2>5 DEF Deleting, DelWindow
  <2>7. pc[q] = "del_free" =>
          rec'[h[q].idxoff].key = NoKey /\ Link(h[q].idxoff)' = h[q].newptr
    BY <2>1, <2>4 DEF Deleting, DelWindow
  <2> QED BY <2>2, <2>4, <2>6, <2>7, <1>2 DEF Deleting
<1>11. Inserting(own2, q)'
  <2>1. Inserting(own, q) /\ (pc[q] \in Storing => pc[q] \in InChain)
    BY <1>1 DEF AtWork, InChain, Storing
  <2>2. pc[q] \in Storing => Missing(own2, q)' /\ Link(chainoff(q))' = Link(chainoff(q))
    BY <2>1, <1>2, <1>4, <1>7 DEF Inserting, SameList
  <2>3. pc[q] \in Storing \ {"head"} => h[q].newptr = Link(chainoff(q))'
    BY <2>1, <2>2 DEF Inserting
  <2> QED BY <2>2, <2>3, <1>2 DEF Inserting
<1>12. Freeing(own2, q)'
  <2>1. Freeing(own, q)
    BY <1>1 DEF AtWork
  <2>2. pc[q] \in FreeWindow =>
          own2[h[q].ptroff] = FREE_OFF /\ Link(h[q].ptroff)' = Link(h[q].ptroff)
    BY <2>1, <1>2, <1>3 DEF Freeing, SameList
  <2>3. ASSUME pc[q] = "free_take"
        PROVE  /\ h[q].idxoff \in Recs /\ Link(h[q].ptroff)' = h[q].idxoff
               /\ h[q].ptrval = Link(h[q].idxoff)'
               /\ h[q].datoff = rec'[h[q].idxoff].datoff
               /\ Fits(q, h[q].idxoff)'
    <3>1. /\ h[q].idxoff \in Recs /\ Link(h[q].ptroff) = h[q].idxoff
          /\ h[q].ptrval = Link(h[q].idxoff)
          /\ h[q].datoff = rec[h[q].idxoff].datoff
          /\ Fits(q, h[q].idxoff) /\ own[h[q].ptroff] = FREE_OFF /\ pc[q] \in FreeWindow
      BY <2>1, <2>3 DEF Freeing, FreeWindow
    <3>2. own[h[q].idxoff] = FREE_OFF
      <4>1. Sorted(LinkF, own, rk) /\ LinkF[h[q].ptroff] = h[q].idxoff
        BY <3>1, <1>3 DEF Shape, LinkF
      <4> QED BY <4>1, <3>1, <1>3, SortedCell, CellKinds
    <3>3. rec'[h[q].idxoff] = rec[h[q].idxoff] /\ Link(h[q].idxoff)' = Link(h[q].idxoff)
      BY <3>1, <3>2, <1>2, <1>3 DEF SameList
    <3> QED BY <3>1, <3>3, <2>2, <1>2 DEF Fits
  <2>4. pc[q] = "free_walk" => Link(h[q].ptroff)' = h[q].offset
    BY <2>1, <2>2 DEF Freeing, FreeWindow
  <2> QED BY <2>2, <2>3, <2>4, <1>2 DEF Freeing
<1>13. Refilling(own2, q)'
  <2>1. Refilling(own, q)
    BY <1>1 DEF AtWork
  <2>2. pc[q] \in Reusing => h[q].idxoff \in Private(q)
    BY DEF Private
  <2>3. ASSUME pc[q] \in Reusing
        PROVE  /\ h[q].idxoff \in Recs /\ h[q].idxoff < idxend' /\ own2[h[q].idxoff] = Off
               /\ rec'[h[q].idxoff] = rec[h[q].idxoff]
               /\ dat'[h[q].datoff] = dat[h[q].datoff]
    BY <2>1, <2>2, <2>3 DEF Refilling
  <2>4. pc[q] \in Reusing =>
          /\ h[q].idxoff \in Recs /\ h[q].idxoff < idxend' /\ own2[h[q].idxoff] = Off
          /\ rec'[h[q].idxoff].key = NoKey
          /\ h[q].datoff = rec'[h[q].idxoff].datoff
          /\ Fits(q, h[q].idxoff)'
    BY <2>1, <2>3, <1>2 DEF Refilling, Fits
  <2>5. pc[q] = "reuse_idx" => dat'[h[q].datoff] = NewDat(q)'
    BY <2>1, <2>3, <1>2 DEF Refilling, NewDat, Reusing
  <2> QED BY <2>4, <2>5, <1>2 DEF Refilling
<1>14. Growing(q)'
  <2>1. Growing(q)
    BY <1>1 DEF AtWork
  <2>2. NewDat(q)' = NewDat(q)
    BY <1>2 DEF NewDat
  <2> QED BY <2>1, <2>2, <1>2 DEF Growing
<1>15. Committing(own2, q)'
  <2> SUFFICES ASSUME pc[q] = "commit"
               PROVE  /\ h[q].idxoff \in Recs /\ h[q].idxoff < idxend' /\ own2[h[q].idxoff] = Off
                      /\ rec'[h[q].idxoff] = NewRec(q)' /\ dat'[h[q].datoff] = NewDat(q)'
                      /\ Link(h[q].idxoff)' = h[q].newptr
    BY <1>2 DEF Committing
  <2>1. /\ h[q].idxoff \in Recs /\ h[q].idxoff < idxend
        /\ rec[h[q].idxoff] = NewRec(q) /\ dat[h[q].datoff] = NewDat(q)
        /\ Link(h[q].idxoff) = h[q].newptr
    BY <1>1 DEF AtWork, Committing
  <2>2. h[q].idxoff \in Private(q)
    BY DEF Private
  <2>3. rec[h[q].idxoff].datoff = h[q].datoff
    BY <2>1 DEF NewRec
  <2>4. NewRec(q)' = NewRec(q) /\ NewDat(q)' = NewDat(q)
    BY <1>2 DEF NewRec, NewDat
  <2> QED BY <2>1, <2>2, <2>3, <2>4, <1>2
<1>16. Scanning(q)'
  BY <1>1, <1>2 DEF AtWork, Scanning
<1> QED BY <1>8, <1>9, <1>10, <1>11, <1>12, <1>13, <1>14, <1>15, <1>16 DEF AtWork

\* The step of a process that writes: it changes the cells C and the data D.
\* The cells are of its own chain, of the free list while it has that locked, or
\* in its hands; the data is of such a record, or new.
WritesOnly(own, rk, own2, rk2, p, C, D) ==
  /\ \A c \in Cells \ C : /\ own2[c] = own[c] /\ rk2[c] = rk[c] /\ Link(c)' = Link(c)
                          /\ c \in Recs => rec'[c] = rec[c]
  /\ \A c \in C : /\ {own[c], own2[c]} \subseteq {chainoff(p), FREE_OFF, Off}
                  /\ own[c] = Off => c \in Private(p)
                  /\ FREE_OFF \in {own[c], own2[c]} =>
                       {pc[p], pc'[p]} \cap (DelWindow \cup FreeWindow) # {}
  /\ \A d \in Slots \ D : dat'[d] = dat[d]
  /\ \A d \in D : \/ pc[p] = "app_dat" /\ d = datend
                  \/ \E r \in Recs : /\ r < idxend /\ rec[r].datoff = d
                                     /\ own[r] # Off \/ r \in Private(p)
  /\ idxend' = idxend \/ (pc[p] = "app_idx" /\ idxend' = idxend + 1)
  /\ datend' = datend \/ (pc[p] = "app_dat" /\ datend' = datend + 1)
  /\ \A r \in Recs : r < idxend' =>
       \/ r < idxend /\ rec'[r].datoff = rec[r].datoff
       \/ pc[p] = "app_idx" /\ rec'[r].datoff = h[p].datoff
  /\ \A r \in Recs : r < idxend /\ rec[r].key # NoKey =>
       rec'[r] = rec[r] \/ pc[p] \in DelWindow

\* Such a step does not disturb another process at its work.
LEMMA WriterFrame ==
  ASSUME LockInv, LockInv', NEW own, NEW rk, NEW own2, NEW rk2, Shape(own, rk),
         NEW p \in Procs, Writing(p), NEW q \in Procs, p # q, Still(q),
         NEW C, NEW D, WritesOnly(own, rk, own2, rk2, p, C, D)
  PROVE  AtWork(own2, rk2, q)'
<1>1. AtWork(own, rk, q) /\ TypeOK /\ TypeOK' /\ DataOwned
  BY DEF Shape, LockInv
<1>2. pc'[q] = pc[q] /\ h'[q] = h[q] /\ call'[q] = call[q]
  BY DEF Still
<1>3. /\ \A r \in Recs : r \in Cells /\ rec[r].datoff \in Slots /\ rec[r].datoff \in Nat
      /\ h[q].datoff \in Slots /\ h[q].datoff \in Nat /\ idxend \in Nat /\ datend \in Nat
      /\ Slots \subseteq Nat
  <2>1. Slots \subseteq Nat
    BY Sizes DEF Slots
  <2> QED BY <1>1, <2>1, HandleFields
<1>4. \A c \in Cells \ C : /\ own2[c] = own[c] /\ rk2[c] = rk[c] /\ Link(c)' = Link(c)
                           /\ c \in Recs => rec'[c] = rec[c]
  BY DEF WritesOnly
<1>5. \A c \in C : /\ {own[c], own2[c]} \subseteq {chainoff(p), FREE_OFF, Off}
                   /\ own[c] = Off => c \in Private(p)
                   /\ FREE_OFF \in {own[c], own2[c]} =>
                        {pc[p], pc'[p]} \cap (DelWindow \cup FreeWindow) # {}
  BY DEF WritesOnly
<1>6. \A r \in Private(q) : /\ r \in Recs /\ own[r] = Off /\ r \notin C
                            /\ IF pc[q] = "app_idx" THEN r = idxend ELSE r < idxend
  <2> TAKE r \in Private(q)
  <2>1. r \in Recs /\ own[r] = Off /\ IF pc[q] = "app_idx" THEN r = idxend ELSE r < idxend
    BY <1>1, PrivateOff
  <2>2. r \notin Private(p)
    BY DEF Shape, Apart
  <2> QED BY <2>1, <2>2, <1>5
<1>7. pc[q] \in InChain => SameList(own, rk, own2, rk2, chainoff(q))
  <2> SUFFICES ASSUME pc[q] \in InChain PROVE SameList(own, rk, own2, rk2, chainoff(q))
    OBVIOUS
  <2>1. chainoff(q) \notin {chainoff(p), FREE_OFF, Off}
    BY <1>1, ChainsApart, ChainHead DEF ChainExclusion
  <2>2. \A c \in C : own[c] # chainoff(q) /\ own2[c] # chainoff(q)
    BY <2>1, <1>5
  <2> QED BY <2>2, <1>4 DEF SameList
<1>8. pc[q] \in DelWindow \cup FreeWindow => SameList(own, rk, own2, rk2, FREE_OFF)
  <2> SUFFICES ASSUME pc[q] \in DelWindow \cup FreeWindow
               PROVE  SameList(own, rk, own2, rk2, FREE_OFF)
    OBVIOUS
  <2>1. pc[p] \notin DelWindow \cup FreeWindow
    BY FreeListApart DEF FreeListExclusion
  <2>2. pc'[p] \notin DelWindow \cup FreeWindow
    <3>1. FreeListExclusion'
      BY FreeListApart, PTL
    <3> QED BY <3>1, <1>2 DEF FreeListExclusion
  <2>3. \A c \in C : own[c] # FREE_OFF /\ own2[c] # FREE_OFF
    BY <2>1, <2>2, <1>5
  <2> QED BY <2>3, <1>4 DEF SameList
<1>9. \A r \in Private(q) : own2[r] = Off /\ rec'[r] = rec[r] /\ Link(r)' = Link(r)
  BY <1>3, <1>4, <1>6
<1>10. \A r \in Recs : r < idxend => rec[r].datoff < datend
  BY <1>1 DEF DataOwned
<1>11. /\ idxend' = idxend \/ (pc[p] = "app_idx" /\ idxend' = idxend + 1)
       /\ datend' = datend \/ (pc[p] = "app_dat" /\ datend' = datend + 1)
  BY DEF WritesOnly
<1>12. \A d \in D : \/ pc[p] = "app_dat" /\ d = datend
                    \/ \E r \in Recs : /\ r < idxend /\ rec[r].datoff = d
                                       /\ own[r] # Off \/ r \in Private(p)
  BY DEF WritesOnly
<1>13. ASSUME NEW r \in Private(q), r < idxend
       PROVE  r < idxend' /\ dat'[rec[r].datoff] = dat[rec[r].datoff]
  <2>1. r \in Recs /\ own[r] = Off /\ r \notin Private(p)
    BY <1>6 DEF Shape, Apart
  <2>2. r < idxend'
    BY <1>13, <1>11, <1>3, <2>1, CellKinds
  <2>3. rec[r].datoff \notin D
    <3> SUFFICES ASSUME rec[r].datoff \in D PROVE FALSE
      OBVIOUS
    <3>1. rec[r].datoff # datend
      BY <1>10, <1>13, <1>3, <2>1
    <3>2. PICK s \in Recs : /\ s < idxend /\ rec[s].datoff = rec[r].datoff
                            /\ own[s] # Off \/ s \in Private(p)
      BY <1>12, <3>1
    <3>3. s = r
      BY <1>1, <1>13, <2>1, <3>2 DEF DataOwned
    <3> QED BY <3>2, <3>3, <2>1
  <2>4. dat'[rec[r].datoff] = dat[rec[r].datoff]
    BY <2>1, <2>3, <1>3 DEF WritesOnly
  <2> QED BY <2>2, <2>4
<1>14. pc[q] = "app_dat" => datend' = datend
  BY <1>11, AppendApart DEF AppendExclusion
<1>15. pc[q] = "app_idx" => idxend' = idxend
  BY <1>11, AppendApart DEF AppendExclusion
<1>16. ASSUME pc[q] \in {"app_idx_seek", "app_idx"}
       PROVE  /\ h[q].datoff < datend' /\ dat'[h[q].datoff] = dat[h[q].datoff]
              /\ \A r \in Recs : r < idxend' => rec'[r].datoff # h[q].datoff
  <2>1. /\ h[q].datoff < datend
        /\ \A r \in Recs : r < idxend => rec[r].datoff # h[q].datoff
    BY <1>1, <1>16 DEF AtWork, Growing
  <2>2. h[q].datoff < datend'
    BY <2>1, <1>11, <1>3
  <2>3. h[q].datoff \notin D
    BY <2>1, <1>12, <1>3
  <2>4. dat'[h[q].datoff] = dat[h[q].datoff]
    BY <2>3, <1>3 DEF WritesOnly
  <2>5. ASSUME NEW r \in Recs, r < idxend', rec'[r].datoff = h[q].datoff PROVE FALSE
    <3>1. pc[p] = "app_idx" /\ rec'[r].datoff = h[p].datoff
      BY <2>1, <2>5 DEF WritesOnly
    <3>2. h[p].datoff # h[q].datoff
      BY <3>1, <1>16 DEF Shape, Apart
    <3> QED BY <3>1, <3>2, <2>5
  <2> QED BY <2>2, <2>4, <2>5
<1>17. ASSUME pc[q] = "next_dat"
       PROVE  rec'[h[q].idxoff] = rec[h[q].idxoff] /\ h[q].idxoff < idxend'
  <2>1. /\ h[q].idxoff \in Recs /\ h[q].idxoff < idxend
        /\ rec[h[q].idxoff].key # NoKey
    BY <1>1, <1>17 DEF AtWork, Scanning
  <2>2. pc[p] \notin DelWindow
    BY <1>17, FreeListApart DEF FreeListExclusion
  <2>3. h[q].idxoff < idxend'
    BY <2>1, <1>11, <1>3, CellKinds
  <2> QED BY <2>1, <2>2, <2>3 DEF WritesOnly
<1> HIDE DEF WritesOnly
<1> QED BY <1>1, <1>7, <1>8, <1>9, <1>13, <1>14, <1>15, <1>16, <1>17, OtherKept

\* No record is in two hands after a step that gives p only what nobody had.
LEMMA ApartStep ==
  ASSUME NEW own, NEW rk, Shape(own, rk), NEW p \in Procs,
         \A q \in Procs \ {p} : Still(q),
         \A q \in Procs \ {p} : Private(p)' \cap Private(q) = {},
         pc'[p] \in {"app_idx_seek", "app_idx"} =>
           \A q \in Procs \ {p} : pc[q] \in {"app_idx_seek", "app_idx"}
                                    => h'[p].datoff # h[q].datoff
  PROVE  Apart'
<1>1. \A q \in Procs \ {p} : pc'[q] = pc[q] /\ h'[q] = h[q] /\ Private(q)' = Private(q)
  BY DEF Still, Private
<1>2. Apart
  BY DEF Shape
<1> QED BY <1>1, <1>2 DEF Apart

\* No record is lost by a step that leaves each one it takes from a list, or adds
\* to the file, in the hands of p, and puts each one it had in a list.
LEMMA LostStep ==
  ASSUME NEW own, NEW rk, Shape(own, rk), NEW own2, NEW p \in Procs,
         \A q \in Procs \ {p} : Still(q), pc[p] # "dead" \/ pc'[p] = "dead",
         \A r \in Recs : r < idxend' => r < idxend \/ r \in Private(p)',
         \A r \in Recs : own[r] # Off => own2[r] # Off \/ r \in Private(p)',
         pc'[p] = "dead" \/ \A r \in Private(p) : own2[r] # Off \/ r \in Private(p)'
  PROVE  NoneLost(own2)'
<1>1. \A q \in Procs \ {p} : pc'[q] = pc[q] /\ Private(q)' = Private(q)
  BY DEF Still, Private
<1> SUFFICES ASSUME Alive', NEW r \in Recs, r < idxend', own2[r] = Off
             PROVE  \E q \in Procs : r \in Private(q)'
  BY DEF NoneLost
<1>2. Alive /\ pc'[p] # "dead"
  BY <1>1 DEF Alive
<1>3. CASE r \in Private(p)'
  BY <1>3
<1>4. CASE r \notin Private(p)'
  <2>1. r < idxend /\ own[r] = Off /\ r \notin Private(p)
    BY <1>2, <1>4
  <2>2. PICK q \in Procs : r \in Private(q)
    BY <1>2, <2>1 DEF Shape, NoneLost
  <2> QED BY <1>1, <2>1, <2>2
<1> QED BY <1>3, <1>4

\* Links stay when no pointer is written and no deletion begins or ends.
LEMMA SameLinks ==
  ASSUME LockInv, NEW p \in Procs, \A q \in Procs \ {p} : Still(q), ptr' = ptr,
         \/ pc[p] \notin DelWindow /\ pc'[p] \notin DelWindow
         \/ /\ pc[p] \in DelWindow /\ pc'[p] \in DelWindow
            /\ h'[p].ptroff = h[p].ptroff /\ h'[p].ptrval = h[p].ptrval
  PROVE  (\A c : Link(c)' = Link(c)) /\ LinkF' = LinkF
<1>1. \A c : Link(c)' = Link(c)
  <2> TAKE c
  <2>1. Unlinking(c)' = Unlinking(c)
    BY DEF Unlinking, Still
  <2>2. \A q \in Procs : pc[q] \in DelWindow => h'[q].ptrval = h[q].ptrval
    BY DEF Still
  <2>3. (CHOOSE q \in Unlinking(c)' : TRUE) = (CHOOSE q \in Unlinking(c) : TRUE)
    BY <2>1
  <2>4. Unlinking(c) # {} => (CHOOSE q \in Unlinking(c) : TRUE) \in Unlinking(c)
    OBVIOUS
  <2>5. Unlinking(c) # {} =>
          h'[CHOOSE q \in Unlinking(c) : TRUE].ptrval = h[CHOOSE q \in Unlinking(c) : TRUE].ptrval
    BY <2>2, <2>4 DEF Unlinking
  <2> QED BY <2>1, <2>3, <2>5 DEF Link
<1> QED BY <1>1 DEF LinkF

\* Each control point concerns only some of what AtWork says.
LEMMA WorkCases ==
  ASSUME NEW own, NEW rk, NEW p \in Procs
  PROVE  /\ pc'[p] \in {"idle", "find", "next_lock", "next_idx", "doreturn", "dead"}
              => AtWork(own, rk, p)'
         /\ pc'[p] = "walk" /\ Searching(own, rk, p)' => AtWork(own, rk, p)'
         /\ pc'[p] \in {"fetch_dat", "del_dat", "over_dat"} /\ Reached(own, p)'
              => AtWork(own, rk, p)'
         /\ pc'[p] \in DelWindow /\ Deleting(own, p)' => AtWork(own, rk, p)'
         /\ pc'[p] \in {"head", "free_find"} /\ Inserting(own, p)' => AtWork(own, rk, p)'
         /\ pc'[p] \in FreeWindow /\ Inserting(own, p)' /\ Freeing(own, p)'
              => AtWork(own, rk, p)'
         /\ pc'[p] \in Reusing /\ Inserting(own, p)' /\ Refilling(own, p)'
              => AtWork(own, rk, p)'
         /\ pc'[p] \in Appending /\ Inserting(own, p)' /\ Growing(p)' => AtWork(own, rk, p)'
         /\ pc'[p] = "commit" /\ Inserting(own, p)' /\ Committing(own, p)'
              => AtWork(own, rk, p)'
         /\ pc'[p] = "next_dat" /\ Scanning(p)' => AtWork(own, rk, p)'
<1> DEFINE at == pc'[p]
<1>1. at # "walk" => Searching(own, rk, p)'
  BY DEF Searching
<1>2. at \notin {"fetch_dat", "del_dat", "over_dat"} => Reached(own, p)'
  BY DEF Reached
<1>3. at \notin DelWindow => Deleting(own, p)'
  BY DEF Deleting, DelWindow
<1>4. at \notin Storing => Inserting(own, p)'
  BY DEF Inserting
<1>5. at \notin FreeWindow => Freeing(own, p)'
  BY DEF Freeing, FreeWindow
<1>6. at \notin Reusing => Refilling(own, p)'
  BY DEF Refilling, Reusing
<1>7. at \notin Appending => Growing(p)'
  BY DEF Growing, Appending
<1>8. at # "commit" => Committing(own, p)'
  BY DEF Committing
<1>9. at # "next_dat" => Scanning(p)'
  BY DEF Scanning
<1>10. /\ "walk" \notin {"fetch_dat", "del_dat", "over_dat", "next_dat"} \cup DelWindow \cup Storing
       /\ {"fetch_dat", "del_dat", "over_dat", "next_dat"} \cap (DelWindow \cup Storing) = {}
       /\ DelWindow \cap Storing = {} /\ FreeWindow \cap (Reusing \cup Appending) = {}
       /\ Reusing \cap Appending = {}
       /\ {"head", "free_find"} \cap (FreeWindow \cup Reusing \cup Appending \cup {"commit"}) = {}
       /\ "commit" \notin FreeWindow \cup Reusing \cup Appending
       /\ FreeWindow \cup Reusing \cup Appending \cup {"head", "free_find", "commit"} \subseteq Storing
       /\ {"idle", "find", "next_lock", "next_idx", "doreturn", "dead"} \cap
            ({"walk", "fetch_dat", "del_dat", "over_dat", "next_dat"} \cup DelWindow \cup Storing) = {}
  BY DEF DelWindow, Storing, FreeWindow, Reusing, Appending
<1>11. AtWork(own, rk, p)' <=>
         /\ Searching(own, rk, p)' /\ Reached(own, p)' /\ Deleting(own, p)'
         /\ Inserting(own, p)' /\ Freeing(own, p)' /\ Refilling(own, p)'
         /\ Growing(p)' /\ Committing(own, p)' /\ Scanning(p)'
  BY DEF AtWork
<1> HIDE DEF at
<1>12. at \in {"idle", "find", "next_lock", "next_idx", "doreturn", "dead"} => AtWork(own, rk, p)'
  BY <1>1, <1>2, <1>3, <1>4, <1>5, <1>6, <1>7, <1>8, <1>9, <1>10, <1>11
<1>13. at = "walk" /\ Searching(own, rk, p)' => AtWork(own, rk, p)'
  BY <1>1, <1>2, <1>3, <1>4, <1>5, <1>6, <1>7, <1>8, <1>9, <1>10, <1>11
<1>14. at \in {"fetch_dat", "del_dat", "over_dat"} /\ Reached(own, p)' => AtWork(own, rk, p)'
  BY <1>1, <1>2, <1>3, <1>4, <1>5, <1>6, <1>7, <1>8, <1>9, <1>10, <1>11
<1>15. at \in DelWindow /\ Deleting(own, p)' => AtWork(own, rk, p)'
  BY <1>1, <1>2, <1>3, <1>4, <1>5, <1>6, <1>7, <1>8, <1>9, <1>10, <1>11
<1>16. at \in {"head", "free_find"} /\ Inserting(own, p)' => AtWork(own, rk, p)'
  BY <1>1, <1>2, <1>3, <1>4, <1>5, <1>6, <1>7, <1>8, <1>9, <1>10, <1>11
<1>17. at \in FreeWindow /\ Inserting(own, p)' /\ Freeing(own, p)' => AtWork(own, rk, p)'
  BY <1>1, <1>2, <1>3, <1>4, <1>5, <1>6, <1>7, <1>8, <1>9, <1>10, <1>11
<1>18. at \in Reusing /\ Inserting(own, p)' /\ Refilling(own, p)' => AtWork(own, rk, p)'
  BY <1>1, <1>2, <1>3, <1>4, <1>5, <1>6, <1>7, <1>8, <1>9, <1>10, <1>11
<1>19. at \in Appending /\ Inserting(own, p)' /\ Growing(p)' => AtWork(own, rk, p)'
  BY <1>1, <1>2, <1>3, <1>4, <1>5, <1>6, <1>7, <1>8, <1>9, <1>10, <1>11
<1>20. at = "commit" /\ Inserting(own, p)' /\ Committing(own, p)' => AtWork(own, rk, p)'
  BY <1>1, <1>2, <1>3, <1>4, <1>5, <1>6, <1>7, <1>8, <1>9, <1>10, <1>11
<1>21. at = "next_dat" /\ Scanning(p)' => AtWork(own, rk, p)'
  BY <1>1, <1>2, <1>3, <1>4, <1>5, <1>6, <1>7, <1>8, <1>9, <1>10, <1>11
<1> QED BY <1>12, <1>13, <1>14, <1>15, <1>16, <1>17, <1>18, <1>19, <1>20, <1>21 DEF at

\* A step that writes to no file keeps the lists as they are.
LEMMA QuietStep ==
  ASSUME LockInv, LockInv', NEW own, NEW rk, Shape(own, rk), NEW p \in Procs,
         \A q \in Procs \ {p} : Still(q), UNCHANGED <<idxfile, datfile>>,
         pc[p] # "dead" \/ pc'[p] = "dead", LinkF' = LinkF, \A c : Link(c)' = Link(c),
         AtWork(own, rk, p)',
         \/ Private(p)' = Private(p)
         \/ pc'[p] = "dead"
         \/ Private(p) = {} /\ pc'[p] = "app_idx",
         pc'[p] \in {"app_idx_seek", "app_idx"} =>
           pc[p] \in {"app_idx_seek", "app_idx"} /\ h'[p].datoff = h[p].datoff
  PROVE  Shape(own, rk)'
<1>1. ptr' = ptr /\ rec' = rec /\ idxend' = idxend /\ dat' = dat /\ datend' = datend
  BY DEF idxfile, datfile
<1>2. Sorted(LinkF, own, rk)' /\ Listed(own)' /\ DataOwned'
  BY <1>1 DEF Shape, Sorted, After, Listed, DataOwned
<1>3. ASSUME NEW q \in Procs PROVE AtWork(own, rk, q)'
  <2>1. CASE q = p
    BY <2>1
  <2>2. CASE q # p
    <3>1. Still(q) /\ TypeOK /\ AtWork(own, rk, q)
      BY <2>2 DEF LockInv, Shape
    <3>2. /\ SameList(own, rk, own, rk, chainoff(q))
          /\ SameList(own, rk, own, rk, FREE_OFF)
      BY <1>1 DEF SameList
    <3>3. \A r \in Private(q) : own[r] = Off /\ rec'[r] = rec[r] /\ Link(r)' = Link(r)
      BY <1>1, <3>1, PrivateOff
    <3>4. \A r \in Private(q) : r < idxend => r < idxend' /\ dat'[rec[r].datoff] = dat[rec[r].datoff]
      BY <1>1
    <3>5. pc[q] = "app_dat" => datend' = datend
      BY <1>1
    <3>6. pc[q] \in {"app_idx_seek", "app_idx"} =>
           /\ h[q].datoff < datend' /\ dat'[h[q].datoff] = dat[h[q].datoff]
           /\ \A r \in Recs : r < idxend' => rec'[r].datoff # h[q].datoff
      BY <1>1, <3>1 DEF AtWork, Growing
    <3>7. pc[q] = "app_idx" => idxend' = idxend
      BY <1>1
    <3>8. pc[q] = "next_dat" => rec'[h[q].idxoff] = rec[h[q].idxoff] /\ h[q].idxoff < idxend'
      BY <1>1, <3>1 DEF AtWork, Scanning
    <3> QED BY <3>1, <3>2, <3>3, <3>4, <3>5, <3>6, <3>7, <3>8, OtherKept
  <2> QED BY <2>1, <2>2
<1>4. ASSUME NEW q \in Procs \ {p} PROVE Private(p)' \cap Private(q) = {}
  <2>1. CASE Private(p)' = Private(p)
    BY <2>1 DEF Shape, Apart
  <2>2. CASE pc'[p] = "dead"
    BY <2>2 DEF Private, Reusing, DelWindow
  <2>3. CASE pc'[p] = "app_idx"
    <3>1. Private(p)' = {h'[p].idxoff} /\ h'[p].idxoff = idxend
      BY <2>3, <1>1 DEF Private, AtWork, Growing
    <3>2. pc[q] # "app_idx"
      <4>1. AppendExclusion'
        BY AppendApart, PTL
      <4> QED BY <4>1, <2>3 DEF Still, AppendExclusion
    <3>3. \A r \in Private(q) : r \in Recs /\ r < idxend
      BY <3>2, PrivateOff DEF LockInv
    <3>4. idxend \in Nat
      BY HandleFields DEF LockInv
    <3> QED BY <3>1, <3>3, <3>4
  <2> QED BY <2>1, <2>2, <2>3
<1>5. pc'[p] \in {"app_idx_seek", "app_idx"} =>
        \A q \in Procs \ {p} : pc[q] \in {"app_idx_seek", "app_idx"}
                                 => h'[p].datoff # h[q].datoff
  BY DEF Shape, Apart
<1>6. Apart'
  BY <1>4, <1>5, ApartStep
<1>7. NoneLost(own)'
  BY <1>1, LostStep
<1> QED BY <1>2, <1>3, <1>6, <1>7 DEF Shape

\* A step that writes keeps what is true of the lists, if it does so for the
\* process that makes it.
LEMMA WriteStep ==
  ASSUME LockInv, LockInv', NEW own, NEW rk, Shape(own, rk), NEW p \in Procs,
         \A q \in Procs \ {p} : Still(q), Writing(p),
         NEW own2, NEW rk2, NEW C, NEW D, WritesOnly(own, rk, own2, rk2, p, C, D),
         Sorted(LinkF', own2, rk2), Listed(own2)', DataOwned', AtWork(own2, rk2, p)',
         \A q \in Procs \ {p} : Private(p)' \cap Private(q) = {},
         pc'[p] \in {"app_idx_seek", "app_idx"} =>
           \A q \in Procs \ {p} : pc[q] \in {"app_idx_seek", "app_idx"}
                                    => h'[p].datoff # h[q].datoff,
         \A r \in Recs : r < idxend' => r < idxend \/ r \in Private(p)',
         \A r \in Recs : own[r] # Off => own2[r] # Off \/ r \in Private(p)',
         \A r \in Private(p) : own2[r] # Off \/ r \in Private(p)'
  PROVE  Shape(own2, rk2)'
<1>1. ASSUME NEW q \in Procs PROVE AtWork(own2, rk2, q)'
  BY WriterFrame
<1>2. Apart'
  BY ApartStep
<1>3. pc[p] # "dead"
  BY DEF Writing, InChain, DelWindow, FreeWindow, Reusing, Appending
<1>4. NoneLost(own2)'
  BY <1>3, LostStep
<1>5. Sorted(LinkF, own2, rk2)'
  BY DEF Sorted, After
<1> QED BY <1>1, <1>2, <1>4, <1>5 DEF Shape

-----------------------------------------------------------------------------
(* The steps that write to no file: searching, reading and returning.      *)

\* Control points of a process with no record in its hands.
Plain == {"idle", "find", "next_lock", "next_idx", "next_dat", "walk", "fetch_dat",
          "del_dat", "over_dat", "doreturn", "head", "free_find",
          "app_dat_seek", "app_dat"} \cup FreeWindow

\* A step from one such point to another keeps the lists, if what is said of the
\* new point is true; links are as they were.
LEMMA PlainLinks ==
  ASSUME LockInv, NEW p \in Procs, \A q \in Procs \ {p} : Still(q),
         UNCHANGED <<idxfile, datfile>>, pc[p] \in Plain, pc'[p] \in Plain
  PROVE  /\ (\A c : Link(c)' = Link(c)) /\ LinkF' = LinkF
         /\ ptr' = ptr /\ rec' = rec /\ idxend' = idxend /\ dat' = dat /\ datend' = datend
<1>1. ptr' = ptr /\ rec' = rec /\ idxend' = idxend /\ dat' = dat /\ datend' = datend
  BY DEF idxfile, datfile
<1>2. pc[p] \notin DelWindow /\ pc'[p] \notin DelWindow
  BY DEF Plain, DelWindow, FreeWindow
<1> QED BY <1>1, <1>2, SameLinks

\* A step that writes no file and leaves p outside of every window keeps the
\* invariant when the facts about p hold where p is now.
LEMMA PlainStep ==
  ASSUME LockInv, LockInv', NEW own, NEW rk, Shape(own, rk), NEW p \in Procs,
         \A q \in Procs \ {p} : Still(q), UNCHANGED <<idxfile, datfile>>,
         pc[p] \in Plain, pc'[p] \in Plain, AtWork(own, rk, p)'
  PROVE  Shape(own, rk)'
<1>1. /\ pc[p] \notin Reusing \cup {"commit", "app_idx"} \cup DelWindow
      /\ pc'[p] \notin Reusing \cup {"commit", "app_idx"} \cup DelWindow
      /\ pc[p] # "dead" /\ pc'[p] \notin {"app_idx_seek", "app_idx"}
  BY DEF Plain, DelWindow, FreeWindow, Reusing
<1>2. Private(p) = {} /\ Private(p)' = {}
  BY <1>1 DEF Private
<1> QED BY <1>1, <1>2, PlainLinks, QuietStep

\* A call begins, returns, fails, or goes on with a scan.
LEMMA RestStep ==
  ASSUME LockInv, LockInv', NEW own, NEW rk, Shape(own, rk), NEW p \in Procs,
         \/ Start(p) \/ FetchDat(p) \/ DoReturn(p)
         \/ (WalkFound(p) \/ WalkMissing(p)) /\ pc'[p] = "doreturn"
         \/ NextLock(p) \/ NextPast(p) \/ NextEof(p) \/ NextDat(p)
  PROVE  Shape(own, rk)'
<1>1. TypeOK
  BY DEF LockInv
<1>2. CASE Start(p)
  <2>1. PICK c \in Calls[p] : Begin(p, c) \/ StoreInvalid(p, c) \/ db_rewind(p, c)
    BY <1>2 DEF Start
  <2>2. /\ \A q \in Procs \ {p} : Still(q)
        /\ UNCHANGED <<idxfile, datfile>> /\ pc[p] = "idle"
        /\ pc'[p] \in {"idle", "find", "next_lock"}
    BY <1>1, <2>1 DEF TypeOK, Begin, StoreInvalid, db_rewind, Still
  <2> QED BY <2>2, PlainStep, WorkCases DEF Plain
<1>3. CASE (WalkMissing(p) /\ pc'[p] = "doreturn") \/ FetchDat(p)
  <2>1. /\ \A q \in Procs \ {p} : Still(q)
        /\ UNCHANGED <<idxfile, datfile>> /\ pc[p] \in {"walk", "fetch_dat"}
        /\ pc'[p] = "doreturn"
    BY <1>1, <1>3 DEF TypeOK, WalkMissing, FetchDat, Goto, Settle, Still
  <2> QED BY <2>1, PlainStep, WorkCases DEF Plain
<1>4. CASE WalkFound(p) /\ pc'[p] = "doreturn"
  <2>1. /\ \A q \in Procs \ {p} : Still(q)
        /\ UNCHANGED <<idxfile, datfile>> /\ pc[p] = "walk"
    BY <1>1, <1>4 DEF TypeOK, WalkFound, Goto, Settle, Still
  <2> QED BY <1>4, <2>1, PlainStep, WorkCases DEF Plain
<1>5. CASE DoReturn(p)
  <2>1. /\ \A q \in Procs \ {p} : Still(q)
        /\ UNCHANGED <<idxfile, datfile>> /\ pc[p] = "doreturn" /\ pc'[p] = "idle"
    BY <1>1, <1>5 DEF TypeOK, DoReturn, Goto, Still
  <2> QED BY <2>1, PlainStep, WorkCases DEF Plain
<1>6. CASE NextLock(p) \/ NextPast(p) \/ NextEof(p) \/ NextDat(p)
  <2>1. /\ \A q \in Procs \ {p} : Still(q)
        /\ UNCHANGED <<idxfile, datfile>>
        /\ pc[p] \in {"next_lock", "next_idx", "next_dat"} /\ pc'[p] \in {"idle", "next_idx"}
    BY <1>1, <1>6 DEF TypeOK, NextLock, NextPast, NextEof, NextDat, Goto, Still
  <2> QED BY <2>1, PlainStep, WorkCases DEF Plain
<1> QED BY <1>2, <1>3, <1>4, <1>5, <1>6

\* _db_find_and_lock locks the chain and starts at its head: nobody is in the
\* middle of a deletion there.
LEMMA FindStep ==
  ASSUME LockInv, LockInv', NEW own, NEW rk, Shape(own, rk), NEW p \in Procs, FindAndLock(p)
  PROVE  Shape(own, rk)'
<1>1. TypeOK
  BY DEF LockInv
<1>2. /\ \A q \in Procs \ {p} : Still(q)
      /\ UNCHANGED <<idxfile, datfile>> /\ pc[p] = "find" /\ pc'[p] = "walk"
      /\ call' = call /\ h'[p].ptroff = chainoff(p) /\ h'[p].offset = ptr[chainoff(p)]
  <2>1. h[p] \in Handle
    BY <1>1 DEF TypeOK
  <2> QED BY <1>1, <2>1 DEF TypeOK, FindAndLock, Goto, Still, Handle
<1>3. chainoff(p)' = chainoff(p)
  BY <1>2 DEF chainoff
<1>4. chainoff(p) \in Heads /\ chainoff(p) # Off /\ own[chainoff(p)] = chainoff(p)
  BY <1>1, <1>2, ChainHead DEF Shape, Sorted
<1>5. /\ \A c : Link(c)' = Link(c)
      /\ rec' = rec
  BY <1>2, PlainLinks DEF Plain
<1>6. Link(chainoff(p)) = ptr[chainoff(p)]
  <2> SUFFICES ASSUME NEW q \in Procs, pc[q] \in DelWindow, h[q].ptroff = chainoff(p)
               PROVE  FALSE
    BY LinkValue
  <2>1. q # p
    BY <1>2 DEF DelWindow
  <2>2. own[chainoff(p)] = chainoff(q)
    BY DEF Shape, AtWork, Deleting
  <2>3. pc[q] \in InChain /\ call[q].kind # "fetch"
    BY <1>1 DEF InChain, TypeOK, CallFits
  <2>4. Writing(q)' /\ chainoff(q)' = chainoff(q)
    BY <1>2, <2>1, <2>3 DEF Writing, Still, chainoff
  <2>5. ChainExclusion'
    BY ChainsApart, PTL
  <2> QED BY <1>2, <1>3, <1>4, <2>1, <2>2, <2>4, <2>5 DEF ChainExclusion, InChain
<1>7. \A r \in Recs : own[r] = chainoff(p) => ~(rk[r] >= rk[chainoff(p)])
  <2>1. \A r \in Recs : own[r] = chainoff(p) => rk[r] < rk[chainoff(p)]
    BY <1>4 DEF Shape, Sorted
  <2>2. \A r \in Recs : rk[r] \in Nat
    BY CellKinds DEF Shape, Sorted
  <2>3. rk[chainoff(p)] \in Nat
    BY <1>4, CellKinds DEF Shape, Sorted
  <2> QED BY <2>1, <2>2, <2>3
<1>8. Searching(own, rk, p)'
  BY <1>2, <1>3, <1>4, <1>5, <1>6, <1>7 DEF Searching
<1> QED BY <1>2, <1>8, PlainStep, WorkCases DEF Plain

\* A list goes on from a place to the record that the link there leads to: what is
\* at or before that record is at or before the place, or is that record.
LEMMA NextOnList ==
  ASSUME NEW own, NEW rk, Sorted(LinkF, own, rk), NEW c \in Cells, own[c] # Off
  PROVE  /\ Link(c) \in Ptrs
         /\ Link(c) # 0 => Link(c) \in Recs /\ own[Link(c)] = own[c]
         /\ \A r \in Recs : own[r] = own[c] =>
              \/ rk[r] >= rk[c]
              \/ Link(c) # 0 /\ (rk[r] >= rk[Link(c)] => r = Link(c))
<1>1. LinkF[c] = Link(c)
  BY DEF LinkF
<1>2. /\ rk[c] \in Nat /\ Link(c) \in Ptrs
      /\ Link(c) # 0 => /\ Link(c) \in Recs /\ own[Link(c)] = own[c]
                        /\ rk[Link(c)] \in Nat
      /\ \A s \in Recs : own[s] = own[c] /\ rk[s] < rk[c] =>
           Link(c) \in Recs /\ rk[s] <= rk[Link(c)]
  BY <1>1, SortedCell
<1>3. ASSUME NEW r \in Recs, own[r] = own[c], ~(rk[r] >= rk[c])
      PROVE  Link(c) # 0 /\ (rk[r] >= rk[Link(c)] => r = Link(c))
  <2>1. rk[r] \in Nat /\ 0 \notin Recs
    BY CellKinds DEF Sorted
  <2>2. rk[r] < rk[c]
    BY <1>2, <1>3, <2>1
  <2>3. Link(c) \in Recs /\ rk[r] <= rk[Link(c)]
    BY <1>2, <1>3, <2>2
  <2>4. Link(c) # 0 /\ rk[Link(c)] \in Nat /\ own[Link(c)] = own[c]
    BY <1>2, <2>1, <2>3
  <2>5. ASSUME rk[r] >= rk[Link(c)] PROVE r = Link(c)
    <3>1. rk[r] = rk[Link(c)]
      BY <2>1, <2>3, <2>4, <2>5
    <3> QED BY <3>1, <1>3, <2>3, <2>4 DEF Sorted
  <2> QED BY <2>4, <2>5
<1> QED BY <1>2, <1>3

\* The search of a hash chain goes on behind a record with another key.
LEMMA WalkPastStep ==
  ASSUME LockInv, LockInv', NEW own, NEW rk, Shape(own, rk), NEW p \in Procs, WalkPast(p)
  PROVE  Shape(own, rk)'
<1> DEFINE o == h[p].offset
<1>1. TypeOK /\ Sorted(LinkF, own, rk) /\ Searching(own, rk, p)
  BY DEF LockInv, Shape, AtWork
<1>2. /\ \A q \in Procs \ {p} : Still(q)
      /\ UNCHANGED <<idxfile, datfile>> /\ pc[p] = "walk" /\ pc'[p] = "walk"
      /\ call' = call /\ h'[p].ptroff = o /\ h'[p].offset = ptr[o]
      /\ o \in Recs /\ rec[o].key # call[p].key
  <2>1. h[p] \in Handle
    BY <1>1 DEF TypeOK
  <2> QED BY <1>1, <2>1 DEF TypeOK, WalkPast, ReadIdx, Still, Handle
<1>3. chainoff(p)' = chainoff(p)
  BY <1>2 DEF chainoff
<1>4. chainoff(p) # Off /\ h[p].ptroff \in Cells /\ o \in Cells /\ o # 0
  BY <1>1, <1>2, ChainHead, HandleFields DEF InChain
<1>5. /\ \A c : Link(c)' = Link(c)
      /\ rec' = rec
  BY <1>2, PlainLinks DEF Plain
<1>6. /\ own[h[p].ptroff] = chainoff(p) /\ Link(h[p].ptroff) = o
      /\ \A r \in Recs : own[r] = chainoff(p) /\ rk[r] >= rk[h[p].ptroff]
                           => rec[r].key # call[p].key
  BY <1>1, <1>2 DEF Searching
<1>7. own[o] = chainoff(p)
  BY <1>1, <1>4, <1>6, NextOnList
<1>8. Link(o) = ptr[o]
  BY <1>2, <1>4, <1>7, LinkRead DEF InChain, DelWindow
<1>9. \A r \in Recs : own[r] = chainoff(p) /\ rk[r] >= rk[o] => rec[r].key # call[p].key
  <2> SUFFICES ASSUME NEW r \in Recs, own[r] = chainoff(p), rk[r] >= rk[o]
               PROVE  rec[r].key # call[p].key
    OBVIOUS
  <2>1. rk[r] >= rk[h[p].ptroff] \/ r = o
    BY <1>1, <1>4, <1>6, NextOnList
  <2> QED BY <2>1, <1>2, <1>6
<1>10. Searching(own, rk, p)'
  BY <1>2, <1>3, <1>5, <1>7, <1>8, <1>9 DEF Searching
<1> QED BY <1>2, <1>10, PlainStep, WorkCases DEF Plain

\* The search finds the record: the handle describes it from now on.
LEMMA WalkFoundStep ==
  ASSUME LockInv, LockInv', NEW own, NEW rk, Shape(own, rk), NEW p \in Procs, WalkFound(p)
  PROVE  Shape(own, rk)'
<1> DEFINE o == h[p].offset
<1>1. TypeOK /\ Sorted(LinkF, own, rk) /\ Searching(own, rk, p)
  BY DEF LockInv, Shape, AtWork
<1>2. /\ \A q \in Procs \ {p} : Still(q)
      /\ UNCHANGED <<idxfile, datfile>> /\ pc[p] = "walk"
      /\ call' = call /\ h'[p] = ReadIdx(p) /\ o \in Recs /\ rec[o].key = call[p].key
      /\ pc'[p] \in {"fetch_dat", "del_dat", "over_dat", "doreturn"}
      /\ pc'[p] = "over_dat" => DatLen[call[p].val] = rec[o].datlen
  BY <1>1 DEF TypeOK, WalkFound, Goto, Settle, Still
<1>3. /\ h'[p].ptroff = h[p].ptroff /\ h'[p].idxoff = o /\ h'[p].ptrval = ptr[o]
      /\ h'[p].datoff = rec[o].datoff
  <2>1. h[p] \in Handle
    BY <1>1 DEF TypeOK
  <2> QED BY <1>2, <2>1 DEF ReadIdx, Handle
<1>4. chainoff(p)' = chainoff(p)
  BY <1>2 DEF chainoff
<1>5. chainoff(p) # Off /\ h[p].ptroff \in Cells /\ o \in Cells /\ o # 0
  BY <1>1, <1>2, ChainHead, HandleFields DEF InChain
<1>6. /\ \A c : Link(c)' = Link(c)
      /\ rec' = rec
  <2>1. pc'[p] \in Plain
    BY <1>2 DEF Plain
  <2> QED BY <1>2, <2>1, PlainLinks DEF Plain
<1>7. own[h[p].ptroff] = chainoff(p) /\ Link(h[p].ptroff) = o
  BY <1>1, <1>2 DEF Searching
<1>8. own[o] = chainoff(p)
  BY <1>1, <1>5, <1>7, NextOnList
<1>9. Link(o) = ptr[o]
  BY <1>2, <1>5, <1>8, LinkRead DEF InChain, DelWindow
<1>10. Reached(own, p)'
  BY <1>2, <1>3, <1>4, <1>6, <1>7, <1>8, <1>9 DEF Reached
<1>11. AtWork(own, rk, p)'
  BY <1>2, <1>10, WorkCases
<1> QED BY <1>2, <1>11, PlainStep DEF Plain

\* The search for a new record's key comes to the end of the chain.
LEMMA WalkMissingStep ==
  ASSUME LockInv, LockInv', NEW own, NEW rk, Shape(own, rk), NEW p \in Procs, WalkMissing(p)
  PROVE  Shape(own, rk)'
<1>1. TypeOK /\ Sorted(LinkF, own, rk) /\ Searching(own, rk, p)
  BY DEF LockInv, Shape, AtWork
<1>2. /\ \A q \in Procs \ {p} : Still(q)
      /\ UNCHANGED <<idxfile, datfile>> /\ pc[p] = "walk" /\ h[p].offset = 0
      /\ call' = call /\ h' = h /\ pc'[p] \in {"doreturn", "head"}
  BY <1>1 DEF TypeOK, WalkMissing, Goto, Settle, Still
<1>3. CASE pc'[p] = "doreturn"
  BY <1>3, RestStep
<1>4. CASE pc'[p] = "head"
  <2>1. chainoff(p)' = chainoff(p)
    BY <1>2 DEF chainoff
  <2>2. chainoff(p) # Off /\ h[p].ptroff \in Cells
    BY <1>1, <1>2, ChainHead, HandleFields DEF InChain
  <2>3. rec' = rec
    BY <1>2, <1>4, PlainLinks DEF Plain
  <2>4. /\ own[h[p].ptroff] = chainoff(p) /\ Link(h[p].ptroff) = 0
        /\ \A r \in Recs : own[r] = chainoff(p) /\ rk[r] >= rk[h[p].ptroff]
                             => rec[r].key # call[p].key
    BY <1>1, <1>2 DEF Searching
  <2>5. Missing(own, p)
    BY <1>1, <2>2, <2>4, NextOnList DEF Missing
  <2>6. Inserting(own, p)'
    BY <1>2, <1>4, <2>1, <2>3, <2>5 DEF Inserting, Missing, Storing
  <2> QED BY <1>2, <1>4, <2>6, PlainStep, WorkCases DEF Plain
<1> QED BY <1>2, <1>3, <1>4

\* What a store has found out about its chain stays true while it goes on without
\* writing to a file.
LEMMA StillMissing ==
  ASSUME LockInv, NEW own, NEW rk, Shape(own, rk), NEW p \in Procs,
         pc[p] \in Storing \ {"head"}, call' = call, rec' = rec,
         \A c : Link(c)' = Link(c), h'[p].newptr = h[p].newptr
  PROVE  Inserting(own, p)'
<1>1. chainoff(p)' = chainoff(p)
  BY DEF chainoff
<1>2. Missing(own, p) /\ h[p].newptr = Link(chainoff(p))
  BY DEF Shape, AtWork, Inserting
<1>3. Missing(own, p)'
  BY <1>1, <1>2 DEF Missing
<1>4. Link(chainoff(p))' = Link(chainoff(p))
  BY <1>1
<1> QED BY <1>1, <1>2, <1>3, <1>4 DEF Inserting

\* db_store reads the first pointer of its chain: a replacement is appended next,
\* an insertion looks for an empty record.
LEMMA ReadHeadStep ==
  ASSUME LockInv, LockInv', NEW own, NEW rk, Shape(own, rk), NEW p \in Procs, ReadHead(p)
  PROVE  Shape(own, rk)'
<1>1. TypeOK /\ Inserting(own, p)
  BY DEF LockInv, Shape, AtWork
<1>2. /\ \A q \in Procs \ {p} : Still(q)
      /\ UNCHANGED <<idxfile, datfile>> /\ pc[p] = "head"
      /\ pc'[p] \in {"free_find", "app_dat_seek"}
      /\ call' = call /\ h'[p].newptr = ptr[chainoff(p)]
  <2>1. h[p] \in Handle
    BY <1>1 DEF TypeOK
  <2> QED BY <1>1, <2>1 DEF TypeOK, ReadHead, Goto, Still, Handle
<1>3. chainoff(p)' = chainoff(p)
  BY <1>2 DEF chainoff
<1>4. /\ \A c : Link(c)' = Link(c)
      /\ rec' = rec
  BY <1>2, PlainLinks DEF Plain
<1>5. Link(chainoff(p)) = ptr[chainoff(p)]
  <2>1. chainoff(p) \in Cells /\ own[chainoff(p)] = chainoff(p)
    BY <1>1, <1>2, ChainHead DEF InChain, Shape, Sorted
  <2> QED BY <1>2, <2>1, LinkRead DEF InChain, DelWindow
<1>6. Missing(own, p)'
  BY <1>1, <1>2, <1>3, <1>4 DEF Inserting, Missing, Storing
<1>7. Inserting(own, p)'
  BY <1>2, <1>3, <1>4, <1>5, <1>6 DEF Inserting
<1>8. Growing(p)'
  BY <1>2 DEF Growing
<1> QED BY <1>2, <1>7, <1>8, PlainStep, WorkCases DEF Plain, Appending

\* _db_findfree locks the free list and starts at its head.
LEMMA FindFreeStep ==
  ASSUME LockInv, LockInv', NEW own, NEW rk, Shape(own, rk), NEW p \in Procs, FindFree(p)
  PROVE  Shape(own, rk)'
<1>1. TypeOK
  BY DEF LockInv
<1>2. /\ \A q \in Procs \ {p} : Still(q)
      /\ UNCHANGED <<idxfile, datfile>> /\ pc[p] = "free_find" /\ pc'[p] = "free_walk"
      /\ call' = call /\ h'[p].newptr = h[p].newptr
      /\ h'[p].offset = ptr[FREE_OFF] /\ h'[p].ptroff = FREE_OFF
  <2>1. h[p] \in Handle
    BY <1>1 DEF TypeOK
  <2> QED BY <1>1, <2>1 DEF TypeOK, FindFree, Goto, Still, Handle
<1>3. /\ \A c : Link(c)' = Link(c)
      /\ rec' = rec
  BY <1>2, PlainLinks DEF Plain, FreeWindow
<1>4. Inserting(own, p)'
  BY <1>2, <1>3, StillMissing DEF Storing
<1>5. own[FREE_OFF] = FREE_OFF /\ Link(FREE_OFF) = ptr[FREE_OFF]
  <2>1. own[FREE_OFF] = FREE_OFF /\ FREE_OFF \in Cells
    BY CellKinds DEF Shape, Sorted
  <2> QED BY <2>1, LinkRead
<1>6. Freeing(own, p)'
  BY <1>2, <1>3, <1>5 DEF Freeing
<1> QED BY <1>2, <1>4, <1>6, PlainStep, WorkCases DEF Plain, FreeWindow

\* The search of the free list goes on behind a record that does not fit, or
\* ends at one that does.
LEMMA FreeRecStep ==
  ASSUME LockInv, LockInv', NEW own, NEW rk, Shape(own, rk), NEW p \in Procs,
         FreePast(p) \/ FreeFound(p)
  PROVE  Shape(own, rk)'
<1> DEFINE o == h[p].offset
<1>1. TypeOK /\ Sorted(LinkF, own, rk) /\ Freeing(own, p)
  BY DEF LockInv, Shape, AtWork
<1>2. /\ \A q \in Procs \ {p} : Still(q)
      /\ UNCHANGED <<idxfile, datfile>> /\ pc[p] = "free_walk"
      /\ call' = call /\ h'[p].newptr = h[p].newptr /\ o \in Recs
      /\ \/ /\ pc'[p] = "free_walk" /\ h'[p].ptroff = o /\ h'[p].offset = ptr[o]
         \/ /\ pc'[p] = "free_take" /\ h'[p].ptroff = h[p].ptroff /\ h'[p].idxoff = o
            /\ h'[p].ptrval = ptr[o] /\ h'[p].datoff = rec[o].datoff /\ Fits(p, o)
  <2>1. h[p] \in Handle
    BY <1>1 DEF TypeOK
  <2>2. CASE FreePast(p)
    BY <1>1, <2>1, <2>2 DEF TypeOK, FreePast, ReadIdx, Still, Handle
  <2>3. CASE FreeFound(p)
    BY <1>1, <2>1, <2>3 DEF TypeOK, FreeFound, ReadIdx, Goto, Still, Handle
  <2> QED BY <2>2, <2>3
<1>3. /\ \A c : Link(c)' = Link(c)
      /\ rec' = rec
  <2>1. pc[p] \in Plain /\ pc'[p] \in Plain
    BY <1>2 DEF Plain, FreeWindow
  <2> QED BY <1>2, <2>1, PlainLinks
<1>4. Inserting(own, p)'
  BY <1>2, <1>3, StillMissing DEF Storing, FreeWindow
<1>5. own[h[p].ptroff] = FREE_OFF /\ Link(h[p].ptroff) = o
  BY <1>1, <1>2 DEF Freeing, FreeWindow
<1>6. own[o] = FREE_OFF /\ Link(o) = ptr[o]
  <2>1. h[p].ptroff \in Cells /\ o \in Cells /\ o # 0 /\ FREE_OFF # Off
    BY <1>1, <1>2, HandleFields, CellKinds
  <2>2. own[o] = FREE_OFF
    BY <1>1, <1>5, <2>1, NextOnList
  <2> QED BY <2>1, <2>2, LinkRead
<1>7. \A r \in Recs : Fits(p, r)' <=> Fits(p, r)
  BY <1>2, <1>3 DEF Fits
<1>8. Freeing(own, p)'
  <2>1. CASE pc'[p] = "free_walk"
    BY <1>2, <1>3, <1>6, <2>1 DEF Freeing
  <2>2. CASE pc'[p] = "free_take"
    BY <1>2, <1>3, <1>5, <1>6, <1>7, <2>2 DEF Freeing
  <2> QED BY <1>2, <2>1, <2>2
<1>9. pc[p] \in Plain /\ pc'[p] \in Plain /\ pc'[p] \in FreeWindow
  BY <1>2 DEF Plain, FreeWindow
<1> QED BY <1>2, <1>4, <1>8, <1>9, PlainStep, WorkCases

\* No record fits, and the seek to the end of the data file.
LEMMA AppendDatSteps ==
  ASSUME LockInv, LockInv', NEW own, NEW rk, Shape(own, rk), NEW p \in Procs,
         FreeMissing(p) \/ AppendDatSeek(p)
  PROVE  Shape(own, rk)'
<1>1. TypeOK
  BY DEF LockInv
<1>2. /\ \A q \in Procs \ {p} : Still(q)
      /\ UNCHANGED <<idxfile, datfile>> /\ pc[p] \in {"free_walk", "app_dat_seek"}
      /\ call' = call /\ h'[p].newptr = h[p].newptr
      /\ pc'[p] = "app_dat_seek" \/ (pc'[p] = "app_dat" /\ h'[p].datoff = datend)
  <2>1. h[p] \in Handle
    BY <1>1 DEF TypeOK
  <2>2. CASE FreeMissing(p)
    <3>1. /\ UNCHANGED <<idxfile, datfile>> /\ call' = call /\ h' = h
          /\ pc[p] = "free_walk" /\ pc' = [pc EXCEPT ![p] = "app_dat_seek"]
      BY <2>2 DEF FreeMissing, Goto
    <3>2. pc'[p] = "app_dat_seek" /\ \A q \in Procs \ {p} : pc'[q] = pc[q]
      BY <1>1, <3>1 DEF TypeOK
    <3> QED BY <3>1, <3>2 DEF Still
  <2>3. CASE AppendDatSeek(p)
    BY <1>1, <2>1, <2>3 DEF TypeOK, AppendDatSeek, Goto, Still, Handle
  <2> QED BY <2>2, <2>3
<1>3. /\ pc[p] \in Plain /\ pc'[p] \in Plain /\ pc'[p] \in Appending
      /\ pc[p] \in Storing \ {"head"}
  BY <1>2 DEF Plain, FreeWindow, Appending, Storing
<1>4. /\ \A c : Link(c)' = Link(c)
      /\ rec' = rec
      /\ datend' = datend
  BY <1>2, <1>3, PlainLinks
<1>5. Inserting(own, p)'
  BY <1>2, <1>3, <1>4, StillMissing
<1>6. Growing(p)'
  BY <1>2, <1>4 DEF Growing
<1> QED BY <1>2, <1>3, <1>5, <1>6, PlainStep, WorkCases

\* The seek to the end of the index file: the record to be written there is in
\* p's hands from now on.
LEMMA AppendIdxSeekStep ==
  ASSUME LockInv, LockInv', NEW own, NEW rk, Shape(own, rk), NEW p \in Procs, AppendIdxSeek(p)
  PROVE  Shape(own, rk)'
<1>1. TypeOK /\ Growing(p)
  BY DEF LockInv, Shape, AtWork
<1>2. /\ \A q \in Procs \ {p} : Still(q)
      /\ UNCHANGED <<idxfile, datfile>> /\ pc[p] = "app_idx_seek" /\ pc'[p] = "app_idx"
      /\ call' = call /\ h'[p].newptr = h[p].newptr /\ h'[p].datoff = h[p].datoff
      /\ h'[p].idxoff = idxend /\ idxend \in Recs
  <2>1. h[p] \in Handle
    BY <1>1 DEF TypeOK
  <2> QED BY <1>1, <2>1 DEF TypeOK, AppendIdxSeek, Goto, Still, Handle
<1>3. ptr' = ptr /\ rec' = rec /\ idxend' = idxend /\ dat' = dat /\ datend' = datend
  BY <1>2 DEF idxfile, datfile
<1>4. (\A c : Link(c)' = Link(c)) /\ LinkF' = LinkF
  BY <1>2, <1>3, SameLinks DEF DelWindow
<1>5. Inserting(own, p)'
  BY <1>2, <1>3, <1>4, StillMissing DEF Storing, Appending
<1>6. NewDat(p)' = NewDat(p)
  BY <1>2 DEF NewDat
<1>7. Growing(p)'
  BY <1>1, <1>2, <1>3, <1>6 DEF Growing
<1>8. AtWork(own, rk, p)'
  BY <1>2, <1>5, <1>7, WorkCases DEF Appending
<1>9. Private(p) = {}
  BY <1>2 DEF Private, Reusing, DelWindow
<1> QED BY <1>2, <1>4, <1>8, <1>9, QuietStep

\* db_nextrec reads an index record that is not empty.
LEMMA NextFoundStep ==
  ASSUME LockInv, LockInv', NEW own, NEW rk, Shape(own, rk), NEW p \in Procs, NextFound(p)
  PROVE  Shape(own, rk)'
<1>1. TypeOK
  BY DEF LockInv
<1>2. /\ \A q \in Procs \ {p} : Still(q)
      /\ UNCHANGED <<idxfile, datfile>> /\ pc[p] = "next_idx" /\ pc'[p] = "next_dat"
      /\ h'[p].idxoff \in Recs /\ h'[p].idxoff < idxend
      /\ h'[p].kbuf = rec[h'[p].idxoff].key /\ h'[p].kbuf # NoKey
      /\ h'[p].datoff = rec[h'[p].idxoff].datoff
  <2>1. h[p] \in Handle
    BY <1>1 DEF TypeOK
  <2> QED BY <1>1, <2>1 DEF TypeOK, NextFound, Goto, Still, Handle
<1>3. rec' = rec /\ idxend' = idxend
  BY <1>2 DEF idxfile
<1>4. Scanning(p)'
  BY <1>2, <1>3 DEF Scanning
<1> QED BY <1>2, <1>4, PlainStep, WorkCases DEF Plain

\* _db_dodelete reads the pointer that the record will carry on the free list.
LEMMA DelReadFreeStep ==
  ASSUME LockInv, LockInv', NEW own, NEW rk, Shape(own, rk), NEW p \in Procs, DelReadFree(p)
  PROVE  Shape(own, rk)'
<1>1. TypeOK /\ Deleting(own, p)
  BY DEF LockInv, Shape, AtWork
<1>2. /\ \A q \in Procs \ {p} : Still(q)
      /\ UNCHANGED <<idxfile, datfile>> /\ pc[p] = "del_read" /\ pc'[p] = "del_idx"
      /\ call' = call /\ h'[p].newptr = ptr[FREE_OFF]
      /\ h'[p].ptroff = h[p].ptroff /\ h'[p].ptrval = h[p].ptrval
      /\ h'[p].idxoff = h[p].idxoff
  <2>1. h[p] \in Handle
    BY <1>1 DEF TypeOK
  <2> QED BY <1>1, <2>1 DEF TypeOK, DelReadFree, Goto, Still, Handle
<1>3. ptr' = ptr /\ rec' = rec /\ idxend' = idxend /\ dat' = dat /\ datend' = datend
  BY <1>2 DEF idxfile, datfile
<1>4. (\A c : Link(c)' = Link(c)) /\ LinkF' = LinkF
  BY <1>2, <1>3, SameLinks DEF DelWindow
<1>5. Link(FREE_OFF) = ptr[FREE_OFF]
  <2>1. own[FREE_OFF] = FREE_OFF /\ FREE_OFF \in Cells
    BY CellKinds DEF Shape, Sorted
  <2> QED BY <2>1, LinkRead
<1>6. chainoff(p)' = chainoff(p)
  BY <1>2 DEF chainoff
<1>7. Missing(own, p)'
  BY <1>1, <1>2, <1>3, <1>6 DEF Deleting, Missing, DelWindow
<1>8. Deleting(own, p)'
  BY <1>1, <1>2, <1>3, <1>4, <1>5, <1>6, <1>7 DEF Deleting, DelWindow
<1>9. AtWork(own, rk, p)'
  BY <1>2, <1>8, WorkCases DEF DelWindow
<1>10. Private(p)' = Private(p)
  BY <1>2 DEF Private, Reusing, DelWindow
<1> QED BY <1>2, <1>4, <1>9, <1>10, QuietStep

\* A process that exits or is killed outside of a deletion leaves the lists as
\* they are; what it had in its hands is lost.
LEMMA ExitStep ==
  ASSUME LockInv, LockInv', NEW own, NEW rk, Shape(own, rk), NEW p \in Procs, Exit(p),
         pc[p] \notin DelWindow
  PROVE  Shape(own, rk)'
<1>1. TypeOK
  BY DEF LockInv
<1>2. /\ \A q \in Procs \ {p} : Still(q)
      /\ UNCHANGED <<idxfile, datfile>> /\ pc'[p] = "dead"
  BY <1>1 DEF TypeOK, Exit, Still
<1>3. (\A c : Link(c)' = Link(c)) /\ LinkF' = LinkF
  BY <1>2, SameLinks DEF DelWindow, idxfile
<1> QED BY <1>2, <1>3, QuietStep, WorkCases

-----------------------------------------------------------------------------
(* The steps that write to a file.                                         *)

\* LinkValue as one statement about a state.
LinkIs ==
  /\ (\A q \in Procs : pc[q] \notin DelWindow) => \A c : Link(c) = ptr[c]
  /\ \A p \in Procs : pc[p] \in DelWindow =>
       \A c : Link(c) = IF c = h[p].ptroff THEN h[p].ptrval ELSE ptr[c]

\* LinkValue in that form, which can be primed.
LEMMA LinkIsTrue == LockInv => LinkIs
BY LinkValue DEF LinkIs

\* A pointer of p's chain, of the free list or of no list is written by a process
\* that is not deleting: the link there changes and no other.
LEMMA LinkWrite ==
  ASSUME LockInv, LockInv', NEW own, NEW rk, Shape(own, rk), NEW p \in Procs, Writing(p),
         \A q \in Procs \ {p} : Still(q), pc[p] \notin DelWindow, pc'[p] \notin DelWindow,
         NEW e \in Cells, own[e] \in {Off, FREE_OFF, chainoff(p)},
         NEW x, ptr' = [ptr EXCEPT ![e] = x]
  PROVE  /\ LinkF' = [LinkF EXCEPT ![e] = x]
         /\ Link(e)' = x /\ \A c \in Cells \ {e} : Link(c)' = Link(c)
<1>1. TypeOK /\ LinkIs /\ LinkIs'
  <2>1. LinkIs /\ LinkIs'
    BY LinkIsTrue, PTL
  <2> QED BY <2>1 DEF LockInv
<1>2. \A c \in Cells : ptr'[c] = IF c = e THEN x ELSE ptr[c]
  BY <1>1 DEF TypeOK
<1>3. ASSUME NEW q \in Procs, pc[q] \in DelWindow PROVE h[q].ptroff # e /\ q # p
  <2>1. q # p /\ pc[q] \in InChain /\ own[h[q].ptroff] = chainoff(q)
    BY <1>3 DEF InChain, Shape, AtWork, Deleting
  <2>2. chainoff(q) \notin {Off, FREE_OFF}
    BY <1>1, <2>1, ChainHead
  <2>3. chainoff(q) # chainoff(p)
    BY <2>1, ChainsApart DEF ChainExclusion
  <2> QED BY <2>1, <2>2, <2>3
<1>4. \A c \in Cells : Link(c)' = IF c = e THEN x ELSE Link(c)
  <2>1. CASE \A q \in Procs : pc[q] \notin DelWindow
    <3>1. \A q \in Procs : pc'[q] \notin DelWindow
      BY <2>1 DEF Still
    <3>2. \A c : Link(c)' = ptr'[c]
      BY <1>1, <3>1 DEF LinkIs
    <3>3. \A c : Link(c) = ptr[c]
      BY <1>1, <2>1 DEF LinkIs
    <3> QED BY <1>2, <3>2, <3>3
  <2>2. ASSUME NEW q \in Procs, pc[q] \in DelWindow
        PROVE  \A c \in Cells : Link(c)' = IF c = e THEN x ELSE Link(c)
    <3>1. h[q].ptroff # e /\ pc'[q] = pc[q] /\ h'[q] = h[q]
      BY <1>3, <2>2 DEF Still
    <3>2. \A c : Link(c)' = IF c = h[q].ptroff THEN h[q].ptrval ELSE ptr'[c]
      BY <1>1, <2>2, <3>1 DEF LinkIs
    <3>3. \A c : Link(c) = IF c = h[q].ptroff THEN h[q].ptrval ELSE ptr[c]
      BY <1>1, <2>2 DEF LinkIs
    <3> QED BY <1>2, <3>1, <3>2, <3>3
  <2> QED BY <2>1, <2>2
<1>5. LinkF' = [c \in Cells |-> Link(c)'] /\ [LinkF EXCEPT ![e] = x] = [c \in Cells |-> IF c = e THEN x ELSE Link(c)]
  BY DEF LinkF
<1>6. LinkF' = [LinkF EXCEPT ![e] = x]
  BY <1>4, <1>5
<1>7. Link(e)' = x /\ \A c \in Cells \ {e} : Link(c)' = Link(c)
  BY <1>4
<1> QED BY <1>6, <1>7

\* The data of record o is rewritten at its length, and o is taken out of its
\* list or its data is as its list wants it.
DatOnly(own, own2, o, x) ==
  /\ o \in Recs /\ o < idxend
  /\ dat' = [dat EXCEPT ![rec[o].datoff] = x] /\ x.len = rec[o].datlen
  /\ rec' = rec /\ idxend' = idxend /\ datend' = datend
  /\ \A r \in Recs \ {o} : own2[r] = own[r]
  /\ own2[o] \in {own[o], Off}
  /\ own2[o] \in HashHeads => x.val # NoVal
  /\ own2[o] # FREE_OFF

\* Then what is said of the lists and of the data stays true.
LEMMA DatWrite ==
  ASSUME TypeOK, NEW own, NEW rk, Shape(own, rk), NEW p \in Procs,
         NEW own2, NEW o, NEW x, DatOnly(own, own2, o, x)
  PROVE  Listed(own2)' /\ DataOwned'
<1>0. /\ o \in Recs /\ o < idxend
      /\ dat' = [dat EXCEPT ![rec[o].datoff] = x] /\ x.len = rec[o].datlen
      /\ rec' = rec /\ idxend' = idxend /\ datend' = datend
      /\ \A r \in Recs \ {o} : own2[r] = own[r]
      /\ own2[o] \in {own[o], Off}
      /\ own2[o] \in HashHeads => x.val # NoVal
      /\ own2[o] # FREE_OFF
  BY DEF DatOnly
<1>1. /\ \A r \in Recs : rec[r].datoff \in Slots
      /\ dat \in [Slots -> DatType] /\ o \in Nat /\ idxend \in Nat
  BY <1>0, HandleFields DEF TypeOK
<1>2. dat'[rec[o].datoff] = x /\ \A d \in Slots : d # rec[o].datoff => dat'[d] = dat[d]
  BY <1>0, <1>1
<1>3. /\ \A r \in Recs : r < idxend =>
           rec[r].datoff < datend /\ dat[rec[r].datoff].len = rec[r].datlen
      /\ \A r, s \in Recs : r < idxend /\ s < idxend /\ rec[s].datoff = rec[r].datoff => s = r
  BY DEF Shape, DataOwned
<1>4. \A r \in Recs : r < idxend /\ r # o => dat'[rec[r].datoff] = dat[rec[r].datoff]
  BY <1>0, <1>1, <1>2, <1>3
<1>5. DataOwned'
  BY <1>0, <1>2, <1>3, <1>4 DEF DataOwned
<1>6. Listed(own) /\ Off \notin HashHeads /\ FREE_OFF \notin HashHeads /\ Off # FREE_OFF
  BY CellKinds DEF Shape
<1>7. \A r \in Recs : own2[r] # Off => own2[r] = own[r]
  BY <1>0
<1>8. \A r \in Recs : own2[r] # Off => r < idxend'
  BY <1>0, <1>6, <1>7 DEF Listed
<1>9. \A r \in Recs : own2[r] \in HashHeads =>
        /\ rec'[r].key \in Keys /\ own2[r] = HASH_OFF + Hash[rec'[r].key]
        /\ rec'[r].klen = KeyLen[rec'[r].key]
        /\ dat'[rec'[r].datoff].val # NoVal
  BY <1>0, <1>2, <1>4, <1>6, <1>7, <1>8 DEF Listed
<1>10. \A r, s \in Recs : own2[r] \in HashHeads /\ own2[s] \in HashHeads
                            /\ rec'[s].key = rec'[r].key => s = r
  BY <1>0, <1>6, <1>7 DEF Listed
<1>11. \A r \in Recs : own2[r] = FREE_OFF =>
         rec'[r].key = NoKey /\ dat'[rec'[r].datoff].val = NoVal
  BY <1>0, <1>4, <1>6, <1>7, <1>8 DEF Listed
<1> QED BY <1>5, <1>8, <1>9, <1>10, <1>11 DEF Listed

\* Index record o, in no list, is rewritten.
RecOnly(own, o, x) ==
  /\ o \in Recs /\ own[o] = Off
  /\ rec' = [rec EXCEPT ![o] = x] /\ dat' = dat
  /\ idxend' = idxend \/ idxend' = idxend + 1

\* Then the lists are not concerned.
LEMMA RecWrite ==
  ASSUME TypeOK, NEW own, NEW rk, Shape(own, rk), NEW p \in Procs,
         NEW o, NEW x, RecOnly(own, o, x)
  PROVE  Listed(own)'
<1>1. rec \in [Recs -> RecType] /\ idxend \in Nat /\ \A r \in Recs : r \in Nat
  BY HandleFields DEF TypeOK
<1>2. Listed(own) /\ Off \notin HashHeads /\ Off # FREE_OFF
  BY CellKinds DEF Shape
<1>3. \A r \in Recs : own[r] # Off => r # o /\ rec'[r] = rec[r]
  BY <1>1 DEF RecOnly
<1>4. \A r \in Recs : own[r] # Off => r < idxend'
  BY <1>1, <1>2 DEF Listed, RecOnly
<1>5. \A r \in Recs : own[r] \in HashHeads => own[r] # Off
  BY <1>2
<1> QED BY <1>2, <1>3, <1>4, <1>5 DEF Listed, RecOnly

\* A process in the middle of a store or a deletion is writing.
LEMMA Writers ==
  ASSUME TypeOK, NEW p \in Procs,
         pc[p] \in {"del_dat", "over_dat", "commit"} \cup DelWindow \cup FreeWindow
                     \cup Reusing \cup Appending
  PROVE  Writing(p) /\ pc[p] \in InChain
<1>1. pc[p] \in InChain
  BY DEF InChain
<1>2. call[p].kind # "fetch"
  BY DEF TypeOK, CallFits
<1> QED BY <1>1, <1>2 DEF Writing

\* db_store overwrites data of the same length.
LEMMA OverDatStep ==
  ASSUME LockInv, LockInv', NEW own, NEW rk, Shape(own, rk), NEW p \in Procs, OverDat(p)
  PROVE  Shape(own, rk)'
<1>0. PICK o, d, x : o = h[p].idxoff /\ d = rec[o].datoff /\ x = NewDat(p)
  OBVIOUS
<1>1. TypeOK /\ Sorted(LinkF, own, rk) /\ Reached(own, p) /\ Listed(own) /\ Apart
  BY DEF LockInv, Shape, AtWork
<1>2. /\ \A q \in Procs \ {p} : Still(q)
      /\ UNCHANGED <<idxfile, datend, call, h>> /\ pc[p] = "over_dat" /\ pc'[p] = "doreturn"
      /\ dat' = [dat EXCEPT ![h[p].datoff] = NewDat(p)]
  BY <1>1 DEF TypeOK, OverDat, Goto, Settle, Still, NewDat
<1>3. /\ o \in Recs /\ own[o] = chainoff(p) /\ h[p].datoff = d
      /\ rec[o].datlen = DatLen[call[p].val]
  BY <1>0, <1>1, <1>2 DEF Reached
<1>4. own[o] \in HashHeads /\ own[o] # Off /\ own[o] # FREE_OFF /\ o < idxend
  <2>1. own[o] \in HashHeads /\ own[o] # Off /\ own[o] # FREE_OFF
    BY <1>0, <1>1, <1>2, <1>3, ChainHead DEF InChain
  <2> QED BY <1>0, <1>1, <1>3, <2>1 DEF Listed
<1>5. ptr' = ptr /\ rec' = rec /\ idxend' = idxend /\ datend' = datend
  BY <1>2 DEF idxfile
<1>6. (\A c : Link(c)' = Link(c)) /\ LinkF' = LinkF
  BY <1>0, <1>2, <1>5, SameLinks DEF DelWindow
<1>7. x.len = rec[o].datlen /\ x.val # NoVal
  BY <1>0, <1>1, <1>2, <1>3, DbAssumption DEF NewDat, TypeOK, CallFits, InChain
<1>8. dat' = [dat EXCEPT ![rec[o].datoff] = x]
  BY <1>0, <1>2, <1>3
<1>9. Listed(own)' /\ DataOwned'
  <2>1. DatOnly(own, own, o, x)
    BY <1>0, <1>3, <1>4, <1>5, <1>7, <1>8 DEF DatOnly
  <2> QED BY <1>1, <2>1, DatWrite
<1>10. WritesOnly(own, rk, own, rk, p, {}, {d})
  <2>1. \A e \in Slots \ {d} : dat'[e] = dat[e]
    BY <1>0, <1>1, <1>8 DEF TypeOK
  <2> QED BY <1>0, <1>3, <1>4, <1>5, <1>6, <2>1 DEF WritesOnly
<1>11. Sorted(LinkF', own, rk)
  BY <1>0, <1>1, <1>6
<1>12. AtWork(own, rk, p)'
  BY <1>2, WorkCases
<1>13. Private(p) = {} /\ Private(p)' = {}
  BY <1>2 DEF Private, Reusing, DelWindow
<1>14. Writing(p)
  BY <1>0, <1>1, <1>2, Writers
<1> QED BY <1>0, <1>2, <1>5, <1>9, <1>10, <1>11, <1>12, <1>13, <1>14, WriteStep

\* _db_dodelete blanks the data: from here on the record counts as gone from its
\* chain, and is in the hands of the process.
LEMMA DelDatStep ==
  ASSUME LockInv, LockInv', NEW own, NEW rk, Shape(own, rk), NEW p \in Procs, DelDat(p)
  PROVE  \E own2 : Shape(own2, rk)' /\ Moved(own, own2, h[p].idxoff, Off)
<1>0. PICK o, c, d, x, own2 :
        /\ o = h[p].idxoff /\ c = h[p].ptroff /\ d = rec[o].datoff
        /\ x = [dat[d] EXCEPT !.val = NoVal] /\ own2 = [own EXCEPT ![o] = Off]
  OBVIOUS
<1>1. /\ TypeOK /\ Sorted(LinkF, own, rk) /\ Reached(own, p) /\ Listed(own)
      /\ LinkIs /\ LinkIs' /\ FreeListExclusion' /\ DataOwned
  <2>1. LinkIs /\ LinkIs' /\ FreeListExclusion'
    BY LinkIsTrue, FreeListApart, PTL
  <2> QED BY <2>1 DEF LockInv, Shape, AtWork
<1>2. /\ \A q \in Procs \ {p} : Still(q)
      /\ UNCHANGED <<idxfile, datend, call, h>> /\ pc[p] = "del_dat" /\ pc'[p] = "del_read"
      /\ dat' = [dat EXCEPT ![h[p].datoff].val = NoVal]
  BY <1>1 DEF TypeOK, DelDat, Goto, Still
<1>3. /\ o \in Recs /\ own[o] = chainoff(p) /\ h[p].datoff = d
      /\ rec[o].key = call[p].key
      /\ own[c] = chainoff(p) /\ Link(c) = o /\ h[p].ptrval = Link(o)
  BY <1>0, <1>1, <1>2 DEF Reached
<1>4. /\ own[o] \in HashHeads /\ own[o] # Off /\ own[o] # FREE_OFF /\ o < idxend
      /\ c \in Cells /\ o \in Cells /\ o # c /\ d \in Slots
  <2>1. own[o] \in HashHeads /\ own[o] # Off /\ own[o] # FREE_OFF
    BY <1>0, <1>1, <1>2, <1>3, ChainHead DEF InChain
  <2>2. c \in Cells /\ o \in Cells /\ d \in Slots
    BY <1>0, <1>1, <1>3, HandleFields
  <2>3. LinkF[c] = o
    BY <1>3, <2>2 DEF LinkF
  <2>4. rk[o] < rk[c] /\ rk[o] \in Nat
    BY <1>0, <1>1, <1>3, <2>1, <2>2, <2>3, SortedCell, CellKinds, SMTT(30)
  <2>5. \A r \in Recs : own[r] # Off => r < idxend
    BY <1>1 DEF Listed
  <2>6. o < idxend /\ o # c
    BY <1>3, <2>1, <2>4, <2>5
  <2> QED BY <2>1, <2>2, <2>6
<1>5. ptr' = ptr /\ rec' = rec /\ idxend' = idxend /\ datend' = datend
  BY <1>2 DEF idxfile
<1>6. dat' = [dat EXCEPT ![d] = x] /\ x.len = rec[o].datlen /\ x.val = NoVal
  <2>1. dat[d] \in DatType /\ dat[d].len = rec[o].datlen
    BY <1>0, <1>1, <1>3, <1>4 DEF TypeOK, DataOwned
  <2>2. x.len = rec[o].datlen /\ x.val = NoVal
    BY <1>0, <2>1 DEF DatType
  <2> QED BY <1>0, <1>2, <1>3, <2>2
<1>7. \A e : Link(e)' = IF e = c THEN Link(o) ELSE Link(e)
  <2>1. \A q \in Procs \ {p} : pc'[q] \notin DelWindow
    BY <1>0, <1>1, <1>2 DEF FreeListExclusion, DelWindow
  <2>2. \A q \in Procs : pc[q] \notin DelWindow
    BY <1>2, <2>1 DEF Still, DelWindow
  <2>3. \A e : Link(e) = ptr[e]
    BY <1>1, <2>2 DEF LinkIs
  <2>4. \A e : Link(e)' = IF e = h'[p].ptroff THEN h'[p].ptrval ELSE ptr'[e]
    BY <1>0, <1>1, <1>2 DEF LinkIs, DelWindow
  <2> QED BY <1>0, <1>2, <1>3, <1>5, <2>3, <2>4
<1>8. LinkF' = [LinkF EXCEPT ![c] = LinkF[o]]
  <2>1. LinkF' = [e \in Cells |-> Link(e)']
    BY DEF LinkF
  <2>2. [LinkF EXCEPT ![c] = LinkF[o]] = [e \in Cells |-> IF e = c THEN Link(o) ELSE Link(e)]
    BY <1>4 DEF LinkF
  <2> QED BY <1>7, <2>1, <2>2
<1>9. Sorted(LinkF', own2, rk)
  <2>1. LinkF[c] = o
    BY <1>0, <1>3, <1>4 DEF LinkF
  <2> QED BY <1>0, <1>1, <1>3, <1>4, <1>8, <2>1, SortedRemove
<1>10. /\ own2[o] = Off /\ \A e \in Cells \ {o} : own2[e] = own[e]
       /\ \A r \in Recs \ {o} : own2[r] = own[r]
  BY <1>0, <1>1, <1>4, CellKinds DEF Sorted
<1>11. Private(p) = {} /\ Private(p)' = {o}
  BY <1>0, <1>2 DEF Private, Reusing, DelWindow
<1>12. \A q \in Procs \ {p} : Private(p)' \cap Private(q) = {}
  BY <1>0, <1>1, <1>4, <1>11, PrivateOff
<1>13. Deleting(own2, p)'
  <2>1. chainoff(p)' = chainoff(p)
    BY <1>2 DEF chainoff
  <2>2. dat'[rec'[o].datoff].val = NoVal
    BY <1>0, <1>1, <1>4, <1>5, <1>6 DEF TypeOK
  <2>3. own2[c] = chainoff(p)
    BY <1>0, <1>3, <1>4, <1>10
  <2>4. Missing(own2, p)'
    <3> SUFFICES ASSUME NEW r \in Recs, own2[r] = chainoff(p), rec[r].key = call[p].key
                 PROVE  FALSE
      BY <1>0, <1>2, <1>5, <2>1 DEF Missing
    <3>1. r # o /\ own[r] = chainoff(p)
      BY <1>0, <1>3, <1>4, <1>10
    <3> QED BY <1>0, <1>1, <1>3, <1>4, <3>1 DEF Listed
  <2> QED BY <1>0, <1>2, <1>3, <1>4, <1>5, <1>10, <2>1, <2>2, <2>3, <2>4 DEF Deleting
<1>14. AtWork(own2, rk, p)'
  BY <1>0, <1>2, <1>13, WorkCases DEF DelWindow
<1>15. Listed(own2)' /\ DataOwned'
  <2>1. own2[o] \notin HashHeads /\ own2[o] # FREE_OFF
    BY <1>10, CellKinds
  <2>2. DatOnly(own, own2, o, x)
    BY <1>0, <1>3, <1>4, <1>5, <1>6, <1>10, <2>1 DEF DatOnly
  <2> QED BY <1>1, <2>2, DatWrite
<1>16. WritesOnly(own, rk, own2, rk, p, {c, o}, {d})
  <2>1. \A e \in Slots \ {d} : dat'[e] = dat[e]
    BY <1>0, <1>1, <1>6 DEF TypeOK
  <2>2. \A e \in Cells \ {c, o} : own2[e] = own[e] /\ Link(e)' = Link(e)
    BY <1>7, <1>10
  <2>3. own[c] = chainoff(p) /\ own2[c] = chainoff(p) /\ own[o] = chainoff(p) /\ own2[o] = Off
    BY <1>0, <1>3, <1>4, <1>10
  <2>4. chainoff(p) # FREE_OFF /\ chainoff(p) # Off /\ Off # FREE_OFF
    BY <1>0, <1>3, <1>4, CellKinds
  <2>5. \A e \in {c, o} : /\ {own[e], own2[e]} \subseteq {chainoff(p), FREE_OFF, Off}
                          /\ own[e] # Off /\ FREE_OFF \notin {own[e], own2[e]}
    BY <2>3, <2>4
  <2>6. \A e \in {d} : \E r \in Recs : r < idxend /\ rec[r].datoff = e /\ own[r] # Off
    BY <1>0, <1>3, <1>4
  <2> QED BY <1>5, <2>1, <2>2, <2>5, <2>6 DEF WritesOnly
<1>17. Writing(p)
  BY <1>0, <1>1, <1>2, Writers
<1>18. \A r \in Recs : own[r] # Off => own2[r] # Off \/ r \in Private(p)'
  BY <1>10, <1>11
<1>19. Shape(own2, rk)'
  <2>1. \A q \in Procs \ {p} : Still(q)
    BY <1>2
  <2>2. pc'[p] \notin {"app_idx_seek", "app_idx"}
    BY <1>2
  <2>3. \A r \in Recs : r < idxend' => r < idxend \/ r \in Private(p)'
    BY <1>5
  <2>4. \A r \in Private(p) : own2[r] # Off \/ r \in Private(p)'
    BY <1>11
  <2> QED BY <1>9, <1>12, <1>14, <1>15, <1>16, <1>17, <1>18, <2>1, <2>2, <2>3, <2>4,
             WriteStep
<1>20. Moved(own, own2, o, Off)
  BY <1>10 DEF Moved
<1> QED BY <1>0, <1>19, <1>20

\* What a process in the middle of a deletion knows; the links it sees before and
\* after a step that stays there.
LEMMA DelFacts ==
  ASSUME LockInv, NEW own, NEW rk, Shape(own, rk), NEW p \in Procs, pc[p] \in DelWindow
  PROVE  /\ h[p].ptroff \in Cells /\ own[h[p].ptroff] = chainoff(p) /\ Missing(own, p)
         /\ h[p].ptroff # FREE_OFF /\ own[FREE_OFF] = FREE_OFF /\ FREE_OFF \in Cells
         /\ chainoff(p) # FREE_OFF /\ chainoff(p) # Off /\ Off # FREE_OFF
         /\ chainoff(p) \in HashHeads
         /\ Writing(p)
         /\ pc[p] # "del_chain" =>
              /\ h[p].idxoff \in Recs /\ h[p].idxoff < idxend /\ own[h[p].idxoff] = Off
              /\ h[p].idxoff \in Cells /\ h[p].idxoff # h[p].ptroff
              /\ dat[rec[h[p].idxoff].datoff].val = NoVal
              /\ Private(p) = {h[p].idxoff}
<1>1. TypeOK /\ Deleting(own, p)
  BY DEF LockInv, Shape, AtWork
<1>2. h[p].ptroff \in Cells /\ own[h[p].ptroff] = chainoff(p) /\ Missing(own, p)
  BY <1>1, HandleFields DEF Deleting
<1>3. Writing(p) /\ pc[p] \in InChain
  BY <1>1, Writers
<1>4. /\ chainoff(p) # FREE_OFF /\ chainoff(p) # Off /\ Off # FREE_OFF
      /\ own[FREE_OFF] = FREE_OFF /\ FREE_OFF \in Cells /\ chainoff(p) \in HashHeads
  BY <1>1, <1>3, ChainHead, CellKinds DEF Shape, Sorted
<1>5. ASSUME pc[p] # "del_chain"
      PROVE  /\ h[p].idxoff \in Recs /\ h[p].idxoff < idxend /\ own[h[p].idxoff] = Off
             /\ h[p].idxoff \in Cells /\ h[p].idxoff # h[p].ptroff
             /\ dat[rec[h[p].idxoff].datoff].val = NoVal
             /\ Private(p) = {h[p].idxoff}
  <2>1. /\ h[p].idxoff \in Recs /\ h[p].idxoff < idxend /\ own[h[p].idxoff] = Off
        /\ dat[rec[h[p].idxoff].datoff].val = NoVal
    BY <1>1, <1>5 DEF Deleting
  <2>2. Private(p) = {h[p].idxoff}
    BY <1>5 DEF Private, DelWindow, Reusing
  <2> QED BY <1>2, <1>4, <2>1, <2>2, CellKinds
<1> QED BY <1>2, <1>3, <1>4, <1>5

\* _db_dodelete blanks the index record and links it to the free list.
LEMMA DelIdxStep ==
  ASSUME LockInv, LockInv', NEW own, NEW rk, Shape(own, rk), NEW p \in Procs, DelIdx(p)
  PROVE  Shape(own, rk)'
<1>0. PICK o, c, n, x : o = h[p].idxoff /\ c = h[p].ptroff /\ n = h[p].newptr
                        /\ x = [rec[o] EXCEPT !.key = NoKey]
  OBVIOUS
<1>1. /\ TypeOK /\ Sorted(LinkF, own, rk) /\ Deleting(own, p) /\ DataOwned
      /\ LinkIs /\ LinkIs'
  <2>1. LinkIs /\ LinkIs'
    BY LinkIsTrue, PTL
  <2> QED BY <2>1 DEF LockInv, Shape, AtWork
<1>2. /\ \A q \in Procs \ {p} : Still(q)
      /\ UNCHANGED <<idxend, datfile, call, h>> /\ pc[p] = "del_idx" /\ pc'[p] = "del_free"
      /\ rec' = [rec EXCEPT ![o] = x] /\ ptr' = [ptr EXCEPT ![o] = n]
  BY <1>0, <1>1 DEF TypeOK, DelIdx, Goto, Still
<1>3. /\ o \in Recs /\ o < idxend /\ own[o] = Off /\ o \in Cells /\ o # c
      /\ dat[rec[o].datoff].val = NoVal /\ Private(p) = {o}
      /\ c \in Cells /\ own[c] = chainoff(p) /\ Missing(own, p) /\ Writing(p)
      /\ own[FREE_OFF] # Off /\ chainoff(p) # Off /\ chainoff(p) # FREE_OFF
      /\ o # FREE_OFF
  BY <1>0, <1>2, DelFacts DEF DelWindow
<1>4. n = Link(FREE_OFF) /\ n \in Ptrs
  BY <1>0, <1>1, <1>2, HandleFields DEF Deleting
<1>5. dat' = dat /\ datend' = datend /\ idxend' = idxend
  BY <1>2 DEF datfile
<1>6. rec[o] \in RecType /\ x.key = NoKey /\ x.datoff = rec[o].datoff /\ x.datlen = rec[o].datlen
  <2>1. rec[o] \in RecType
    BY <1>1, <1>3 DEF TypeOK
  <2> QED BY <1>0, <2>1 DEF RecType
<1>7. /\ rec'[o] = x /\ \A r \in Recs \ {o} : rec'[r] = rec[r]
      /\ ptr'[o] = n /\ \A e \in Cells \ {o} : ptr'[e] = ptr[e]
  BY <1>1, <1>2, <1>3 DEF TypeOK
<1>8. Link(o)' = n /\ \A e \in Cells \ {o} : Link(e)' = Link(e)
  <2>1. \A e : Link(e) = IF e = c THEN h[p].ptrval ELSE ptr[e]
    BY <1>0, <1>1, <1>2 DEF LinkIs, DelWindow
  <2>2. \A e : Link(e)' = IF e = c THEN h[p].ptrval ELSE ptr'[e]
    BY <1>0, <1>1, <1>2 DEF LinkIs, DelWindow
  <2> QED BY <1>3, <1>7, <2>1, <2>2
<1>9. LinkF' = [LinkF EXCEPT ![o] = n]
  <2>1. LinkF' = [e \in Cells |-> Link(e)']
    BY DEF LinkF
  <2>2. [LinkF EXCEPT ![o] = n] = [e \in Cells |-> IF e = o THEN n ELSE Link(e)]
    BY <1>3 DEF LinkF
  <2> QED BY <1>8, <2>1, <2>2
<1>10. Sorted(LinkF', own, rk)
  BY <1>1, <1>3, <1>4, <1>9, SortedOff
<1>11. Listed(own)'
  <2>1. RecOnly(own, o, x)
    BY <1>2, <1>3, <1>5 DEF RecOnly
  <2> QED BY <1>1, <2>1, RecWrite
<1>12. DataOwned'
  <2>1. \A r \in Recs : rec'[r].datoff = rec[r].datoff /\ rec'[r].datlen = rec[r].datlen
    BY <1>6, <1>7
  <2> QED BY <1>1, <1>5, <2>1 DEF DataOwned
<1>13. Deleting(own, p)'
  <2>1. chainoff(p)' = chainoff(p)
    BY <1>2 DEF chainoff
  <2>2. Missing(own, p)'
    <3>1. \A r \in Recs : own[r] = chainoff(p) => r # o
      BY <1>3
    <3> QED BY <1>2, <1>3, <1>7, <2>1, <3>1 DEF Missing
  <2>3. Link(FREE_OFF)' = Link(FREE_OFF)
    BY <1>3, <1>8, CellKinds
  <2>4. own[h'[p].ptroff] = chainoff(p) /\ h'[p].idxoff = o /\ h'[p].newptr = n
    BY <1>0, <1>2, <1>3
  <2>5. o < idxend' /\ dat'[rec'[o].datoff].val = NoVal /\ rec'[o].key = NoKey
    BY <1>3, <1>5, <1>6, <1>7
  <2>6. Link(FREE_OFF)' = n /\ Link(o)' = n
    BY <1>4, <1>8, <2>3
  <2> QED BY <1>2, <1>3, <2>1, <2>2, <2>4, <2>5, <2>6 DEF Deleting
<1>14. AtWork(own, rk, p)'
  BY <1>2, <1>13, WorkCases DEF DelWindow
<1>15. Private(p)' = {o}
  BY <1>0, <1>2 DEF Private, Reusing, DelWindow
<1>16. WritesOnly(own, rk, own, rk, p, {o}, {})
  <2>1. \A r \in Recs : rec'[r].datoff = rec[r].datoff
    BY <1>6, <1>7
  <2>2. pc[p] \in DelWindow
    BY <1>2 DEF DelWindow
  <2>3. \A e \in Cells \ {o} : /\ own[e] = own[e] /\ rk[e] = rk[e] /\ Link(e)' = Link(e)
                               /\ e \in Recs => rec'[e] = rec[e]
    BY <1>7, <1>8
  <2>4. own[o] \in {chainoff(p), FREE_OFF, Off} /\ o \in Private(p)
    BY <1>3
  <2> QED BY <1>5, <2>1, <2>2, <2>3, <2>4 DEF WritesOnly
<1>17. \A q \in Procs \ {p} : Private(p)' \cap Private(q) = {}
  BY <1>3, <1>15 DEF Shape, Apart
<1> QED BY <1>2, <1>3, <1>5, <1>10, <1>11, <1>12, <1>14, <1>15, <1>16, <1>17, WriteStep

\* _db_dodelete makes the record the first of the free list.
LEMMA DelFreeStep ==
  ASSUME LockInv, LockInv', NEW own, NEW rk, Shape(own, rk), NEW p \in Procs, DelFree(p)
  PROVE  \E own2, rk2 : Shape(own2, rk2)' /\ Moved(own, own2, h[p].idxoff, FREE_OFF)
<1>0. PICK o, c, own2, rk2 :
        /\ o = h[p].idxoff /\ c = h[p].ptroff /\ own2 = [own EXCEPT ![o] = FREE_OFF]
        /\ rk2 = [rk EXCEPT ![o] = rk[FREE_OFF], ![FREE_OFF] = rk[FREE_OFF] + 1]
  OBVIOUS
<1>1. /\ TypeOK /\ Sorted(LinkF, own, rk) /\ Deleting(own, p) /\ DataOwned /\ Listed(own)
      /\ LinkIs /\ LinkIs'
  <2>1. LinkIs /\ LinkIs'
    BY LinkIsTrue, PTL
  <2> QED BY <2>1 DEF LockInv, Shape, AtWork
<1>2. /\ \A q \in Procs \ {p} : Still(q)
      /\ UNCHANGED <<rec, idxend, datfile, call, h>> /\ pc[p] = "del_free"
      /\ pc'[p] = "del_chain" /\ ptr' = [ptr EXCEPT ![FREE_OFF] = o]
  BY <1>0, <1>1 DEF TypeOK, DelFree, Goto, Still
<1>3. /\ o \in Recs /\ o < idxend /\ own[o] = Off /\ o \in Cells /\ o # c
      /\ dat[rec[o].datoff].val = NoVal /\ Private(p) = {o}
      /\ c \in Cells /\ own[c] = chainoff(p) /\ Missing(own, p) /\ Writing(p)
      /\ own[FREE_OFF] = FREE_OFF /\ chainoff(p) # Off /\ chainoff(p) # FREE_OFF
      /\ c # FREE_OFF /\ FREE_OFF \in Cells /\ Off # FREE_OFF
  BY <1>0, <1>2, DelFacts DEF DelWindow
<1>4. rec[o].key = NoKey /\ Link(o) = Link(FREE_OFF)
  BY <1>0, <1>1, <1>2 DEF Deleting
<1>5. dat' = dat /\ datend' = datend /\ idxend' = idxend /\ rec' = rec
  BY <1>2 DEF datfile
<1>6. Link(FREE_OFF)' = o /\ \A e \in Cells \ {FREE_OFF} : Link(e)' = Link(e)
  <2>1. \A e : Link(e) = IF e = c THEN h[p].ptrval ELSE ptr[e]
    BY <1>0, <1>1, <1>2 DEF LinkIs, DelWindow
  <2>2. \A e : Link(e)' = IF e = c THEN h[p].ptrval ELSE ptr'[e]
    BY <1>0, <1>1, <1>2 DEF LinkIs, DelWindow
  <2>3. ptr'[FREE_OFF] = o /\ \A e \in Cells \ {FREE_OFF} : ptr'[e] = ptr[e]
    BY <1>1, <1>2, <1>3 DEF TypeOK
  <2> QED BY <1>3, <2>1, <2>2, <2>3
<1>7. LinkF' = [LinkF EXCEPT ![FREE_OFF] = o]
  <2>1. LinkF' = [e \in Cells |-> Link(e)']
    BY DEF LinkF
  <2>2. [LinkF EXCEPT ![FREE_OFF] = o] = [e \in Cells |-> IF e = FREE_OFF THEN o ELSE Link(e)]
    BY <1>3 DEF LinkF
  <2> QED BY <1>6, <2>1, <2>2
<1>8. Sorted(LinkF', own2, rk2)
  <2>1. LinkF[o] = LinkF[FREE_OFF]
    BY <1>3, <1>4 DEF LinkF
  <2> QED BY <1>0, <1>1, <1>3, <1>7, <2>1, SortedPush, CellKinds
<1>9. /\ own2[o] = FREE_OFF /\ \A e \in Cells \ {o} : own2[e] = own[e]
      /\ \A e \in Cells \ {o, FREE_OFF} : rk2[e] = rk[e]
  BY <1>0, <1>1, <1>3 DEF Sorted
<1>10. Listed(own2)'
  <2>1. FREE_OFF \notin HashHeads /\ \A r \in Recs : r \in Cells
    BY CellKinds
  <2>2. \A r \in Recs : r # o => own2[r] = own[r]
    BY <1>9, <2>1
  <2>3. \A r \in Recs : own2[r] \in HashHeads => own[r] \in HashHeads /\ own2[r] = own[r]
    BY <1>9, <2>1, <2>2
  <2>4. \A r \in Recs : own2[r] # Off => r < idxend
    BY <1>1, <1>3, <2>2 DEF Listed
  <2>5. \A r \in Recs : own2[r] = FREE_OFF =>
          rec[r].key = NoKey /\ dat[rec[r].datoff].val = NoVal
    BY <1>1, <1>3, <1>4, <2>2 DEF Listed
  <2> QED BY <1>1, <1>5, <2>3, <2>4, <2>5 DEF Listed
<1>11. DataOwned'
  BY <1>1, <1>5 DEF DataOwned
<1>12. Deleting(own2, p)'
  <2>1. chainoff(p)' = chainoff(p)
    BY <1>2 DEF chainoff
  <2>2. Missing(own2, p)'
    <3>1. \A r \in Recs : own2[r] = chainoff(p) => own[r] = chainoff(p)
      BY <1>3, <1>9, CellKinds
    <3> QED BY <1>2, <1>3, <1>5, <2>1, <3>1 DEF Missing
  <2>3. own2[c] = chainoff(p)
    BY <1>3, <1>9
  <2> QED BY <1>0, <1>2, <2>1, <2>2, <2>3 DEF Deleting
<1>13. AtWork(own2, rk2, p)'
  BY <1>2, <1>12, WorkCases DEF DelWindow
<1>14. Private(p)' = {}
  BY <1>2 DEF Private, Reusing, DelWindow
<1>15. WritesOnly(own, rk, own2, rk2, p, {o, FREE_OFF}, {})
  <2>1. pc[p] \in DelWindow
    BY <1>2 DEF DelWindow
  <2>2. \A e \in Cells \ {o, FREE_OFF} :
          /\ own2[e] = own[e] /\ rk2[e] = rk[e] /\ Link(e)' = Link(e)
          /\ e \in Recs => rec'[e] = rec[e]
    BY <1>5, <1>6, <1>9
  <2>3. own2[FREE_OFF] = FREE_OFF
    BY <1>3, <1>9
  <2>4. \A e \in {o, FREE_OFF} : /\ {own[e], own2[e]} \subseteq {chainoff(p), FREE_OFF, Off}
                                 /\ own[e] = Off => e \in Private(p)
    BY <1>3, <1>9, <2>3
  <2> QED BY <1>5, <2>1, <2>2, <2>4 DEF WritesOnly
<1>16. \A r \in Recs : own[r] # Off => own2[r] # Off
  BY <1>3, <1>9, CellKinds
<1>17. Shape(own2, rk2)'
  BY <1>2, <1>3, <1>5, <1>8, <1>9, <1>10, <1>11, <1>13, <1>14, <1>15, <1>16, WriteStep
<1>18. Moved(own, own2, o, FREE_OFF)
  BY <1>9, CellKinds DEF Moved
<1> QED BY <1>0, <1>17, <1>18

\* _db_dodelete rewrites the pointer before the record, as it counted already.
LEMMA DelChainStep ==
  ASSUME LockInv, LockInv', NEW own, NEW rk, Shape(own, rk), NEW p \in Procs, DelChain(p)
  PROVE  Shape(own, rk)'
<1>0. PICK c : c = h[p].ptroff
  OBVIOUS
<1>1. /\ TypeOK /\ Sorted(LinkF, own, rk) /\ DataOwned /\ Listed(own)
      /\ LinkIs /\ LinkIs' /\ FreeListExclusion
  <2>1. LinkIs /\ LinkIs' /\ FreeListExclusion
    BY LinkIsTrue, FreeListApart, PTL
  <2> QED BY <2>1 DEF LockInv, Shape
<1>2. /\ \A q \in Procs \ {p} : Still(q)
      /\ UNCHANGED <<rec, idxend, datfile, call>> /\ pc[p] = "del_chain"
      /\ pc'[p] \in {"doreturn", "head"} /\ ptr' = [ptr EXCEPT ![c] = h[p].ptrval]
  BY <1>0, <1>1 DEF TypeOK, DelChain, Settle, Goto, Still
<1>3. c \in Cells /\ Missing(own, p) /\ Writing(p)
  BY <1>0, <1>2, DelFacts DEF DelWindow
<1>4. dat' = dat /\ datend' = datend /\ idxend' = idxend /\ rec' = rec
  BY <1>2 DEF datfile
<1>5. \A e \in Cells : Link(e)' = Link(e)
  <2>1. \A e : Link(e) = IF e = c THEN h[p].ptrval ELSE ptr[e]
    BY <1>0, <1>1, <1>2 DEF LinkIs, DelWindow
  <2>2. \A q \in Procs : pc'[q] \notin DelWindow
    BY <1>1, <1>2 DEF FreeListExclusion, Still, DelWindow
  <2>3. \A e : Link(e)' = ptr'[e]
    BY <1>1, <2>2 DEF LinkIs
  <2>4. \A e \in Cells : ptr'[e] = IF e = c THEN h[p].ptrval ELSE ptr[e]
    BY <1>1, <1>2 DEF TypeOK
  <2> QED BY <2>1, <2>3, <2>4
<1>6. LinkF' = LinkF
  BY <1>5 DEF LinkF
<1>7. Sorted(LinkF', own, rk)
  BY <1>1, <1>6
<1>8. Listed(own)' /\ DataOwned'
  BY <1>1, <1>4 DEF Listed, DataOwned
<1>9. AtWork(own, rk, p)'
  <2>1. chainoff(p)' = chainoff(p)
    BY <1>2 DEF chainoff
  <2>2. Missing(own, p)'
    BY <1>2, <1>3, <1>4, <2>1 DEF Missing
  <2>3. pc'[p] = "head" => Inserting(own, p)'
    BY <2>2 DEF Inserting
  <2> QED BY <1>2, <2>3, WorkCases
<1>10. Private(p) = {} /\ Private(p)' = {}
  BY <1>2 DEF Private, Reusing, DelWindow
<1>11. WritesOnly(own, rk, own, rk, p, {}, {})
  BY <1>4, <1>5 DEF WritesOnly
<1>12. pc'[p] \notin {"app_idx_seek", "app_idx"}
  BY <1>2
<1> QED BY <1>2, <1>3, <1>4, <1>7, <1>8, <1>9, <1>10, <1>11, <1>12, WriteStep

-----------------------------------------------------------------------------
(* The writes of a store.                                                  *)

\* What a process past the search of its chain knows.
LEMMA StoreFacts ==
  ASSUME LockInv, NEW own, NEW rk, Shape(own, rk), NEW p \in Procs,
         pc[p] \in {"commit"} \cup FreeWindow \cup Reusing \cup Appending
  PROVE  /\ Missing(own, p) /\ h[p].newptr = Link(chainoff(p)) /\ h[p].newptr \in Ptrs
         /\ Writing(p) /\ pc[p] \notin DelWindow
         /\ chainoff(p) \in HashHeads /\ chainoff(p) \in Heads /\ chainoff(p) \in Cells
         /\ own[chainoff(p)] = chainoff(p)
         /\ own[FREE_OFF] = FREE_OFF /\ FREE_OFF \in Cells
         /\ chainoff(p) # FREE_OFF /\ chainoff(p) # Off /\ Off # FREE_OFF
         /\ call[p].key \in Keys /\ call[p].val \in Vals /\ call[p].val # NoVal
<1>1. TypeOK /\ Inserting(own, p) /\ Sorted(LinkF, own, rk)
  BY DEF LockInv, Shape, AtWork
<1>2. Writing(p) /\ pc[p] \in InChain
  BY <1>1, Writers
<1>3. Missing(own, p) /\ h[p].newptr = Link(chainoff(p))
  BY <1>1 DEF Inserting, Storing, FreeWindow, Reusing, Appending
<1>4. /\ chainoff(p) \in HashHeads /\ chainoff(p) \in Heads /\ chainoff(p) \in Cells
      /\ chainoff(p) # FREE_OFF /\ chainoff(p) # Off /\ call[p].key \in Keys
  BY <1>1, <1>2, ChainHead
<1>5. FREE_OFF \in Heads /\ Off \notin Heads /\ FREE_OFF \in Cells
  BY CellKinds
<1>6. own[chainoff(p)] = chainoff(p) /\ own[FREE_OFF] = FREE_OFF
  BY <1>1, <1>4, <1>5 DEF Sorted
<1>7. call[p].val \in Vals /\ call[p].val # NoVal
  <2>1. call[p].kind = "store"
    BY <1>1, <1>2 DEF TypeOK, CallFits
  <2> QED BY <1>1, <1>2, <2>1, DbAssumption DEF TypeOK, CallFits
<1>8. pc[p] \notin DelWindow /\ h[p].newptr \in Ptrs
  BY <1>1, HandleFields DEF DelWindow, FreeWindow, Reusing, Appending
<1> QED BY <1>2, <1>3, <1>4, <1>5, <1>6, <1>7, <1>8

\* A store goes on after a write that leaves the head of its chain and the keys
\* there as they are.
LEMMA StoreGoesOn ==
  ASSUME LockInv, NEW own, NEW rk, Shape(own, rk), NEW p \in Procs, NEW own2,
         pc[p] \in {"commit"} \cup FreeWindow \cup Reusing \cup Appending,
         call'[p] = call[p], h'[p] = h[p], Link(chainoff(p))' = Link(chainoff(p)),
         \A r \in Recs : own2[r] = chainoff(p) => own[r] = chainoff(p) /\ rec'[r] = rec[r]
  PROVE  Inserting(own2, p)'
<1>1. Missing(own, p) /\ h[p].newptr = Link(chainoff(p))
  BY StoreFacts
<1>2. chainoff(p)' = chainoff(p)
  BY DEF chainoff
<1>3. Missing(own2, p)'
  BY <1>1, <1>2 DEF Missing
<1> QED BY <1>1, <1>2, <1>3 DEF Inserting

\* _db_findfree takes the record that fits off the free list.
LEMMA FreeTakeStep ==
  ASSUME LockInv, LockInv', NEW own, NEW rk, Shape(own, rk), NEW p \in Procs, FreeTake(p)
  PROVE  /\ own[h[p].idxoff] = FREE_OFF
         /\ \E own2 : Shape(own2, rk)' /\ Moved(own, own2, h[p].idxoff, Off)
<1>0. PICK o, c, n, own2 : /\ o = h[p].idxoff /\ c = h[p].ptroff /\ n = h[p].ptrval
                           /\ own2 = [own EXCEPT ![o] = Off]
  OBVIOUS
<1>1. TypeOK /\ Sorted(LinkF, own, rk) /\ Freeing(own, p) /\ Listed(own) /\ DataOwned
  BY DEF LockInv, Shape, AtWork
<1>2. /\ \A q \in Procs \ {p} : Still(q)
      /\ UNCHANGED <<rec, idxend, datfile, call, h>> /\ pc[p] = "free_take"
      /\ pc'[p] = "reuse_dat" /\ ptr' = [ptr EXCEPT ![c] = n]
  BY <1>0, <1>1 DEF TypeOK, FreeTake, Goto, Still
<1>3. /\ own[c] = FREE_OFF /\ o \in Recs /\ Link(c) = o /\ n = Link(o)
      /\ h[p].datoff = rec[o].datoff /\ Fits(p, o) /\ c \in Cells /\ o \in Cells /\ o # 0
  BY <1>0, <1>1, <1>2, HandleFields DEF Freeing, FreeWindow
<1>4. /\ Writing(p) /\ pc[p] \notin DelWindow /\ chainoff(p) \in Cells
      /\ own[chainoff(p)] = chainoff(p) /\ chainoff(p) # FREE_OFF /\ chainoff(p) # Off
      /\ Off # FREE_OFF
  BY <1>2, StoreFacts DEF FreeWindow
<1>5. own[o] = FREE_OFF /\ o # c
  <2>1. LinkF[c] = o /\ own[c] # Off
    BY <1>3, <1>4 DEF LinkF
  <2>2. own[o] = own[c] /\ rk[o] \in Nat /\ rk[o] < rk[c]
    BY <1>1, <1>3, <2>1, SortedCell
  <2> QED BY <1>3, <2>2
<1>6. o < idxend /\ rec[o].key = NoKey
  BY <1>1, <1>3, <1>4, <1>5 DEF Listed
<1>7. /\ LinkF' = [LinkF EXCEPT ![c] = n] /\ \A e \in Cells \ {c} : Link(e)' = Link(e)
  <2>1. pc'[p] \notin DelWindow /\ own[c] \in {Off, FREE_OFF, chainoff(p)}
    BY <1>2, <1>3 DEF DelWindow
  <2> QED BY <1>2, <1>3, <1>4, <2>1, LinkWrite
<1>8. Sorted(LinkF', own2, rk)
  <2>1. LinkF[c] = o /\ n = LinkF[o]
    BY <1>3 DEF LinkF
  <2>2. own[c] # Off
    BY <1>3, <1>4
  <2> QED BY <1>0, <1>1, <1>3, <1>7, <2>1, <2>2, SortedRemove
<1>9. own2[o] = Off /\ \A e \in Cells \ {o} : own2[e] = own[e]
  BY <1>0, <1>1, <1>3 DEF Sorted
<1>10. dat' = dat /\ datend' = datend /\ idxend' = idxend /\ rec' = rec
  BY <1>2 DEF datfile
<1>11. \A r \in Recs : own2[r] # Off => own2[r] = own[r]
  BY <1>9, CellKinds
<1>12. Listed(own2)' /\ DataOwned'
  <2>1. Off \notin HashHeads
    BY CellKinds
  <2>2. \A r \in Recs : own2[r] \in HashHeads => own2[r] = own[r]
    BY <1>11, <2>1
  <2>3. \A r \in Recs : own2[r] = FREE_OFF => own2[r] = own[r]
    BY <1>4, <1>11
  <2> QED BY <1>1, <1>10, <1>11, <2>2, <2>3 DEF Listed, DataOwned
<1>13. Inserting(own2, p)'
  <2>1. chainoff(p) # c
    BY <1>3, <1>4
  <2>2. chainoff(p)' = chainoff(p)
    BY <1>2 DEF chainoff
  <2>3. Link(chainoff(p))' = Link(chainoff(p))
    BY <1>4, <1>7, <2>1, <2>2
  <2>4. \A r \in Recs : own2[r] = chainoff(p) => own[r] = chainoff(p) /\ rec'[r] = rec[r]
    BY <1>4, <1>10, <1>11
  <2> QED BY <1>2, <2>3, <2>4, StoreGoesOn DEF FreeWindow
<1>14. Refilling(own2, p)'
  <2>1. Fits(p, o)'
    BY <1>2, <1>3, <1>10 DEF Fits
  <2> QED BY <1>0, <1>2, <1>3, <1>6, <1>9, <1>10, <2>1 DEF Refilling
<1>15. AtWork(own2, rk, p)'
  BY <1>2, <1>13, <1>14, WorkCases DEF Reusing
<1>16. Private(p) = {} /\ Private(p)' = {o}
  BY <1>0, <1>2 DEF Private, Reusing, DelWindow
<1>17. \A q \in Procs \ {p} : Private(p)' \cap Private(q) = {}
  BY <1>1, <1>4, <1>5, <1>16, PrivateOff
<1>18. WritesOnly(own, rk, own2, rk, p, {c, o}, {})
  <2>1. pc[p] \in FreeWindow
    BY <1>2 DEF FreeWindow
  <2>2. own2[c] = FREE_OFF
    BY <1>3, <1>5, <1>9
  <2>3. \A e \in {c, o} : /\ {own[e], own2[e]} \subseteq {chainoff(p), FREE_OFF, Off}
                          /\ own[e] # Off
    BY <1>3, <1>4, <1>5, <1>9, <2>2
  <2>4. \A e \in Cells \ {c, o} : /\ own2[e] = own[e] /\ rk[e] = rk[e] /\ Link(e)' = Link(e)
                                  /\ e \in Recs => rec'[e] = rec[e]
    BY <1>7, <1>9, <1>10
  <2> QED BY <1>10, <2>1, <2>3, <2>4 DEF WritesOnly
<1>19. Shape(own2, rk)'
  <2>1. \A r \in Recs : own[r] # Off => own2[r] # Off \/ r \in Private(p)'
    BY <1>9, <1>16, CellKinds
  <2>2. pc'[p] \notin {"app_idx_seek", "app_idx"}
    BY <1>2
  <2> QED BY <1>2, <1>4, <1>8, <1>10, <1>12, <1>15, <1>16, <1>17, <1>18, <2>1, <2>2,
             WriteStep
<1>20. Moved(own, own2, o, Off)
  BY <1>9, CellKinds DEF Moved
<1> QED BY <1>0, <1>5, <1>19, <1>20

\* The data of a record taken from the free list is written.
LEMMA ReuseDatStep ==
  ASSUME LockInv, LockInv', NEW own, NEW rk, Shape(own, rk), NEW p \in Procs, ReuseDat(p)
  PROVE  Shape(own, rk)'
<1>0. PICK o, d, x : o = h[p].idxoff /\ d = rec[o].datoff /\ x = NewDat(p)
  OBVIOUS
<1>1. TypeOK /\ Sorted(LinkF, own, rk) /\ Refilling(own, p) /\ Apart
  BY DEF LockInv, Shape, AtWork
<1>2. /\ \A q \in Procs \ {p} : Still(q)
      /\ UNCHANGED <<idxfile, datend, call, h>> /\ pc[p] = "reuse_dat" /\ pc'[p] = "reuse_idx"
      /\ dat' = [dat EXCEPT ![h[p].datoff] = NewDat(p)]
  BY <1>1 DEF TypeOK, ReuseDat, Goto, Still, NewDat
<1>3. /\ o \in Recs /\ o < idxend /\ own[o] = Off /\ rec[o].key = NoKey
      /\ h[p].datoff = d /\ Fits(p, o) /\ d \in Slots /\ o \in Cells
  BY <1>0, <1>1, <1>2, HandleFields DEF Refilling, Reusing
<1>4. Writing(p) /\ pc[p] \notin DelWindow
  BY <1>2, StoreFacts DEF Reusing
<1>5. ptr' = ptr /\ rec' = rec /\ idxend' = idxend /\ datend' = datend
  BY <1>2 DEF idxfile
<1>6. (\A c : Link(c)' = Link(c)) /\ LinkF' = LinkF
  BY <1>0, <1>2, <1>5, SameLinks DEF DelWindow
<1>7. x.len = rec[o].datlen /\ dat' = [dat EXCEPT ![d] = x]
  BY <1>0, <1>2, <1>3 DEF NewDat, Fits
<1>8. Listed(own)' /\ DataOwned'
  <2>1. own[o] \notin HashHeads /\ own[o] # FREE_OFF
    BY <1>3, CellKinds
  <2>2. DatOnly(own, own, o, x)
    BY <1>0, <1>3, <1>5, <1>7, <2>1 DEF DatOnly
  <2> QED BY <1>1, <2>2, DatWrite
<1>9. Private(p) = {o} /\ Private(p)' = {o}
  BY <1>0, <1>2 DEF Private, Reusing, DelWindow
<1>10. WritesOnly(own, rk, own, rk, p, {}, {d})
  <2>1. \A e \in Slots \ {d} : dat'[e] = dat[e]
    BY <1>0, <1>1, <1>7 DEF TypeOK
  <2> QED BY <1>0, <1>3, <1>5, <1>6, <1>9, <2>1 DEF WritesOnly
<1>11. Inserting(own, p)'
  <2>1. chainoff(p)' = chainoff(p)
    BY <1>2 DEF chainoff
  <2>2. Link(chainoff(p))' = Link(chainoff(p))
    BY <1>6, <2>1
  <2> QED BY <1>2, <1>5, <2>2, StoreGoesOn DEF Reusing
<1>12. Refilling(own, p)'
  <2>1. Fits(p, o)' /\ NewDat(p)' = NewDat(p)
    BY <1>2, <1>3, <1>5 DEF Fits, NewDat
  <2>2. dat'[d] = NewDat(p)
    BY <1>0, <1>1, <1>3, <1>7 DEF TypeOK
  <2> QED BY <1>0, <1>2, <1>3, <1>5, <2>1, <2>2 DEF Refilling
<1>13. AtWork(own, rk, p)'
  BY <1>2, <1>11, <1>12, WorkCases DEF Reusing
<1>14. \A q \in Procs \ {p} : Private(p)' \cap Private(q) = {}
  BY <1>1, <1>9 DEF Apart
<1>15. Sorted(LinkF', own, rk)
  BY <1>1, <1>6
<1>16. pc'[p] \notin {"app_idx_seek", "app_idx"}
  BY <1>2
<1> QED BY <1>2, <1>4, <1>5, <1>8, <1>9, <1>10, <1>13, <1>14, <1>15, <1>16, WriteStep

\* The index record taken from the free list is written.
LEMMA ReuseIdxStep ==
  ASSUME LockInv, LockInv', NEW own, NEW rk, Shape(own, rk), NEW p \in Procs, ReuseIdx(p)
  PROVE  Shape(own, rk)'
<1>0. PICK o, n, x : o = h[p].idxoff /\ n = h[p].newptr /\ x = NewRec(p)
  OBVIOUS
<1>1. TypeOK /\ Sorted(LinkF, own, rk) /\ Refilling(own, p) /\ Apart /\ DataOwned
  BY DEF LockInv, Shape, AtWork
<1>2. /\ \A q \in Procs \ {p} : Still(q)
      /\ UNCHANGED <<idxend, datfile, call, h>> /\ pc[p] = "reuse_idx" /\ pc'[p] = "commit"
      /\ rec' = [rec EXCEPT ![o] = x] /\ ptr' = [ptr EXCEPT ![o] = n]
  BY <1>0, <1>1 DEF TypeOK, ReuseIdx, Goto, Still
<1>3. /\ o \in Recs /\ o < idxend /\ own[o] = Off /\ rec[o].key = NoKey /\ o \in Cells
      /\ h[p].datoff = rec[o].datoff /\ Fits(p, o) /\ dat[h[p].datoff] = NewDat(p)
  BY <1>0, <1>1, <1>2, HandleFields DEF Refilling, Reusing
<1>4. /\ Writing(p) /\ pc[p] \notin DelWindow /\ chainoff(p) \in Cells
      /\ own[chainoff(p)] = chainoff(p) /\ chainoff(p) # Off /\ n \in Ptrs
      /\ Off # FREE_OFF
  BY <1>0, <1>2, StoreFacts DEF Reusing
<1>5. dat' = dat /\ datend' = datend /\ idxend' = idxend
  BY <1>2 DEF datfile
<1>6. rec'[o] = x /\ \A r \in Recs \ {o} : rec'[r] = rec[r]
  BY <1>1, <1>2, <1>3 DEF TypeOK
<1>7. /\ LinkF' = [LinkF EXCEPT ![o] = n]
      /\ Link(o)' = n /\ \A e \in Cells \ {o} : Link(e)' = Link(e)
  <2>1. pc'[p] \notin DelWindow /\ own[o] \in {Off, FREE_OFF, chainoff(p)}
    BY <1>2, <1>3 DEF DelWindow
  <2> QED BY <1>2, <1>3, <1>4, <2>1, LinkWrite
<1>8. Sorted(LinkF', own, rk)
  BY <1>1, <1>3, <1>4, <1>7, SortedOff
<1>9. Listed(own)'
  <2>1. RecOnly(own, o, x)
    BY <1>2, <1>3, <1>5 DEF RecOnly
  <2> QED BY <1>1, <2>1, RecWrite
<1>10. x.datoff = rec[o].datoff /\ x.datlen = rec[o].datlen
  BY <1>0, <1>3 DEF NewRec, Fits
<1>11. DataOwned'
  <2>1. \A r \in Recs : rec'[r].datoff = rec[r].datoff /\ rec'[r].datlen = rec[r].datlen
    BY <1>6, <1>10
  <2> QED BY <1>1, <1>5, <2>1 DEF DataOwned
<1>12. chainoff(p)' = chainoff(p) /\ NewDat(p)' = NewDat(p) /\ NewRec(p)' = NewRec(p)
  BY <1>2 DEF chainoff, NewDat, NewRec
<1>13. Inserting(own, p)'
  <2>1. Link(chainoff(p))' = Link(chainoff(p))
    BY <1>3, <1>4, <1>7, <1>12
  <2>2. \A r \in Recs : own[r] = chainoff(p) => rec'[r] = rec[r]
    BY <1>3, <1>4, <1>6
  <2> QED BY <1>2, <2>1, <2>2, StoreGoesOn DEF Reusing
<1>14. Committing(own, p)'
  BY <1>0, <1>2, <1>3, <1>5, <1>6, <1>7, <1>12 DEF Committing
<1>15. AtWork(own, rk, p)'
  BY <1>2, <1>13, <1>14, WorkCases
<1>16. Private(p) = {o} /\ Private(p)' = {o}
  BY <1>0, <1>2 DEF Private, Reusing, DelWindow
<1>17. \A q \in Procs \ {p} : Private(p)' \cap Private(q) = {}
  BY <1>1, <1>16 DEF Apart
<1>18. WritesOnly(own, rk, own, rk, p, {o}, {})
  <2>1. \A r \in Recs : rec'[r].datoff = rec[r].datoff
    BY <1>6, <1>10
  <2>2. \A e \in Cells \ {o} : /\ own[e] = own[e] /\ rk[e] = rk[e] /\ Link(e)' = Link(e)
                               /\ e \in Recs => rec'[e] = rec[e]
    BY <1>6, <1>7
  <2>3. \A r \in Recs : r < idxend /\ rec[r].key # NoKey => rec'[r] = rec[r]
    BY <1>3, <1>6
  <2>4. own[o] = Off /\ o \in Private(p) /\ FREE_OFF # own[o]
    BY <1>3, <1>4, <1>16
  <2> QED BY <1>5, <2>1, <2>2, <2>3, <2>4 DEF WritesOnly
<1>19. pc'[p] \notin {"app_idx_seek", "app_idx"}
  BY <1>2
<1> QED BY <1>2, <1>4, <1>5, <1>8, <1>9, <1>11, <1>15, <1>16, <1>17, <1>18, <1>19,
           WriteStep

\* New data is written at the end of the data file.
LEMMA AppendDatStep ==
  ASSUME LockInv, LockInv', NEW own, NEW rk, Shape(own, rk), NEW p \in Procs, AppendDat(p)
  PROVE  Shape(own, rk)'
<1>0. PICK d, x : d = h[p].datoff /\ x = NewDat(p)
  OBVIOUS
<1>1. TypeOK /\ Sorted(LinkF, own, rk) /\ Growing(p) /\ Apart /\ DataOwned /\ Listed(own)
  BY DEF LockInv, Shape, AtWork
<1>2. /\ \A q \in Procs \ {p} : Still(q)
      /\ UNCHANGED <<idxfile, call, h>> /\ pc[p] = "app_dat" /\ pc'[p] = "app_idx_seek"
      /\ dat' = [dat EXCEPT ![d] = x] /\ d = datend /\ datend' = datend + 1
  <2>1. h[p].datoff = datend
    BY <1>1 DEF Growing, AppendDat, Goto
  <2> QED BY <1>0, <1>1, <2>1 DEF TypeOK, AppendDat, Goto, Still, NewDat
<1>3. /\ d \in Slots /\ datend \in Nat /\ idxend \in Nat
      /\ \A r \in Recs : rec[r].datoff \in Slots /\ rec[r].datoff \in Nat
  BY <1>0, <1>1, HandleFields
<1>4. Writing(p) /\ pc[p] \notin DelWindow
  BY <1>2, StoreFacts DEF Appending
<1>5. ptr' = ptr /\ rec' = rec /\ idxend' = idxend
  BY <1>2 DEF idxfile
<1>6. (\A c : Link(c)' = Link(c)) /\ LinkF' = LinkF
  BY <1>0, <1>2, <1>5, SameLinks DEF DelWindow
<1>7. dat'[d] = x /\ \A e \in Slots \ {d} : dat'[e] = dat[e]
  BY <1>1, <1>2, <1>3 DEF TypeOK
<1>8. \A r \in Recs : r < idxend => rec[r].datoff < datend /\ rec[r].datoff # d
                                     /\ dat'[rec[r].datoff] = dat[rec[r].datoff]
  BY <1>1, <1>2, <1>3, <1>7 DEF DataOwned
<1>9. Listed(own)'
  <2>1. \A r \in Recs : own[r] # Off => r < idxend
    BY <1>1 DEF Listed
  <2>2. \A r \in Recs : own[r] \in HashHeads \/ own[r] = FREE_OFF => own[r] # Off
    BY CellKinds
  <2> QED BY <1>1, <1>5, <1>8, <2>1, <2>2 DEF Listed
<1>10. DataOwned'
  <2>1. \A r \in Recs : r < idxend => rec[r].datoff < datend + 1
    BY <1>3, <1>8
  <2> QED BY <1>1, <1>2, <1>5, <1>8, <2>1 DEF DataOwned
<1>11. Inserting(own, p)'
  <2>1. chainoff(p)' = chainoff(p)
    BY <1>2 DEF chainoff
  <2>2. Link(chainoff(p))' = Link(chainoff(p))
    BY <1>6, <2>1
  <2> QED BY <1>2, <1>5, <2>2, StoreGoesOn DEF Appending
<1>12. Growing(p)'
  <2>1. NewDat(p)' = NewDat(p) /\ d < datend'
    BY <1>2, <1>3 DEF NewDat
  <2> QED BY <1>0, <1>2, <1>5, <1>7, <1>8, <2>1 DEF Growing
<1>13. AtWork(own, rk, p)'
  BY <1>2, <1>11, <1>12, WorkCases DEF Appending
<1>14. Private(p) = {} /\ Private(p)' = {}
  BY <1>2 DEF Private, Reusing, DelWindow
<1>15. \A q \in Procs \ {p} : pc[q] \in {"app_idx_seek", "app_idx"} => h'[p].datoff # h[q].datoff
  <2> SUFFICES ASSUME NEW q \in Procs \ {p}, pc[q] \in {"app_idx_seek", "app_idx"}
               PROVE  h'[p].datoff # h[q].datoff
    OBVIOUS
  <2>1. h[q].datoff < datend
    BY DEF Shape, AtWork, Growing
  <2>2. h'[p].datoff = datend
    BY <1>0, <1>2
  <2>3. h[q].datoff # datend
    BY <2>1, <1>1, <1>3, HandleFields
  <2> QED BY <2>2, <2>3
<1>16. WritesOnly(own, rk, own, rk, p, {}, {d})
  BY <1>2, <1>5, <1>6, <1>7 DEF WritesOnly
<1>17. Sorted(LinkF', own, rk)
  BY <1>1, <1>6
<1> QED BY <1>2, <1>4, <1>5, <1>9, <1>10, <1>13, <1>14, <1>15, <1>16, <1>17, WriteStep

\* The new index record is written at the end of the index file.
LEMMA AppendIdxStep ==
  ASSUME LockInv, LockInv', NEW own, NEW rk, Shape(own, rk), NEW p \in Procs, AppendIdx(p)
  PROVE  Shape(own, rk)'
<1>0. PICK o, n, x : o = h[p].idxoff /\ n = h[p].newptr /\ x = NewRec(p)
  OBVIOUS
<1>1. TypeOK /\ Sorted(LinkF, own, rk) /\ Growing(p) /\ Apart /\ DataOwned
  BY DEF LockInv, Shape, AtWork
<1>2. /\ \A q \in Procs \ {p} : Still(q)
      /\ UNCHANGED <<datfile, call, h>> /\ pc[p] = "app_idx" /\ pc'[p] = "commit"
      /\ rec' = [rec EXCEPT ![o] = x] /\ ptr' = [ptr EXCEPT ![o] = n]
      /\ o \in Recs /\ o = idxend /\ idxend' = idxend + 1
  <2>1. pc[p] = "app_idx" /\ h[p].idxoff \in Recs /\ h[p].idxoff = idxend
    BY <1>1 DEF Growing, AppendIdx, Goto
  <2> QED BY <1>0, <1>1, <2>1 DEF TypeOK, AppendIdx, Goto, Still
<1>3. /\ o \in Cells /\ idxend \in Nat /\ \A r \in Recs : r \in Nat
      /\ h[p].datoff < datend /\ dat[h[p].datoff] = NewDat(p)
      /\ \A r \in Recs : r < idxend => rec[r].datoff # h[p].datoff
  BY <1>1, <1>2, HandleFields DEF Growing
<1>4. /\ Writing(p) /\ pc[p] \notin DelWindow /\ chainoff(p) \in Cells
      /\ own[chainoff(p)] = chainoff(p) /\ chainoff(p) # Off /\ n \in Ptrs
      /\ Off # FREE_OFF
  BY <1>0, <1>2, StoreFacts DEF Appending
<1>5. Private(p) = {o} /\ Private(p)' = {o}
  BY <1>0, <1>2 DEF Private, Reusing, DelWindow
<1>6. own[o] = Off
  BY <1>1, <1>5, PrivateOff
<1>7. dat' = dat /\ datend' = datend
  BY <1>2 DEF datfile
<1>8. rec'[o] = x /\ \A r \in Recs \ {o} : rec'[r] = rec[r]
  BY <1>1, <1>2 DEF TypeOK
<1>9. /\ LinkF' = [LinkF EXCEPT ![o] = n]
      /\ Link(o)' = n /\ \A e \in Cells \ {o} : Link(e)' = Link(e)
  <2>1. pc'[p] \notin DelWindow /\ own[o] \in {Off, FREE_OFF, chainoff(p)}
    BY <1>2, <1>6 DEF DelWindow
  <2>2. ptr' = [ptr EXCEPT ![o] = n] /\ \A q \in Procs \ {p} : Still(q)
    BY <1>2
  <2>3. Writing(p) /\ pc[p] \notin DelWindow /\ o \in Cells
    BY <1>3, <1>4
  <2> QED BY <2>1, <2>2, <2>3, LinkWrite
<1>10. Sorted(LinkF', own, rk)
  BY <1>1, <1>2, <1>4, <1>6, <1>9, SortedOff
<1>11. Listed(own)'
  <2>1. RecOnly(own, o, x)
    BY <1>2, <1>6, <1>7 DEF RecOnly
  <2> QED BY <1>1, <2>1, RecWrite
<1>12. x.datoff = h[p].datoff /\ x.datlen = NewDat(p).len
  BY <1>0 DEF NewRec, NewDat
<1>13. \A r \in Recs : r < idxend' => (r < idxend /\ r # o) \/ r = o
  BY <1>2, <1>3
<1>14. DataOwned'
  <2>1. \A r \in Recs : r < idxend' =>
          rec'[r].datoff < datend /\ dat[rec'[r].datoff].len = rec'[r].datlen
    BY <1>1, <1>3, <1>8, <1>12, <1>13 DEF DataOwned
  <2>2. \A r, s \in Recs : r < idxend' /\ s < idxend' /\ rec'[s].datoff = rec'[r].datoff
                             => s = r
    BY <1>1, <1>3, <1>8, <1>12, <1>13 DEF DataOwned
  <2> QED BY <1>7, <2>1, <2>2 DEF DataOwned
<1>15. chainoff(p)' = chainoff(p) /\ NewDat(p)' = NewDat(p) /\ NewRec(p)' = NewRec(p)
  BY <1>2 DEF chainoff, NewDat, NewRec
<1>16. Inserting(own, p)'
  <2>1. Link(chainoff(p))' = Link(chainoff(p))
    BY <1>4, <1>6, <1>9, <1>15
  <2>2. \A r \in Recs : own[r] = chainoff(p) => rec'[r] = rec[r]
    BY <1>4, <1>6, <1>8
  <2> QED BY <1>2, <2>1, <2>2, StoreGoesOn DEF Appending
<1>17. o < idxend'
  BY <1>2, <1>3
<1>18. Committing(own, p)'
  BY <1>0, <1>2, <1>3, <1>6, <1>7, <1>8, <1>9, <1>15, <1>17 DEF Committing
<1>19. AtWork(own, rk, p)'
  BY <1>2, <1>16, <1>18, WorkCases
<1>20. \A q \in Procs \ {p} : Private(p)' \cap Private(q) = {}
  BY <1>1, <1>5 DEF Apart
<1>21. WritesOnly(own, rk, own, rk, p, {o}, {})
  <2>1. \A e \in Cells \ {o} : /\ own[e] = own[e] /\ rk[e] = rk[e] /\ Link(e)' = Link(e)
                               /\ e \in Recs => rec'[e] = rec[e]
    BY <1>8, <1>9
  <2>2. \A r \in Recs : r < idxend => rec'[r] = rec[r]
    BY <1>2, <1>3, <1>8
  <2>3. \A r \in Recs : r < idxend' => \/ r < idxend /\ rec'[r].datoff = rec[r].datoff
                                       \/ rec'[r].datoff = h[p].datoff
    BY <1>8, <1>12, <1>13
  <2>4. own[o] = Off /\ o \in Private(p) /\ FREE_OFF # own[o]
    BY <1>4, <1>5, <1>6
  <2> QED BY <1>2, <1>7, <2>1, <2>2, <2>3, <2>4 DEF WritesOnly
<1>22. \A r \in Recs : r < idxend' => r < idxend \/ r \in Private(p)'
  BY <1>5, <1>13
<1>23. pc'[p] \notin {"app_idx_seek", "app_idx"}
  BY <1>2
<1> QED BY <1>2, <1>4, <1>5, <1>10, <1>11, <1>14, <1>19, <1>20, <1>21, <1>22, <1>23,
           WriteStep

\* The new record becomes the first of its chain.
LEMMA CommitStep ==
  ASSUME LockInv, LockInv', NEW own, NEW rk, Shape(own, rk), NEW p \in Procs, Commit(p)
  PROVE  \E own2, rk2 : Shape(own2, rk2)' /\ Moved(own, own2, h[p].idxoff, chainoff(p))
<1>0. PICK o, c, own2, rk2 :
        /\ o = h[p].idxoff /\ c = chainoff(p) /\ own2 = [own EXCEPT ![o] = c]
        /\ rk2 = [rk EXCEPT ![o] = rk[c], ![c] = rk[c] + 1]
  OBVIOUS
<1>1. TypeOK /\ Sorted(LinkF, own, rk) /\ Committing(own, p) /\ DataOwned /\ Listed(own)
  BY DEF LockInv, Shape, AtWork
<1>2. /\ \A q \in Procs \ {p} : Still(q)
      /\ UNCHANGED <<rec, idxend, datfile, call, h>> /\ pc[p] = "commit"
      /\ pc'[p] = "doreturn" /\ ptr' = [ptr EXCEPT ![c] = o]
  BY <1>0, <1>1 DEF TypeOK, Commit, Settle, Goto, Still
<1>3. /\ o \in Recs /\ o < idxend /\ own[o] = Off /\ o \in Cells
      /\ rec[o] = NewRec(p) /\ dat[h[p].datoff] = NewDat(p) /\ Link(o) = h[p].newptr
  BY <1>0, <1>1, <1>2, HandleFields DEF Committing
<1>4. /\ Writing(p) /\ pc[p] \notin DelWindow /\ c \in Cells /\ c \in Heads /\ c \in HashHeads
      /\ own[c] = c /\ c # FREE_OFF /\ c # Off /\ Off # FREE_OFF
      /\ Missing(own, p) /\ h[p].newptr = Link(c)
      /\ call[p].key \in Keys /\ call[p].val # NoVal
  BY <1>0, <1>2, StoreFacts
<1>5. dat' = dat /\ datend' = datend /\ idxend' = idxend /\ rec' = rec
  BY <1>2 DEF datfile
<1>6. /\ LinkF' = [LinkF EXCEPT ![c] = o] /\ \A e \in Cells \ {c} : Link(e)' = Link(e)
  <2>1. pc'[p] \notin DelWindow /\ own[c] \in {Off, FREE_OFF, chainoff(p)}
    BY <1>0, <1>2, <1>4 DEF DelWindow
  <2>2. ptr' = [ptr EXCEPT ![c] = o] /\ \A q \in Procs \ {p} : Still(q)
    BY <1>2
  <2>3. Writing(p) /\ pc[p] \notin DelWindow /\ c \in Cells
    BY <1>4
  <2> QED BY <2>1, <2>2, <2>3, LinkWrite
<1>7. Sorted(LinkF', own2, rk2)
  <2>1. LinkF[o] = LinkF[c]
    BY <1>3, <1>4 DEF LinkF
  <2> QED BY <1>0, <1>1, <1>3, <1>4, <1>6, <2>1, SortedPush
<1>8. /\ own2[o] = c /\ o # c /\ \A e \in Cells \ {o} : own2[e] = own[e]
      /\ \A e \in Cells \ {o, c} : rk2[e] = rk[e]
  BY <1>0, <1>1, <1>3, <1>4 DEF Sorted
<1>9. \A r \in Recs : r # o => own2[r] = own[r]
  BY <1>8, CellKinds
<1>10. /\ rec[o].key = call[p].key /\ rec[o].klen = KeyLen[rec[o].key]
       /\ c = HASH_OFF + Hash[rec[o].key] /\ dat[rec[o].datoff].val # NoVal
  BY <1>0, <1>3, <1>4 DEF NewRec, NewDat, chainoff
<1>11. \A r \in Recs : own[r] \in HashHeads => rec[r].key # rec[o].key
  <2> SUFFICES ASSUME NEW r \in Recs, own[r] \in HashHeads, rec[r].key = rec[o].key
               PROVE  FALSE
    OBVIOUS
  <2>1. own[r] = c
    BY <1>1, <1>10 DEF Listed
  <2> QED BY <1>0, <1>4, <1>10, <2>1 DEF Missing
<1>12. Listed(own2)'
  <2>1. \A r \in Recs : own2[r] # Off => r < idxend
    BY <1>1, <1>3, <1>9 DEF Listed
  <2>2. \A r \in Recs : own2[r] \in HashHeads =>
          /\ rec[r].key \in Keys /\ own2[r] = HASH_OFF + Hash[rec[r].key]
          /\ rec[r].klen = KeyLen[rec[r].key]
          /\ dat[rec[r].datoff].val # NoVal
    BY <1>1, <1>4, <1>8, <1>9, <1>10 DEF Listed
  <2>3. \A r, s \in Recs : own2[r] \in HashHeads /\ own2[s] \in HashHeads
                             /\ rec[s].key = rec[r].key => s = r
    BY <1>1, <1>9, <1>11 DEF Listed
  <2>4. \A r \in Recs : own2[r] = FREE_OFF =>
          rec[r].key = NoKey /\ dat[rec[r].datoff].val = NoVal
    BY <1>1, <1>4, <1>8, <1>9 DEF Listed
  <2> QED BY <1>5, <2>1, <2>2, <2>3, <2>4 DEF Listed
<1>13. DataOwned'
  BY <1>1, <1>5 DEF DataOwned
<1>14. AtWork(own2, rk2, p)'
  BY <1>2, WorkCases
<1>15. Private(p) = {o} /\ Private(p)' = {}
  BY <1>0, <1>2 DEF Private, Reusing, DelWindow
<1>16. WritesOnly(own, rk, own2, rk2, p, {c, o}, {})
  <2>1. own2[c] = c
    BY <1>4, <1>8
  <2>2. \A e \in {c, o} : /\ {own[e], own2[e]} \subseteq {chainoff(p), FREE_OFF, Off}
                          /\ own[e] = Off => e \in Private(p)
                          /\ FREE_OFF \notin {own[e], own2[e]}
    BY <1>0, <1>3, <1>4, <1>8, <1>15, <2>1
  <2>3. \A e \in Cells \ {c, o} : /\ own2[e] = own[e] /\ rk2[e] = rk[e] /\ Link(e)' = Link(e)
                                  /\ e \in Recs => rec'[e] = rec[e]
    BY <1>5, <1>6, <1>8
  <2> QED BY <1>5, <2>2, <2>3 DEF WritesOnly
<1>17. Shape(own2, rk2)'
  <2>1. \A r \in Recs : own[r] # Off => own2[r] # Off
    BY <1>3, <1>9
  <2>2. pc'[p] \notin {"app_idx_seek", "app_idx"}
    BY <1>2
  <2> QED BY <1>2, <1>4, <1>5, <1>7, <1>8, <1>12, <1>13, <1>14, <1>15, <1>16, <2>1, <2>2,
             WriteStep
<1>18. Moved(own, own2, o, c)
  BY <1>8, <1>9 DEF Moved
<1> QED BY <1>0, <1>17, <1>18

-----------------------------------------------------------------------------
(* The invariant holds at the start.                                       *)

\* A set of the first n numbers that is not empty has a greatest member.
LEMMA GreatestOf ==
  ASSUME NEW n \in Nat, NEW S, S \subseteq 1 .. n, S # {}
  PROVE  \E m \in S : \A i \in S : i <= m
<1> DEFINE T == {k \in Nat : \A i \in S : i <= k}
<1>1. n \in T
  OBVIOUS
<1>2. PICK m \in T : \A k \in T : m <= k
  BY <1>1, LeastNat
<1>3. m \in S
  <2> SUFFICES ASSUME m \notin S PROVE FALSE
    OBVIOUS
  <2>1. PICK i \in S : TRUE
    OBVIOUS
  <2>2. \A j \in S : j \in Nat /\ j <= m /\ j # m /\ j >= 1
    OBVIOUS
  <2>3. m - 1 \in Nat /\ \A j \in S : j <= m - 1
    BY <2>1, <2>2
  <2>4. m - 1 \in T
    BY <2>3
  <2> QED BY <1>2, <2>4
<1> QED BY <1>2, <1>3

\* LastOn is what its comment says.
LEMMA LastOnIs ==
  ASSUME NEW c, NEW n \in 0 .. NPre
  PROVE  \/ /\ LastOn(c, n) = 0
            /\ \A i \in 1 .. n : Hash[PreKey(i)] # c
         \/ \E m \in 1 .. n :
              /\ LastOn(c, n) = REC_OFF + m - 1 /\ Hash[PreKey(m)] = c
              /\ \A i \in 1 .. n : Hash[PreKey(i)] = c => i <= m
<1> DEFINE S == {i \in 1 .. n : Hash[PreKey(i)] = c}
           IsLast(i) == \A j \in S : j <= i
<1>1. NPre \in Nat /\ n \in Nat
  BY DbAssumption DEF NPre
<1>2. CASE \E i \in S : IsLast(i)
  <2> DEFINE m == CHOOSE i \in S : IsLast(i)
  <2>1. m \in S /\ IsLast(m)
    BY <1>2
  <2>2. LastOn(c, n) = REC_OFF + m - 1
    BY <1>2 DEF LastOn
  <2> QED BY <2>1, <2>2
<1>3. CASE ~ \E i \in S : IsLast(i)
  <2>1. S = {}
    BY <1>1, <1>3, GreatestOf
  <2>2. LastOn(c, n) = 0
    BY <1>3 DEF LastOn
  <2> QED BY <2>1, <2>2
<1> QED BY <1>2, <1>3

\* The preloaded records, one behind the other on their chains, are lists.
LEMMA InitList == Init => ListInv
<1> SUFFICES ASSUME Init PROVE ListInv
  OBVIOUS
<1>0. PICK own, rk :
        /\ own = [c \in Cells |->
                    IF c < REC_OFF THEN c
                    ELSE IF PreIndex(c) <= NPre
                         THEN HASH_OFF + Hash[PreKey(PreIndex(c))] ELSE Off]
        /\ rk = [c \in Cells |-> IF c < REC_OFF THEN NPre + 1 ELSE PreIndex(c)]
  OBVIOUS
<1>1. TypeOK /\ NPre \in Nat /\ NPre <= MaxRecs
  BY InitTypeOK, DbAssumption DEF NPre
<1>2. /\ \A i \in 1 .. NPre : PreKey(i) \in Keys /\ PreVal(i) \in Vals
      /\ \A i, j \in 1 .. NPre : PreKey(i) = PreKey(j) => i = j
      /\ \A k \in Keys : Hash[k] \in 0 .. (NHASH - 1)
      /\ NoVal \notin Vals
  BY DbAssumption DEF NPre, PreKey, PreVal
<1>3. /\ \A r \in Recs : PreIndex(r) \in 1 .. MaxRecs /\ r \in Nat /\ ~(r < REC_OFF) /\ r \in Cells
      /\ \A r, s \in Recs : PreIndex(r) = PreIndex(s) => r = s
      /\ \A m \in 1 .. MaxRecs : REC_OFF + m - 1 \in Recs /\ PreIndex(REC_OFF + m - 1) = m
      /\ \A o \in Heads : o < REC_OFF /\ o \in Cells
      /\ REC_OFF \in Nat
  BY Sizes, Offsets DEF PreIndex, Recs, REC_OFF, HASH_OFF, Heads, Cells
<1>4. /\ \A o \in Heads : own[o] = o /\ rk[o] = NPre + 1
      /\ \A r \in Recs : /\ rk[r] = PreIndex(r)
                         /\ own[r] = IF PreIndex(r) <= NPre
                                     THEN HASH_OFF + Hash[PreKey(PreIndex(r))] ELSE Off
  BY <1>0, <1>3
<1>5. \A r \in Recs : /\ PreIndex(r) <= NPre => own[r] \in HashHeads /\ own[r] # Off
                      /\ own[r] # FREE_OFF /\ (own[r] # Off => PreIndex(r) \in 1 .. NPre)
  <2> SUFFICES ASSUME NEW r \in Recs
               PROVE  /\ PreIndex(r) <= NPre => own[r] \in HashHeads /\ own[r] # Off
                      /\ own[r] # FREE_OFF /\ (own[r] # Off => PreIndex(r) \in 1 .. NPre)
    OBVIOUS
  <2>1. PreIndex(r) <= NPre => PreIndex(r) \in 1 .. NPre
    BY <1>1, <1>3
  <2>2. PreIndex(r) <= NPre => own[r] \in HashHeads
    <3> SUFFICES ASSUME PreIndex(r) <= NPre PROVE own[r] \in HashHeads
      OBVIOUS
    <3>1. Hash[PreKey(PreIndex(r))] \in 0 .. (NHASH - 1)
      BY <1>2, <2>1
    <3>2. own[r] = HASH_OFF + Hash[PreKey(PreIndex(r))]
      BY <1>4
    <3> QED BY <3>1, <3>2, Sizes DEF HashHeads, HASH_OFF, REC_OFF
  <2> QED BY <1>4, <2>1, <2>2, CellKinds
<1>6. LinkF = [c \in Cells |-> ptr[c]]
  <2>1. \A c : Unlinking(c) = {}
    BY DEF Init, Unlinking, DelWindow
  <2> QED BY <2>1 DEF LinkF, Link
<1>7. ASSUME NEW c \in 0 .. (NHASH - 1), NEW n \in 0 .. NPre
      PROVE  After(own, rk, HASH_OFF + c, n + 1, LastOn(c, n))
  <2>1. \A r \in Recs : own[r] = HASH_OFF + c =>
          PreIndex(r) \in 1 .. NPre /\ Hash[PreKey(PreIndex(r))] = c
    <3> SUFFICES ASSUME NEW r \in Recs, own[r] = HASH_OFF + c
                 PROVE  PreIndex(r) \in 1 .. NPre /\ Hash[PreKey(PreIndex(r))] = c
      OBVIOUS
    <3>1. HASH_OFF + c # Off
      BY Sizes DEF Off, REC_OFF, HASH_OFF
    <3>2. PreIndex(r) \in 1 .. NPre
      BY <1>5, <3>1
    <3>3. own[r] = HASH_OFF + Hash[PreKey(PreIndex(r))] /\ Hash[PreKey(PreIndex(r))] \in 0 .. (NHASH - 1)
      BY <1>1, <1>2, <1>4, <3>2
    <3> QED BY <3>2, <3>3 DEF HASH_OFF
  <2>2. CASE LastOn(c, n) = 0 /\ \A i \in 1 .. n : Hash[PreKey(i)] # c
    <3>1. ASSUME NEW r \in Recs, own[r] = HASH_OFF + c PROVE rk[r] >= n + 1
      <4>1. PreIndex(r) \notin 1 .. n /\ PreIndex(r) \in 1 .. NPre
        BY <2>1, <2>2, <3>1
      <4> QED BY <1>1, <1>4, <4>1
    <3> QED BY <2>2, <3>1 DEF After
  <2>3. ASSUME NEW m \in 1 .. n,
               LastOn(c, n) = REC_OFF + m - 1, Hash[PreKey(m)] = c,
               \A i \in 1 .. n : Hash[PreKey(i)] = c => i <= m
        PROVE  After(own, rk, HASH_OFF + c, n + 1, LastOn(c, n))
    <3>0. PICK x : x = LastOn(c, n)
      OBVIOUS
    <3>1. m \in 1 .. NPre /\ m \in 1 .. MaxRecs
      BY <1>1, Sizes
    <3>2. x \in Recs /\ PreIndex(x) = m
      BY <1>3, <2>3, <3>0, <3>1
    <3>3. own[x] = HASH_OFF + c /\ rk[x] = m /\ m < n + 1
      BY <1>1, <1>4, <2>3, <3>1, <3>2
    <3>4. ASSUME NEW s \in Recs, own[s] = HASH_OFF + c, rk[s] < n + 1 PROVE rk[s] <= rk[x]
      <4>1. PreIndex(s) \in 1 .. n /\ Hash[PreKey(PreIndex(s))] = c
        BY <1>1, <1>4, <2>1, <3>4
      <4> QED BY <1>4, <2>3, <3>3, <3>4, <4>1
    <3> QED BY <3>0, <3>2, <3>3, <3>4 DEF After
  <2> QED BY <2>2, <2>3, LastOnIs
<1>8. ASSUME NEW c \in Cells, own[c] # Off PROVE After(own, rk, own[c], rk[c], LinkF[c])
  <2>1. CASE c = FREE_OFF
    <3>1. LinkF[c] = 0 /\ own[c] = FREE_OFF
      BY <1>4, <1>6, <1>8, <2>1, CellKinds DEF Init
    <3> QED BY <1>5, <3>1 DEF After
  <2>2. CASE c \in HashHeads
    <3>1. c - HASH_OFF \in 0 .. (NHASH - 1) /\ HASH_OFF + (c - HASH_OFF) = c
      BY <2>2, Sizes DEF HashHeads, HASH_OFF, REC_OFF
    <3>2. own[c] = c /\ rk[c] = NPre + 1
      BY <1>4, <2>2, CellKinds
    <3>3. c # FREE_OFF /\ c < REC_OFF
      BY <1>3, <2>2, CellKinds
    <3>4. LinkF[c] = LastOn(c - HASH_OFF, NPre)
      BY <1>6, <1>8, <3>3 DEF Init
    <3>5. NPre \in 0 .. NPre
      BY <1>1
    <3> QED BY <1>7, <3>1, <3>2, <3>4, <3>5
  <2>3. CASE c \in Recs
    <3>0. PICK i, k : i = PreIndex(c) /\ k = Hash[PreKey(i)]
      OBVIOUS
    <3>1. i \in 1 .. NPre /\ i <= NPre
      BY <1>1, <1>5, <1>8, <2>3, <3>0
    <3>2. k \in 0 .. (NHASH - 1)
      BY <1>2, <3>0, <3>1
    <3>3. own[c] = HASH_OFF + k /\ rk[c] = i
      BY <1>4, <2>3, <3>0, <3>1
    <3>4. c # FREE_OFF /\ ~(c < REC_OFF)
      BY <1>3, <2>3, CellKinds
    <3>5. LinkF[c] = LastOn(k, i - 1)
      BY <1>6, <1>8, <3>0, <3>1, <3>4 DEF Init
    <3>6. i - 1 \in 0 .. NPre /\ (i - 1) + 1 = i
      BY <1>1, <3>1
    <3> QED BY <1>7, <3>2, <3>3, <3>5, <3>6
  <2> QED BY <2>1, <2>2, <2>3, CellKinds
<1>9. own \in [Cells -> 0 .. REC_OFF] /\ rk \in [Cells -> Nat]
  <2>1. \A c \in Cells : own[c] \in 0 .. REC_OFF
    BY <1>4, <1>5, CellKinds
  <2>2. \A c \in Cells : rk[c] \in Nat
    BY <1>1, <1>3, <1>4, CellKinds
  <2> QED BY <1>0, <2>1, <2>2
<1>10. Sorted(LinkF, own, rk)
  <2>1. LinkF \in [Cells -> Ptrs]
    BY <1>1, <1>6 DEF TypeOK
  <2>2. \A r \in Recs : own[r] # Off => rk[r] < rk[own[r]]
    <3> SUFFICES ASSUME NEW r \in Recs, own[r] # Off PROVE rk[r] < rk[own[r]]
      OBVIOUS
    <3>1. PreIndex(r) \in 1 .. NPre /\ own[r] \in Heads
      BY <1>1, <1>5, CellKinds
    <3> QED BY <1>1, <1>4, <3>1
  <2>3. \A r, s \in Recs : rk[s] = rk[r] => s = r
    BY <1>3, <1>4
  <2>4. \A o \in Heads : own[o] = o
    BY <1>4
  <2> QED BY <1>8, <1>9, <2>1, <2>2, <2>3, <2>4 DEF Sorted
<1>11. ASSUME NEW r \in Recs, own[r] # Off
       PROVE  /\ r < idxend /\ own[r] \in HashHeads
              /\ rec[r].key = PreKey(PreIndex(r)) /\ PreIndex(r) \in 1 .. NPre
              /\ rec[r].klen = KeyLen[rec[r].key]
              /\ dat[rec[r].datoff].val # NoVal
  <2>0. PICK i : i = PreIndex(r)
    OBVIOUS
  <2>1. i \in 1 .. NPre /\ i <= NPre /\ own[r] \in HashHeads
    BY <1>1, <1>5, <1>11, <2>0
  <2>2. /\ rec[r].key = PreKey(i) /\ rec[r].klen = KeyLen[PreKey(i)]
        /\ rec[r].datoff = i - 1
    BY <2>0, <2>1 DEF Init
  <2>3. i - 1 \in Slots /\ i - 1 < NPre /\ (i - 1) + 1 = i
    BY <1>1, <2>1, Sizes DEF Slots
  <2>4. dat[i - 1].val = PreVal(i)
    BY <2>3 DEF Init
  <2>5. r < idxend
    BY <1>1, <2>0, <2>1, <1>3 DEF Init, PreIndex
  <2> QED BY <1>2, <2>0, <2>1, <2>2, <2>4, <2>5
<1>12. Listed(own)
  <2>1. \A r \in Recs : own[r] \in HashHeads => own[r] # Off
    BY CellKinds
  <2>2. \A r \in Recs : own[r] \in HashHeads =>
          rec[r].key \in Keys /\ own[r] = HASH_OFF + Hash[rec[r].key]
    BY <1>1, <1>2, <1>4, <1>11, <2>1
  <2>3. \A r, s \in Recs : own[r] \in HashHeads /\ own[s] \in HashHeads
                             /\ rec[s].key = rec[r].key => s = r
    BY <1>2, <1>3, <1>11, <2>1
  <2> QED BY <1>5, <1>11, <2>1, <2>2, <2>3 DEF Listed
<1>13. ASSUME NEW r \in Recs, r < idxend
       PROVE  /\ PreIndex(r) \in 1 .. NPre /\ rec[r].datoff = PreIndex(r) - 1
              /\ rec[r].datoff < datend /\ dat[rec[r].datoff].len = rec[r].datlen
  <2>0. PICK i : i = PreIndex(r)
    OBVIOUS
  <2>1. i \in 1 .. NPre /\ i <= NPre
    BY <1>1, <1>3, <1>13, <2>0 DEF Init, PreIndex
  <2>2. rec[r].datlen = DatLen[PreVal(i)] /\ rec[r].datoff = i - 1
    BY <2>0, <2>1 DEF Init
  <2>3. i - 1 \in Slots /\ i - 1 < NPre /\ (i - 1) + 1 = i
    BY <1>1, <2>1, Sizes DEF Slots
  <2>4. dat[i - 1].len = DatLen[PreVal(i)] /\ datend = NPre
    BY <2>3 DEF Init
  <2> QED BY <2>0, <2>1, <2>2, <2>3, <2>4
<1>14. DataOwned
  <2>1. ASSUME NEW r \in Recs, NEW s \in Recs, r < idxend, s < idxend,
               rec[s].datoff = rec[r].datoff
        PROVE  s = r
    <3>1. PreIndex(s) = PreIndex(r)
      BY <1>1, <1>13, <2>1
    <3> QED BY <1>3, <3>1
  <2> QED BY <1>13, <2>1 DEF DataOwned
<1>15. \A p \in Procs : pc[p] = "idle" /\ Private(p) = {}
  BY DEF Init, Private, Reusing, DelWindow
<1>16. \A p \in Procs : AtWork(own, rk, p)
  BY <1>15 DEF AtWork, Searching, Reached, Deleting, Inserting, Freeing, Refilling,
     Growing, Committing, Scanning, Storing, DelWindow, FreeWindow, Reusing, Appending
<1>17. Apart
  BY <1>15 DEF Apart
<1>18. NoneLost(own)
  <2>1. ASSUME NEW r \in Recs, r < idxend PROVE own[r] # Off
    BY <1>1, <1>5, <1>13, <2>1
  <2> QED BY <2>1 DEF NoneLost
<1> QED BY <1>9, <1>10, <1>12, <1>14, <1>16, <1>17, <1>18 DEF Shape, ListInv

-----------------------------------------------------------------------------
(* The invariant is kept by every step.                                    *)

\* The lists after a step, however it changed owners and ranks.
LEMMA StillLists ==
  ASSUME NEW own, NEW rk, Shape(own, rk)'
  PROVE  ListInv'
<1>1. own \in [Cells -> 0 .. REC_OFF] /\ rk \in [Cells -> Nat]
  BY DEF Shape, Sorted
<1> QED BY <1>1 DEF ListInv

\* A step of a process keeps the lists, unless it is a kill within a deletion.
LEMMA ProcListStep ==
  ASSUME DeletionsEnd, LockInv, LockInv', ListInv, NEW p \in Procs,
         Start(p) \/ Step(p) \/ Crash(p)
  PROVE  ListInv'
<1> PICK own \in [Cells -> 0 .. REC_OFF], rk \in [Cells -> Nat] : Shape(own, rk)
  BY DEF ListInv
<1>1. ASSUME Exit(p), pc[p] \notin DelWindow PROVE ListInv'
  BY <1>1, ExitStep, StillLists
<1>2. CASE Start(p)
  BY <1>2, RestStep, StillLists
<1>3. CASE Fetch(p)
  <2>1. CASE FindAndLock(p)
    BY <2>1, FindStep, StillLists
  <2>2. CASE WalkPast(p)
    BY <2>2, WalkPastStep, StillLists
  <2>3. CASE WalkFound(p)
    BY <2>3, WalkFoundStep, StillLists
  <2>4. CASE WalkMissing(p)
    BY <2>4, WalkMissingStep, StillLists
  <2>5. CASE FetchDat(p) \/ DoReturn(p)
    BY <2>5, RestStep, StillLists
  <2> QED BY <1>3, <2>1, <2>2, <2>3, <2>4, <2>5 DEF Fetch
<1>4. CASE Delete(p)
  <2>1. CASE DelDat(p)
    BY <2>1, DelDatStep, StillLists
  <2>2. CASE DelReadFree(p)
    BY <2>2, DelReadFreeStep, StillLists
  <2>3. CASE DelIdx(p)
    BY <2>3, DelIdxStep, StillLists
  <2>4. CASE DelFree(p)
    BY <2>4, DelFreeStep, StillLists
  <2>5. CASE DelChain(p)
    BY <2>5, DelChainStep, StillLists
  <2> QED BY <1>4, <2>1, <2>2, <2>3, <2>4, <2>5 DEF Delete
<1>5. CASE Store(p)
  <2>1. CASE OverDat(p)
    BY <2>1, OverDatStep, StillLists
  <2>2. CASE ReadHead(p)
    BY <2>2, ReadHeadStep, StillLists
  <2>3. CASE FindFree(p)
    BY <2>3, FindFreeStep, StillLists
  <2>4. CASE FreePast(p) \/ FreeFound(p)
    BY <2>4, FreeRecStep, StillLists
  <2>5. CASE FreeMissing(p) \/ AppendDatSeek(p)
    BY <2>5, AppendDatSteps, StillLists
  <2>6. CASE FreeTake(p)
    BY <2>6, FreeTakeStep, StillLists
  <2>7. CASE ReuseDat(p)
    BY <2>7, ReuseDatStep, StillLists
  <2>8. CASE ReuseIdx(p)
    BY <2>8, ReuseIdxStep, StillLists
  <2>9. CASE AppendDat(p)
    BY <2>9, AppendDatStep, StillLists
  <2>10. CASE AppendIdxSeek(p)
    BY <2>10, AppendIdxSeekStep, StillLists
  <2>11. CASE AppendIdx(p)
    BY <2>11, AppendIdxStep, StillLists
  <2>12. CASE AppendNoSpace(p) \/ CommitTooFar(p)
    BY <1>1, <2>12 DEF AppendNoSpace, CommitTooFar, DelWindow
  <2>13. CASE Commit(p)
    BY <2>13, CommitStep, StillLists
  <2> QED BY <1>5, <2>1, <2>2, <2>3, <2>4, <2>5, <2>6, <2>7, <2>8, <2>9, <2>10, <2>11,
             <2>12, <2>13 DEF Store
<1>6. CASE NextRec(p)
  <2>1. CASE NextLock(p) \/ NextPast(p) \/ NextEof(p) \/ NextDat(p)
    BY <2>1, RestStep, StillLists
  <2>2. CASE NextFound(p)
    BY <2>2, NextFoundStep, StillLists
  <2>3. CASE NextAstray(p)
    BY <1>1, <2>3 DEF NextAstray, DelWindow
  <2> QED BY <1>6, <2>1, <2>2, <2>3 DEF NextRec
<1>7. CASE Crash(p)
  BY <1>1, <1>7 DEF Crash, DeletionsEnd
<1> QED BY <1>2, <1>3, <1>4, <1>5, <1>6, <1>7 DEF Step

\* Every step keeps the lists.
LEMMA ListStep ==
  ASSUME DeletionsEnd, LockInv, ListInv, [Next]_vars
  PROVE  ListInv'
<1>1. LockInv'
  BY LockStep
<1>2. ASSUME NEW p \in Procs, Start(p) \/ Step(p) \/ Crash(p) PROVE ListInv'
  BY <1>1, <1>2, ProcListStep
<1>3. CASE UNCHANGED vars
  <2> PICK own \in [Cells -> 0 .. REC_OFF], rk \in [Cells -> Nat] : Shape(own, rk)
    BY DEF ListInv
  <2>1. /\ ptr' = ptr /\ rec' = rec /\ idxend' = idxend /\ dat' = dat /\ datend' = datend
        /\ pc' = pc /\ h' = h /\ call' = call
    BY <1>3 DEF vars
  <2>2. /\ \A c : Link(c)' = Link(c)
        /\ LinkF' = LinkF /\ \A p \in Procs : Private(p)' = Private(p)
    BY <2>1 DEF Link, LinkF, Unlinking, Private
  <2>3. Sorted(LinkF, own, rk)' /\ Listed(own)' /\ DataOwned' /\ Apart' /\ NoneLost(own)'
    BY <2>1, <2>2 DEF Shape, Sorted, After, Listed, DataOwned, Apart, NoneLost, Alive
  <2>4. ASSUME NEW p \in Procs PROVE AtWork(own, rk, p)'
    <3>1. AtWork(own, rk, p)
      BY DEF Shape
    <3>2. Searching(own, rk, p)' /\ Reached(own, p)' /\ Deleting(own, p)' /\ Inserting(own, p)'
      BY <2>1, <2>2, <3>1 DEF AtWork, Searching, Reached, Deleting, Inserting, Missing, chainoff
    <3>3. Freeing(own, p)' /\ Refilling(own, p)' /\ Growing(p)' /\ Committing(own, p)' /\ Scanning(p)'
      BY <2>1, <2>2, <3>1 DEF AtWork, Freeing, Refilling, Growing, Committing, Scanning, Missing,
         chainoff, Fits, NewDat, NewRec
    <3> QED BY <3>2, <3>3 DEF AtWork
  <2>5. Shape(own, rk)'
    BY <2>3, <2>4 DEF Shape
  <2> QED BY <2>5, StillLists
<1> QED BY <1>2, <1>3 DEF Next

\* No kill within a deletion: types, locks and lists together are inductive.
LEMMA ListInvariance ==
  ASSUME DeletionsEnd
  PROVE  Spec => [](LockInv /\ ListInv)
<1>1. Init => LockInv /\ ListInv
  BY InitTypeOK, InitLocks, InitList DEF LockInv
<1>2. LockInv /\ ListInv /\ [Next]_vars => (LockInv /\ ListInv)'
  BY LockStep, ListStep
<1> QED BY <1>1, <1>2, PTL DEF Spec

-----------------------------------------------------------------------------
(* What it says of the lists as they are followed in the file.             *)

\* A list consists of the records that it owns.
LEMMA Owned ==
  ASSUME LockInv, NEW own, NEW rk, Shape(own, rk)
  PROVE  /\ 0 .. (REC_OFF - 1) = Heads
         /\ \A o \in Heads : Path(o)[MaxRecs] = 0 /\ On(o) = {r \in Recs : own[r] = o}
         /\ \A i \in Hashes : HASH_OFF + i \in HashHeads /\ HASH_OFF + i \in Heads
         /\ \A r \in Recs : own[r] # Off => own[r] \in Heads
         /\ \A r \in REC_OFF .. (idxend - 1) : r \in Recs /\ r < idxend
<1>1. \A o \in Heads : Path(o)[MaxRecs] = 0 /\ On(o) = {r \in Recs : own[r] = o}
  BY PathOwned DEF Shape
<1>2. \A i \in Hashes : HASH_OFF + i \in HashHeads /\ HASH_OFF + i \in Heads
  BY Sizes DEF Hashes, HashHeads, Heads, HASH_OFF, REC_OFF
<1>3. \A r \in Recs : own[r] # Off => own[r] \in Heads
  BY CellKinds DEF Shape, Sorted
<1>4. \A r \in REC_OFF .. (idxend - 1) : r \in Recs /\ r < idxend
  BY Sizes, Offsets DEF LockInv, TypeOK, Recs
<1> QED BY <1>1, <1>2, <1>3, <1>4 DEF Heads

\* Lists end and are apart.
LEMMA DisjointLists == LockInv /\ ListInv => ListsDisjoint
<1> SUFFICES ASSUME LockInv, ListInv PROVE ListsDisjoint
  OBVIOUS
<1> PICK own \in [Cells -> 0 .. REC_OFF], rk \in [Cells -> Nat] : Shape(own, rk)
  BY DEF ListInv
<1>1. \A o, e \in Heads : o # e => On(o) \cap On(e) = {}
  BY Owned
<1>2. \A o \in Heads, p \in Procs : On(o) \cap Private(p) = {}
  BY Owned, PrivateOff, CellKinds DEF LockInv
<1>3. \A p, q \in Procs : p # q => Private(p) \cap Private(q) = {}
  BY DEF Shape, Apart
<1> QED BY <1>1, <1>2, <1>3, Owned DEF ListsDisjoint

\* Chains hold whole records.
LEMMA WholeRecords == LockInv /\ ListInv => ChainsHoldRecords
<1> SUFFICES ASSUME LockInv, ListInv, NEW i \in Hashes, NEW r \in Chain(i)
             PROVE  /\ r < idxend
                    /\ rec[r].key \in Keys /\ Hash[rec[r].key] = i
                    /\ rec[r].klen = KeyLen[rec[r].key]
                    /\ rec[r].datoff < datend
                    /\ dat[rec[r].datoff].val # NoVal
                    /\ dat[rec[r].datoff].len = rec[r].datlen
                    /\ \A s \in REC_OFF .. (idxend - 1) : s # r =>
                         /\ rec[s].datoff # rec[r].datoff
                         /\ s \in Chain(i) => rec[s].key # rec[r].key
  BY DEF ChainsHoldRecords
<1> PICK own \in [Cells -> 0 .. REC_OFF], rk \in [Cells -> Nat] : Shape(own, rk)
  BY DEF ListInv
<1>1. Listed(own) /\ DataOwned
  BY DEF Shape
<1>2. /\ \A s \in Chain(i) : s \in Recs /\ own[s] \in HashHeads /\ own[s] = HASH_OFF + i
      /\ own[r] # Off
  BY Owned, CellKinds DEF Chain
<1>3. /\ r < idxend /\ rec[r].key \in Keys /\ own[r] = HASH_OFF + Hash[rec[r].key]
      /\ rec[r].klen = KeyLen[rec[r].key] /\ dat[rec[r].datoff].val # NoVal
  BY <1>1, <1>2 DEF Listed
<1>4. Hash[rec[r].key] = i
  <2>1. Hash[rec[r].key] \in Nat /\ i \in Nat
    BY <1>3, DbAssumption DEF Hashes
  <2> QED BY <1>2, <1>3, <2>1 DEF HASH_OFF
<1>5. rec[r].datoff < datend /\ dat[rec[r].datoff].len = rec[r].datlen
  BY <1>1, <1>2, <1>3 DEF DataOwned
<1>6. \A s \in REC_OFF .. (idxend - 1) : s # r => rec[s].datoff # rec[r].datoff
  BY <1>1, <1>2, <1>3, Owned DEF DataOwned
<1>7. \A s \in Chain(i) : s # r => rec[s].key # rec[r].key
  BY <1>1, <1>2 DEF Listed
<1> QED BY <1>3, <1>4, <1>5, <1>6, <1>7

\* Without a kill no record is lost.
LEMMA NoneLeaks == LockInv /\ ListInv => NoLeak
<1> SUFFICES ASSUME LockInv, ListInv, Alive, NEW r \in REC_OFF .. (idxend - 1)
             PROVE  \/ \E o \in 0 .. (REC_OFF - 1) : r \in On(o)
                    \/ \E p \in Procs : r \in Private(p)
  BY DEF NoLeak, Alive
<1> PICK own \in [Cells -> 0 .. REC_OFF], rk \in [Cells -> Nat] : Shape(own, rk)
  BY DEF ListInv
<1>1. r \in Recs /\ r < idxend
  BY Owned
<1>2. own[r] # Off \/ \E p \in Procs : r \in Private(p)
  BY <1>1 DEF Shape, NoneLost
<1>3. own[r] # Off => r \in On(own[r]) /\ own[r] \in 0 .. (REC_OFF - 1)
  <2> SUFFICES ASSUME own[r] # Off PROVE r \in On(own[r]) /\ own[r] \in 0 .. (REC_OFF - 1)
    OBVIOUS
  <2>1. own[r] \in Heads /\ own[r] \in 0 .. (REC_OFF - 1)
    BY <1>1, Owned
  <2>2. On(own[r]) = {s \in Recs : own[s] = own[r]}
    BY <2>1, Owned
  <2> QED BY <1>1, <2>1, <2>2
<1> QED BY <1>2, <1>3

\* Free records are blank.
LEMMA FreeBlank == LockInv /\ ListInv => FreeRecordsBlank
<1> SUFFICES ASSUME LockInv, ListInv, NEW r \in Free
             PROVE  /\ r < idxend /\ rec[r].key = NoKey
                    /\ dat[rec[r].datoff].val = NoVal
                    /\ dat[rec[r].datoff].len = rec[r].datlen
  BY DEF FreeRecordsBlank
<1> PICK own \in [Cells -> 0 .. REC_OFF], rk \in [Cells -> Nat] : Shape(own, rk)
  BY DEF ListInv
<1>1. r \in Recs /\ own[r] = FREE_OFF /\ own[r] # Off
  BY Owned, CellKinds DEF Free
<1>2. r < idxend /\ rec[r].key = NoKey /\ dat[rec[r].datoff].val = NoVal
  BY <1>1 DEF Shape, Listed
<1>3. dat[rec[r].datoff].len = rec[r].datlen
  BY <1>1, <1>2 DEF Shape, DataOwned
<1> QED BY <1>2, <1>3

\* What is rewritten in place has the length of what it replaces.
LEMMA LengthsFit == LockInv /\ ListInv => LengthsKept
<1> SUFFICES ASSUME LockInv, ListInv, NEW p \in Procs
             PROVE  /\ pc[p] \in Reusing =>
                         /\ rec[h[p].idxoff].klen = KeyLen[call[p].key]
                         /\ rec[h[p].idxoff].datlen = DatLen[call[p].val]
                         /\ dat[h[p].datoff].len = DatLen[call[p].val]
                    /\ pc[p] = "over_dat" => dat[h[p].datoff].len = DatLen[call[p].val]
  BY DEF LengthsKept
<1> PICK own \in [Cells -> 0 .. REC_OFF], rk \in [Cells -> Nat] : Shape(own, rk)
  BY DEF ListInv
<1>1. Refilling(own, p) /\ Reached(own, p) /\ DataOwned /\ Listed(own) /\ TypeOK
  BY DEF LockInv, Shape, AtWork
<1>2. CASE pc[p] \in Reusing
  <2>1. /\ h[p].idxoff \in Recs /\ h[p].idxoff < idxend
        /\ h[p].datoff = rec[h[p].idxoff].datoff /\ Fits(p, h[p].idxoff)
    BY <1>1, <1>2 DEF Refilling
  <2> QED BY <1>1, <1>2, <2>1 DEF Fits, DataOwned, Reusing
<1>3. CASE pc[p] = "over_dat"
  <2>1. /\ h[p].idxoff \in Recs /\ own[h[p].idxoff] = chainoff(p)
        /\ h[p].datoff = rec[h[p].idxoff].datoff
        /\ rec[h[p].idxoff].datlen = DatLen[call[p].val]
    BY <1>1, <1>3 DEF Reached
  <2>2. chainoff(p) # Off
    BY <1>1, <1>3, ChainHead DEF InChain
  <2>3. h[p].idxoff < idxend
    BY <1>1, <2>1, <2>2 DEF Listed
  <2> QED BY <1>1, <1>3, <2>1, <2>3 DEF DataOwned, Reusing
<1> QED BY <1>2, <1>3

\* db_nextrec returns records that are there.
LEMMA NextrecFinds == LockInv /\ ListInv => NextrecSound
<1> SUFFICES ASSUME LockInv, ListInv, NEW p \in Procs, pc[p] = "next_dat", Alive
             PROVE  /\ dat[h[p].datoff].val # NoVal
                    /\ \/ \E i \in Hashes : /\ h[p].idxoff \in Chain(i)
                                            /\ h[p].kbuf = rec[h[p].idxoff].key
                       \/ \E q \in Procs : pc[q] = "commit" /\ h[q].idxoff = h[p].idxoff
  BY DEF NextrecSound, Alive
<1> PICK own \in [Cells -> 0 .. REC_OFF], rk \in [Cells -> Nat] : Shape(own, rk)
  BY DEF ListInv
<1>0. PICK r : r = h[p].idxoff
  OBVIOUS
<1>1. TypeOK /\ Listed(own) /\ DataOwned
  BY DEF LockInv, Shape
<1>2. /\ r \in Recs /\ r < idxend /\ h[p].kbuf = rec[r].key /\ rec[r].key # NoKey
      /\ h[p].datoff = rec[r].datoff
  BY <1>0 DEF Shape, AtWork, Scanning
<1>3. own[r] # Off \/ \E q \in Procs : r \in Private(q)
  BY <1>2 DEF Shape, NoneLost
<1>4. CASE own[r] # Off
  <2>1. own[r] # FREE_OFF
    BY <1>1, <1>2 DEF Listed
  <2>2. own[r] \in HashHeads /\ own[r] \in Heads
    BY <1>2, <1>4, <2>1, Owned, CellKinds
  <2>3. dat[rec[r].datoff].val # NoVal
    BY <1>1, <1>2, <2>2 DEF Listed
  <2>4. own[r] - HASH_OFF \in Hashes /\ HASH_OFF + (own[r] - HASH_OFF) = own[r]
    BY <2>2, Sizes DEF HashHeads, Hashes, HASH_OFF, REC_OFF
  <2>5. r \in Chain(own[r] - HASH_OFF)
    BY <1>2, <2>2, <2>4, Owned DEF Chain
  <2> QED BY <1>0, <1>2, <2>3, <2>4, <2>5
<1>5. ASSUME NEW q \in Procs, r \in Private(q)
      PROVE  /\ pc[q] = "commit" /\ h[q].idxoff = r
             /\ dat[rec[r].datoff].val # NoVal
  <2>1. r = h[q].idxoff /\ pc[q] # "app_idx"
    <3>1. r = h[q].idxoff /\ IF pc[q] = "app_idx" THEN r = idxend ELSE r < idxend
      BY <1>1, <1>5, PrivateOff
    <3>2. idxend \in Nat
      BY <1>1, HandleFields
    <3> QED BY <1>2, <3>1, <3>2
  <2>2. pc[q] \notin DelWindow
    <3>1. FreeListExclusion
      BY FreeListApart
    <3>2. pc[q] \in DelWindow => q # p
      BY DEF DelWindow
    <3> QED BY <3>1, <3>2 DEF FreeListExclusion
  <2>3. pc[q] \notin Reusing
    BY <1>2, <2>1 DEF Shape, AtWork, Refilling
  <2>4. pc[q] = "commit"
    BY <1>5, <2>1, <2>2, <2>3 DEF Private
  <2>5. rec[r] = NewRec(q) /\ dat[h[q].datoff] = NewDat(q)
    BY <2>1, <2>4 DEF Shape, AtWork, Committing
  <2>6. call[q].val # NoVal
    BY <2>4, StoreFacts
  <2> QED BY <2>1, <2>4, <2>5, <2>6 DEF NewRec, NewDat
<1> QED BY <1>0, <1>2, <1>3, <1>4, <1>5

-----------------------------------------------------------------------------
\* The hash chains and the free list end and are disjoint, and what is on a chain
\* is a whole record of a key of that chain, the only one of its key, with data of
\* its own: whatever calls run at the same time, and wherever processes are
\* killed, but for the writes of a deletion.
THEOREM ListsKept ==
  ASSUME DeletionsEnd
  PROVE  Spec => []ListsSound
<1>1. LockInv /\ ListInv => ListsSound
  BY DisjointLists, WholeRecords DEF ListsSound
<1> QED BY <1>1, ListInvariance, PTL

\* No record of the index file is lost or in two places, free records are blank,
\* records are rewritten in place at their length, though it was read under a lock
\* given back since, and db_nextrec returns only records that are there.
THEOREM RecordsAreKept ==
  ASSUME DeletionsEnd
  PROVE  Spec => []RecordsKept
<1>1. LockInv /\ ListInv => RecordsKept
  BY DisjointLists, NoneLeaks, FreeBlank, LengthsFit, NextrecFinds DEF RecordsKept
<1> QED BY <1>1, ListInvariance, PTL
=============================================================================
