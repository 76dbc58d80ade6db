---------------------------- MODULE DbRefinement ----------------------------
(***************************************************************************)
(* Proof that the database library implements KVStore: db_fetch, db_store  *)
(* and db_delete of any number of processes take effect atomically on a    *)
(* map from keys to data.  A fetch takes effect when the data is read, or  *)
(* when the end of the chain shows that there is none; a deletion, and a   *)
(* replacement by data of another length, when the old data is blanked; a  *)
(* replacement in place when the data is rewritten; an insertion when the  *)
(* new record becomes the first of its chain.                              *)
(***************************************************************************)
EXTENDS DbProofs

-----------------------------------------------------------------------------
(* The flag of a store, which decides what it does with the record found.  *)

\* A store that is about to rewrite or delete what it found was allowed to, one
\* that adds a record, too; only a replacement has deleted before.
FlagFits(p) ==
  /\ h[p].repl => pc[p] \in {"head", "commit", "doreturn"} \cup Appending
  /\ h[p].repl /\ pc[p] # "doreturn" => call[p].flag # "DB_INSERT"
  /\ pc[p] \in {"del_dat", "over_dat"} \cup DelWindow /\ call[p].kind = "store"
       => call[p].flag # "DB_INSERT"
  /\ pc[p] \in Storing /\ ~h[p].repl => call[p].flag # "DB_REPLACE"

FlagInv == \A p \in Procs : FlagFits(p)

\* The flag stays while the search moves on.
LEMMA ReplKept ==
  ASSUME NEW p \in Procs, h \in [Procs -> Handle],
         FindAndLock(p) \/ WalkPast(p) \/ ReadHead(p) \/ FindFree(p) \/ FreeMissing(p) \/ FreePast(p) \/ FreeFound(p)
  PROVE  h'[p].repl = h[p].repl
<1>1. h[p] \in Handle
  OBVIOUS
<1>2. ReadIdx(p).repl = h[p].repl /\ \A r, o : [ReadIdx(p) EXCEPT !.ptroff = r, !.offset = o].repl = h[p].repl
  BY <1>1 DEF ReadIdx, Handle
<1>3. \A r, o : [h[p] EXCEPT !.offset = r, !.ptroff = o].repl = h[p].repl
  BY <1>1 DEF Handle
<1>4. CASE FindAndLock(p)
  <2>1. h' = [h EXCEPT ![p] = [h[p] EXCEPT !.offset = ptr[chainoff(p)], !.ptroff = chainoff(p)]]
    BY <1>4 DEF FindAndLock
  <2>2. h'[p] = [h[p] EXCEPT !.offset = ptr[chainoff(p)], !.ptroff = chainoff(p)]
    BY <2>1
  <2> QED BY <1>3, <2>2
<1>5. CASE FindFree(p)
  <2>1. h' = [h EXCEPT ![p] = [h[p] EXCEPT !.offset = ptr[FREE_OFF], !.ptroff = FREE_OFF]]
    BY <1>5 DEF FindFree
  <2>2. h'[p] = [h[p] EXCEPT !.offset = ptr[FREE_OFF], !.ptroff = FREE_OFF]
    BY <2>1
  <2> QED BY <1>3, <2>2
<1>6. CASE WalkPast(p) \/ FreePast(p)
  <2>1. h' = [h EXCEPT ![p] = [ReadIdx(p) EXCEPT !.ptroff = h[p].offset, !.offset = ptr[h[p].offset]]]
    BY <1>6 DEF WalkPast, FreePast
  <2>2. h'[p] = [ReadIdx(p) EXCEPT !.ptroff = h[p].offset, !.offset = ptr[h[p].offset]]
    BY <2>1
  <2> QED BY <1>2, <2>2
<1>7. CASE FreeFound(p)
  <2>1. h' = [h EXCEPT ![p] = ReadIdx(p)]
    BY <1>7 DEF FreeFound
  <2>2. h'[p] = ReadIdx(p)
    BY <2>1
  <2> QED BY <1>2, <2>2
<1>8. CASE ReadHead(p)
  BY <1>1, <1>8 DEF ReadHead, Handle
<1>9. CASE FreeMissing(p)
  BY <1>1, <1>9 DEF FreeMissing, Handle
<1> QED BY <1>4, <1>5, <1>6, <1>7, <1>8, <1>9

\* A step of a process keeps them, for it and for the others.
LEMMA ProcFlagStep ==
  ASSUME TypeOK, FlagInv, NEW p \in Procs, Start(p) \/ Step(p) \/ Crash(p)
  PROVE  FlagInv'
<1> USE DEF DelWindow, FreeWindow, Storing, Appending, Reusing
<1>1. ASSUME \A q \in Procs \ {p} : Still(q), FlagFits(p)' PROVE FlagInv'
  BY <1>1 DEF FlagInv, FlagFits, Still
<1>2. FlagFits(p) /\ h[p] \in Handle /\ pc \in [Procs -> PCs] /\ call \in [Procs -> AllCalls]
      /\ h \in [Procs -> Handle]
  BY DEF FlagInv, TypeOK
<1>3. ASSUME Exit(p) PROVE FlagInv'
  <2>1. \A q \in Procs \ {p} : Still(q)
    BY <1>2, <1>3 DEF Exit, Still
  <2>2. FlagFits(p)'
    BY <1>2, <1>3 DEF Exit, FlagFits, NullHandle
  <2> QED BY <1>1, <2>1, <2>2
<1>4. CASE Start(p)
  <2>1. \A q \in Procs \ {p} : Still(q)
    BY <1>2, <1>4 DEF Start, Begin, StoreInvalid, db_rewind, Still
  <2>2. FlagFits(p)'
    BY <1>2, <1>4 DEF Start, Begin, StoreInvalid, db_rewind, FlagFits
  <2> QED BY <1>1, <2>1, <2>2
<1>5. CASE Fetch(p)
  <2>1. \A q \in Procs \ {p} : Still(q)
    BY <1>2, <1>5 DEF Fetch, FindAndLock, WalkPast, WalkFound, WalkMissing, FetchDat,
       DoReturn, Goto, Settle, Still
  <2>2. CASE FindAndLock(p) \/ WalkPast(p)
    <3>1. h'[p].repl = h[p].repl
      BY <1>2, <2>2, ReplKept
    <3>2. call'[p] = call[p] /\ pc[p] \in {"find", "walk"} /\ pc'[p] = "walk"
      BY <1>2, <2>2 DEF FindAndLock, WalkPast, Goto
    <3> QED BY <1>1, <1>2, <2>1, <3>1, <3>2 DEF FlagFits
  <2>3. CASE WalkFound(p)
    <3>1. h'[p].repl = h[p].repl /\ call'[p] = call[p] /\ pc[p] = "walk"
      BY <1>2, <2>3 DEF WalkFound, ReadIdx, Handle
    <3>2. \/ pc'[p] \in {"fetch_dat", "doreturn"}
          \/ pc'[p] = "del_dat" /\ call[p].kind = "delete"
          \/ pc'[p] \in {"del_dat", "over_dat"} /\ call[p].flag # "DB_INSERT"
      BY <1>2, <2>3 DEF WalkFound, Goto, Settle
    <3> QED BY <1>1, <1>2, <2>1, <3>1, <3>2 DEF FlagFits
  <2>4. CASE WalkMissing(p)
    <3>1. h' = h /\ call' = call /\ pc[p] = "walk"
      BY <2>4 DEF WalkMissing
    <3>2. \/ Settle(p, "walk", Result("error", NoKey, NoVal))
          \/ Goto(p, "walk", "head") /\ call[p].flag # "DB_REPLACE"
      BY <2>4 DEF WalkMissing
    <3>3. \/ pc'[p] = "doreturn"
          \/ pc'[p] = "head" /\ call[p].flag # "DB_REPLACE"
      BY <1>2, <3>2 DEF Goto, Settle
    <3> QED BY <1>1, <1>2, <2>1, <3>1, <3>3 DEF FlagFits
  <2>5. CASE FetchDat(p)
    <3>1. h' = h /\ call' = call /\ pc[p] = "fetch_dat" /\ pc'[p] = "doreturn"
      BY <1>2, <2>5 DEF FetchDat, Settle, Goto
    <3> QED BY <1>1, <1>2, <2>1, <3>1 DEF FlagFits
  <2>6. CASE DoReturn(p)
    <3>1. ~h'[p].repl /\ pc'[p] = "idle"
      BY <1>2, <2>6 DEF DoReturn, Goto, NullHandle
    <3> QED BY <1>1, <1>2, <2>1, <3>1 DEF FlagFits
  <2> QED BY <1>5, <2>2, <2>3, <2>4, <2>5, <2>6 DEF Fetch
<1>6. CASE Delete(p)
  <2>1. \A q \in Procs \ {p} : Still(q)
    BY <1>2, <1>6 DEF Delete, DelDat, DelReadFree, DelIdx, DelFree, DelChain, Goto, Settle, Still
  <2>2. CASE DelDat(p) \/ DelReadFree(p) \/ DelIdx(p) \/ DelFree(p)
    <3>1. /\ h'[p].repl = h[p].repl /\ call'[p] = call[p]
          /\ pc[p] \in {"del_dat", "del_read", "del_idx", "del_free"}
          /\ pc'[p] \in {"del_read", "del_idx", "del_free", "del_chain"}
      BY <1>2, <2>2 DEF DelDat, DelReadFree, DelIdx, DelFree, Goto, Handle
    <3> QED BY <1>1, <1>2, <2>1, <3>1 DEF FlagFits
  <2>3. CASE DelChain(p)
    <3>1. call'[p] = call[p] /\ pc[p] = "del_chain"
      BY <1>2, <2>3 DEF DelChain, Goto, Settle
    <3>2. \/ pc'[p] = "doreturn" /\ h'[p] = h[p]
          \/ pc'[p] = "head" /\ call[p].kind = "store" /\ h'[p].repl
      BY <1>2, <2>3 DEF DelChain, Goto, Settle, Handle
    <3> QED BY <1>1, <1>2, <2>1, <3>1, <3>2 DEF FlagFits
  <2> QED BY <1>6, <2>2, <2>3 DEF Delete
<1>7. CASE Store(p)
  <2>1. CASE AppendNoSpace(p) \/ CommitTooFar(p)
    BY <1>3, <2>1 DEF AppendNoSpace, CommitTooFar
  <2>2. CASE ReadHead(p)
    <3>1. /\ \A q \in Procs \ {p} : Still(q)
          /\ h'[p].repl = h[p].repl /\ call'[p] = call[p] /\ pc[p] = "head"
          /\ pc'[p] = IF h[p].repl THEN "app_dat_seek" ELSE "free_find"
      BY <1>2, <2>2 DEF ReadHead, Goto, Still, Handle
    <3> QED BY <1>1, <1>2, <3>1 DEF FlagFits
  <2>3. CASE FindFree(p) \/ FreePast(p) \/ FreeFound(p)
    <3>1. \A q \in Procs \ {p} : Still(q)
      BY <1>2, <2>3 DEF FindFree, FreePast, FreeFound, Goto, Still
    <3>2. h'[p].repl = h[p].repl
      BY <1>2, <2>3, ReplKept
    <3>3. /\ call'[p] = call[p]
          /\ pc[p] \in {"free_find", "free_walk"} /\ pc'[p] \in {"free_walk", "free_take"}
      BY <1>2, <2>3 DEF FindFree, FreePast, FreeFound, Goto
    <3> QED BY <1>1, <1>2, <3>1, <3>2, <3>3 DEF FlagFits
  <2>4. CASE FreeMissing(p) \/ FreeTake(p) \/ ReuseDat(p) \/ ReuseIdx(p)
    <3>1. /\ \A q \in Procs \ {p} : Still(q)
          /\ h'[p].repl = h[p].repl /\ call'[p] = call[p]
          /\ pc[p] \in FreeWindow \cup Reusing /\ pc'[p] \in {"app_dat_seek", "reuse_dat", "reuse_idx", "commit"}
      BY <1>2, <2>4 DEF FreeMissing, FreeTake, ReuseDat, ReuseIdx, Goto, Still
    <3> QED BY <1>1, <1>2, <3>1 DEF FlagFits
  <2>5. CASE AppendDatSeek(p) \/ AppendDat(p) \/ AppendIdxSeek(p) \/ AppendIdx(p)
    <3>1. /\ \A q \in Procs \ {p} : Still(q)
          /\ h'[p].repl = h[p].repl /\ call'[p] = call[p]
          /\ pc[p] \in Appending /\ pc'[p] \in Appending \cup {"commit"}
      BY <1>2, <2>5 DEF AppendDatSeek, AppendDat, AppendIdxSeek, AppendIdx, Goto, Still, Handle
    <3> QED BY <1>1, <1>2, <3>1 DEF FlagFits
  <2>6. CASE OverDat(p) \/ Commit(p)
    <3>1. /\ \A q \in Procs \ {p} : Still(q)
          /\ h'[p].repl = h[p].repl /\ call'[p] = call[p]
          /\ pc[p] \in {"over_dat", "commit"} /\ pc'[p] = "doreturn"
      BY <1>2, <2>6 DEF OverDat, Commit, Settle, Goto, Still
    <3> QED BY <1>1, <1>2, <3>1 DEF FlagFits
  <2> QED BY <1>7, <2>1, <2>2, <2>3, <2>4, <2>5, <2>6 DEF Store
<1>8. CASE NextRec(p)
  <2>1. CASE NextAstray(p)
    BY <1>3, <2>1 DEF NextAstray
  <2>2. CASE ~NextAstray(p)
    <3>1. \/ NextLock(p) \/ NextPast(p) \/ NextFound(p)
          \/ NextEof(p) \/ NextDat(p)
      BY <1>8, <2>2 DEF NextRec
    <3>2. \A q \in Procs \ {p} : Still(q)
      BY <1>2, <3>1 DEF NextLock, NextPast, NextFound, NextEof, NextDat, Goto, Still
    <3>3. /\ pc[p] \in {"next_lock", "next_idx", "next_dat"}
          /\ pc'[p] \in {"next_idx", "next_dat", "idle"}
      BY <1>2, <3>1 DEF NextLock, NextPast, NextFound, NextEof, NextDat, Goto
    <3>4. CASE NextDat(p)
      <4>1. ~h'[p].repl
        BY <1>2, <3>4 DEF NextDat, NullHandle
      <4> QED BY <1>1, <3>2, <3>3, <4>1 DEF FlagFits
    <3>5. CASE ~NextDat(p)
      <4>1. h'[p].repl = h[p].repl
        BY <1>2, <3>1, <3>5 DEF NextLock, NextPast, NextFound, NextEof, Handle
      <4> QED BY <1>1, <1>2, <3>2, <3>3, <4>1 DEF FlagFits
    <3> QED BY <3>4, <3>5
  <2> QED BY <2>1, <2>2
<1>9. CASE Crash(p)
  BY <1>3, <1>9 DEF Crash
<1> QED BY <1>4, <1>5, <1>6, <1>7, <1>8, <1>9 DEF Step

\* They hold in every state.
LEMMA FlagStep == TypeOK /\ FlagInv /\ [Next]_vars => FlagInv'
<1>1. ASSUME FlagInv, UNCHANGED vars PROVE FlagInv'
  BY <1>1 DEF FlagInv, FlagFits, vars
<1> QED BY <1>1, ProcFlagStep DEF Next

-----------------------------------------------------------------------------
(* What is stored under a key.                                             *)

\* Record r is on the chain of key k and has that key.
Holds(own, k, r) == r \in Recs /\ own[r] = HASH_OFF + Hash[k] /\ rec[r].key = k

\* A key's data is that of the one record that holds it, if any.
LEMMA LookupIs ==
  ASSUME LockInv, NEW own, NEW rk, Shape(own, rk), NEW k \in Keys
  PROVE  /\ \A r : Holds(own, k, r) => /\ Lookup(k) = dat[rec[r].datoff].val
                                       /\ Lookup(k) # NoVal
         /\ (\A r : ~Holds(own, k, r)) => Lookup(k) = NoVal
<1> DEFINE R == {r \in Chain(Hash[k]) : rec[r].key = k}
<1>1. Hash[k] \in Hashes
  BY DbAssumption DEF Hashes
<1>2. HASH_OFF + Hash[k] \in HashHeads /\ HASH_OFF + Hash[k] \in Heads
  BY <1>1, Owned
<1>3. \A r : r \in R <=> Holds(own, k, r)
  BY <1>2, Owned DEF Chain, Holds
<1>4. Lookup(k) = IF R = {} THEN NoVal ELSE dat[rec[CHOOSE r \in R : TRUE].datoff].val
  BY DEF Lookup
<1>5. ASSUME NEW r, Holds(own, k, r)
      PROVE  Lookup(k) = dat[rec[r].datoff].val /\ Lookup(k) # NoVal
  <2>1. Listed(own)
    BY DEF Shape
  <2>2. \A s : s \in R => s = r
    BY <1>2, <1>3, <1>5, <2>1 DEF Listed, Holds
  <2>3. R # {} /\ (CHOOSE s \in R : TRUE) = r
    BY <1>3, <1>5, <2>2
  <2>4. dat[rec[r].datoff].val # NoVal
    BY <1>2, <1>5, <2>1 DEF Listed, Holds
  <2> QED BY <1>4, <2>3, <2>4
<1>6. ASSUME \A r : ~Holds(own, k, r) PROVE Lookup(k) = NoVal
  BY <1>3, <1>4, <1>6
<1> QED BY <1>5, <1>6

\* The same as one statement about a state, which can be primed.
LooksUp ==
  \A own, rk : Shape(own, rk) =>
    \A k \in Keys :
      /\ \A r : Holds(own, k, r) => Lookup(k) = dat[rec[r].datoff].val /\ Lookup(k) # NoVal
      /\ (\A r : ~Holds(own, k, r)) => Lookup(k) = NoVal

LEMMA LookupsTrue == LockInv => LooksUp
BY LookupIs DEF LooksUp

\* A step leaves the records on the chains and their data alone, and puts or takes
\* none.
Unmoved(own, own2) ==
  \A r \in Recs : own[r] \in HashHeads \/ own2[r] \in HashHeads =>
    own2[r] = own[r] /\ rec'[r] = rec[r] /\ dat'[rec[r].datoff] = dat[rec[r].datoff]

\* Then the same is stored under every key as before.
LEMMA SameLookup ==
  ASSUME LockInv, LockInv', NEW own, NEW rk, NEW own2, NEW rk2,
         Shape(own, rk), Shape(own2, rk2)', NEW k \in Keys,
         \A r \in Recs : own[r] = HASH_OFF + Hash[k] \/ own2[r] = HASH_OFF + Hash[k] =>
           \/ own2[r] = own[r] /\ rec'[r] = rec[r] /\ dat'[rec[r].datoff] = dat[rec[r].datoff]
           \/ rec[r].key # k /\ rec'[r].key # k
  PROVE  Lookup(k)' = Lookup(k)
<1>1. LooksUp /\ LooksUp'
  BY LookupsTrue, PTL
<1>2. CASE \E r : Holds(own, k, r)
  <2> PICK r : Holds(own, k, r)
    BY <1>2
  <2>1. r \in Recs /\ own2[r] = own[r] /\ rec'[r] = rec[r] /\ dat'[rec[r].datoff] = dat[rec[r].datoff]
    BY DEF Holds
  <2>2. Holds(own2, k, r)'
    BY <2>1 DEF Holds
  <2>3. Lookup(k) = dat[rec[r].datoff].val
    BY <1>1 DEF LooksUp
  <2>4. Lookup(k)' = dat'[rec'[r].datoff].val
    BY <1>1, <2>2 DEF LooksUp
  <2> QED BY <2>1, <2>3, <2>4
<1>3. CASE \A r : ~Holds(own, k, r)
  <2>1. \A r : ~Holds(own2, k, r)'
    BY <1>3 DEF Holds
  <2>2. Lookup(k) = NoVal
    BY <1>1, <1>3 DEF LooksUp
  <2>3. Lookup(k)' = NoVal
    BY <1>1, <2>1 DEF LooksUp
  <2> QED BY <2>2, <2>3
<1> QED BY <1>2, <1>3

SameStore == \A k \in Keys : Lookup(k)' = Lookup(k)

LEMMA UnmovedStore ==
  ASSUME LockInv, LockInv', NEW own, NEW rk, NEW own2, NEW rk2,
         Shape(own, rk), Shape(own2, rk2)', Unmoved(own, own2)
  PROVE  SameStore
<1>1. \A k \in Keys : HASH_OFF + Hash[k] \in HashHeads
  BY DbAssumption, Owned DEF Hashes
<1>2. ASSUME NEW k \in Keys PROVE Lookup(k)' = Lookup(k)
  <2>1. \A r \in Recs : own[r] = HASH_OFF + Hash[k] \/ own2[r] = HASH_OFF + Hash[k] =>
          own2[r] = own[r] /\ rec'[r] = rec[r] /\ dat'[rec[r].datoff] = dat[rec[r].datoff]
    BY <1>1 DEF Unmoved
  <2> QED BY <2>1, SameLookup
<1> QED BY <1>2 DEF SameStore

-----------------------------------------------------------------------------
(* The map that the files stand for.                                       *)

\* A process that is replacing a record is alone on the chain of its key.
LEMMA ReplaceAlone ==
  ASSUME LockInv, NEW p \in Procs, pc[p] \in InChain, NEW q \in Procs \ {p}, MidReplace(q)
  PROVE  call[q].key # call[p].key
<1>1. Writing(q)
  BY DEF MidReplace, Writing, InChain
<1>2. chainoff(q) # chainoff(p)
  BY <1>1, ChainsApart DEF ChainExclusion
<1> QED BY <1>2 DEF chainoff

\* While a record is being replaced the map has the new data, else what is stored.
MemIs ==
  /\ \A p \in Procs : MidReplace(p) => memBar[call[p].key] = call[p].val
  /\ \A k \in Keys : (\A p \in Procs : MidReplace(p) => call[p].key # k) => memBar[k] = Lookup(k)

LEMMA MemTrue == LockInv => MemIs
<1> SUFFICES ASSUME LockInv PROVE MemIs
  OBVIOUS
<1>1. ASSUME NEW p \in Procs, MidReplace(p) PROVE memBar[call[p].key] = call[p].val
  <2> DEFINE k == call[p].key
             P == {q \in Procs : MidReplace(q) /\ call[q].key = k}
  <2>1. pc[p] \in InChain
    BY <1>1 DEF MidReplace, InChain
  <2>2. k \in Keys
    BY <2>1 DEF LockInv, TypeOK, CallFits
  <2>3. \A q \in P : q = p
    BY <2>1, ReplaceAlone
  <2>4. p \in P
    BY <1>1
  <2>5. P # {} /\ (CHOOSE q \in P : TRUE) = p
    BY <2>3, <2>4
  <2>6. memBar[k] = IF P # {} THEN call[CHOOSE q \in P : TRUE].val ELSE Lookup(k)
    BY <2>2 DEF memBar
  <2> QED BY <2>5, <2>6
<1>2. ASSUME NEW k \in Keys, \A p \in Procs : MidReplace(p) => call[p].key # k
      PROVE  memBar[k] = Lookup(k)
  BY <1>2 DEF memBar
<1> QED BY <1>1, <1>2 DEF MemIs

\* A step of p changes the map at no key but its own.
LEMMA MemElsewhere ==
  ASSUME LockInv, LockInv', NEW p \in Procs, \A q \in Procs \ {p} : Still(q),
         NEW k \in Keys, Lookup(k)' = Lookup(k),
         MidReplace(p) => call[p].key # k, MidReplace(p)' => call'[p].key # k
  PROVE  memBar'[k] = memBar[k]
<1>1. MemIs /\ MemIs'
  BY MemTrue, PTL
<1>2. \A q \in Procs \ {p} : MidReplace(q)' <=> MidReplace(q)
  BY DEF MidReplace, Still
<1>3. CASE \E q \in Procs : MidReplace(q) /\ call[q].key = k
  <2> PICK q \in Procs : MidReplace(q) /\ call[q].key = k
    BY <1>3
  <2>1. q # p /\ MidReplace(q)' /\ call'[q] = call[q]
    BY <1>2 DEF Still
  <2>2. memBar[k] = call[q].val
    BY <1>1 DEF MemIs
  <2>3. memBar'[k] = call'[q].val
    BY <1>1, <2>1 DEF MemIs
  <2> QED BY <2>1, <2>2, <2>3
<1>4. CASE \A q \in Procs : MidReplace(q) => call[q].key # k
  <2>1. \A q \in Procs : MidReplace(q)' => call'[q].key # k
    BY <1>2, <1>4 DEF Still
  <2>2. memBar[k] = Lookup(k)
    BY <1>1, <1>4 DEF MemIs
  <2>3. memBar'[k] = Lookup(k)'
    BY <1>1, <2>1 DEF MemIs
  <2> QED BY <2>2, <2>3
<1> QED BY <1>3, <1>4

\* Nor there, if it changes nothing stored and replaces as it did before.
LEMMA MemSame ==
  ASSUME LockInv, LockInv', NEW p \in Procs, \A q \in Procs \ {p} : Still(q), SameStore,
         \/ ~MidReplace(p) /\ ~MidReplace(p)'
         \/ MidReplace(p) /\ MidReplace(p)' /\ call'[p] = call[p]
  PROVE  memBar' = memBar
<1>1. MemIs /\ MemIs'
  BY MemTrue, PTL
<1>2. ASSUME NEW k \in Keys PROVE memBar'[k] = memBar[k]
  <2>1. CASE MidReplace(p) /\ MidReplace(p)' /\ call'[p] = call[p] /\ call[p].key = k
    BY <1>1, <2>1 DEF MemIs
  <2>2. Lookup(k)' = Lookup(k)
    BY DEF SameStore
  <2>3. CASE ~MidReplace(p) /\ ~MidReplace(p)'
    BY <2>2, <2>3, MemElsewhere
  <2>4. CASE MidReplace(p) /\ MidReplace(p)' /\ call'[p] = call[p] /\ call[p].key # k
    BY <2>2, <2>4, MemElsewhere
  <2> QED BY <2>1, <2>3, <2>4
<1>3. memBar = [k \in Keys |-> memBar[k]] /\ memBar' = [k \in Keys |-> memBar'[k]]
  BY DEF memBar
<1> QED BY <1>2, <1>3

\* The data under the key of the call p is in.
LEMMA MemOwn ==
  ASSUME LockInv, NEW p \in Procs, pc[p] \in InChain
  PROVE  /\ call[p].key \in Keys
         /\ memBar[call[p].key] = IF MidReplace(p) THEN call[p].val ELSE Lookup(call[p].key)
<1>1. MemIs
  BY MemTrue
<1>2. call[p].key \in Keys
  BY DEF LockInv, TypeOK, CallFits
<1>3. CASE MidReplace(p)
  BY <1>1, <1>2, <1>3 DEF MemIs
<1>4. CASE ~MidReplace(p)
  <2>1. \A q \in Procs : MidReplace(q) => call[q].key # call[p].key
    BY <1>4, ReplaceAlone
  <2> QED BY <1>1, <1>2, <1>4, <2>1 DEF MemIs
<1> QED BY <1>2, <1>3, <1>4

\* The same as a statement about a state.
MemAt ==
  \A p \in Procs, k \in Keys :
    pc[p] \in InChain /\ call[p].key = k
      => memBar[k] = IF MidReplace(p) THEN call[p].val ELSE Lookup(k)

LEMMA MemAtTrue == LockInv => MemAt
BY MemOwn DEF MemAt

-----------------------------------------------------------------------------
(* The states of the calls.                                                *)

\* A step of p changes them for p alone.
LEMMA BarsElsewhere ==
  ASSUME NEW p \in Procs, \A q \in Procs \ {p} : Still(q) /\ ret'[q] = ret[q]
  PROVE  /\ stBar' = [stBar EXCEPT ![p] = stBar'[p]]
         /\ opBar' = [opBar EXCEPT ![p] = opBar'[p]]
         /\ retBar' = [retBar EXCEPT ![p] = retBar'[p]]
<1>1. \A q \in Procs \ {p} : stBar'[q] = stBar[q] /\ opBar'[q] = opBar[q] /\ retBar'[q] = retBar[q]
  BY DEF stBar, opBar, retBar, InCall, TookEffect, MidReplace, Still
<1>2. /\ DOMAIN stBar = Procs /\ DOMAIN stBar' = Procs /\ stBar = [q \in Procs |-> stBar[q]]
      /\ DOMAIN opBar = Procs /\ DOMAIN opBar' = Procs /\ opBar = [q \in Procs |-> opBar[q]]
      /\ DOMAIN retBar = Procs /\ DOMAIN retBar' = Procs /\ retBar = [q \in Procs |-> retBar[q]]
      /\ stBar' = [q \in Procs |-> stBar'[q]] /\ opBar' = [q \in Procs |-> opBar'[q]]
      /\ retBar' = [q \in Procs |-> retBar'[q]]
  BY DEF stBar, opBar, retBar
<1> QED BY <1>1, <1>2

-----------------------------------------------------------------------------
(* The steps that change what is stored under no key.                      *)

\* A step that writes no record and no data, and moves no record.
LEMMA IdleStore ==
  ASSUME LockInv, LockInv', NEW own, NEW rk, Shape(own, rk), Shape(own, rk)',
         rec' = rec, dat' = dat
  PROVE  SameStore
<1>1. Unmoved(own, own)
  BY DEF Unmoved
<1> QED BY <1>1, UnmovedStore

\* The steps of a deletion after the data is blanked.
LEMMA DeleteStore ==
  ASSUME LockInv, LockInv', NEW own, NEW rk, Shape(own, rk), NEW p \in Procs,
         DelReadFree(p) \/ DelIdx(p) \/ DelFree(p) \/ DelChain(p)
  PROVE  SameStore
<1>0. PICK o : o = h[p].idxoff
  OBVIOUS
<1>1. FREE_OFF \notin HashHeads /\ Off \notin HashHeads
  BY CellKinds
<1>2. CASE DelReadFree(p)
  <2>1. Shape(own, rk)' /\ rec' = rec /\ dat' = dat
    BY <1>2, DelReadFreeStep DEF DelReadFree, idxfile, datfile
  <2> QED BY <2>1, IdleStore
<1>3. CASE DelChain(p)
  <2>1. Shape(own, rk)' /\ rec' = rec /\ dat' = dat
    BY <1>3, DelChainStep DEF DelChain, datfile
  <2> QED BY <2>1, IdleStore
<1>4. CASE DelIdx(p)
  <2>1. /\ Shape(own, rk)' /\ dat' = dat /\ rec' = [rec EXCEPT ![o].key = NoKey]
        /\ pc[p] = "del_idx"
    BY <1>0, <1>4, DelIdxStep DEF DelIdx, datfile, Goto
  <2>2. own[o] = Off
    BY <1>0, <2>1, DelFacts DEF DelWindow
  <2>3. \A r \in Recs : r # o => rec'[r] = rec[r]
    BY <2>1 DEF LockInv, TypeOK
  <2>4. Unmoved(own, own)
    BY <1>1, <2>1, <2>2, <2>3 DEF Unmoved
  <2> QED BY <2>1, <2>4, UnmovedStore
<1>5. CASE DelFree(p)
  <2>1. rec' = rec /\ dat' = dat /\ pc[p] = "del_free"
    BY <1>5 DEF DelFree, datfile, Goto
  <2>2. own[o] = Off
    BY <1>0, <2>1, DelFacts DEF DelWindow
  <2>3. PICK own2, rk2 : Shape(own2, rk2)' /\ Moved(own, own2, o, FREE_OFF)
    BY <1>0, <1>5, DelFreeStep
  <2>4. Unmoved(own, own2)
    BY <1>1, <2>1, <2>2, <2>3 DEF Unmoved, Moved
  <2> QED BY <2>3, <2>4, UnmovedStore
<1> QED BY <1>2, <1>3, <1>4, <1>5

\* The steps of a store between the search and the last write.
LEMMA StoreStore ==
  ASSUME LockInv, LockInv', NEW own, NEW rk, Shape(own, rk), NEW p \in Procs,
         \/ ReadHead(p) \/ FindFree(p) \/ FreePast(p) \/ FreeFound(p) \/ FreeMissing(p)
         \/ FreeTake(p) \/ ReuseDat(p) \/ ReuseIdx(p)
         \/ AppendDatSeek(p) \/ AppendDat(p) \/ AppendIdxSeek(p) \/ AppendIdx(p)
  PROVE  SameStore
<1>0. PICK o, d : o = h[p].idxoff /\ d = h[p].datoff
  OBVIOUS
<1>1. /\ FREE_OFF \notin HashHeads /\ Off \notin HashHeads
      /\ rec \in [Recs -> RecType] /\ dat \in [Slots -> DatType]
      /\ Listed(own) /\ DataOwned
      /\ Refilling(own, p) /\ Growing(p)
  BY CellKinds DEF LockInv, TypeOK, Shape, AtWork
<1>2. ASSUME \/ ReadHead(p) \/ FindFree(p) \/ FreePast(p) \/ FreeFound(p) \/ FreeMissing(p)
             \/ AppendDatSeek(p) \/ AppendIdxSeek(p)
      PROVE  rec' = rec /\ dat' = dat
  BY <1>2 DEF ReadHead, FindFree, FreePast, FreeFound, FreeMissing, AppendDatSeek, AppendIdxSeek,
     idxfile, datfile
<1>3. CASE ReadHead(p)
  BY <1>2, <1>3, ReadHeadStep, IdleStore
<1>4. CASE FindFree(p)
  BY <1>2, <1>4, FindFreeStep, IdleStore
<1>5. CASE FreePast(p) \/ FreeFound(p)
  BY <1>2, <1>5, FreeRecStep, IdleStore
<1>6. CASE FreeMissing(p) \/ AppendDatSeek(p)
  BY <1>2, <1>6, AppendDatSteps, IdleStore
<1>7. CASE AppendIdxSeek(p)
  BY <1>2, <1>7, AppendIdxSeekStep, IdleStore
<1>8. CASE FreeTake(p)
  <2>1. rec' = rec /\ dat' = dat
    BY <1>8 DEF FreeTake, datfile
  <2>2. own[o] = FREE_OFF
    BY <1>0, <1>8, FreeTakeStep
  <2>3. PICK own2 : Shape(own2, rk)' /\ Moved(own, own2, o, Off)
    BY <1>0, <1>8, FreeTakeStep
  <2>4. Unmoved(own, own2)
    BY <1>1, <2>1, <2>2, <2>3 DEF Unmoved, Moved
  <2> QED BY <2>3, <2>4, UnmovedStore
<1>9. CASE ReuseDat(p)
  <2>1. Shape(own, rk)' /\ rec' = rec /\ pc[p] = "reuse_dat" /\ \A e \in Slots : e # d => dat'[e] = dat[e]
    BY <1>0, <1>1, <1>9, ReuseDatStep DEF ReuseDat, idxfile, Goto
  <2>2. o \in Recs /\ o < idxend /\ own[o] = Off /\ d = rec[o].datoff
    BY <1>0, <1>1, <2>1 DEF Refilling, Reusing
  <2>3. ASSUME NEW r \in Recs, own[r] \in HashHeads PROVE rec[r].datoff # d
    <3>1. r # o /\ r < idxend
      BY <1>1, <2>2, <2>3 DEF Listed
    <3> QED BY <1>1, <2>2, <3>1 DEF DataOwned
  <2>4. Unmoved(own, own)
    BY <1>1, <2>1, <2>3 DEF Unmoved, RecType
  <2> QED BY <2>1, <2>4, UnmovedStore
<1>10. CASE ReuseIdx(p)
  <2>1. Shape(own, rk)' /\ dat' = dat /\ pc[p] = "reuse_idx" /\ \A r \in Recs : r # o => rec'[r] = rec[r]
    BY <1>0, <1>1, <1>10, ReuseIdxStep DEF ReuseIdx, datfile, Goto
  <2>2. own[o] = Off
    BY <1>0, <1>1, <2>1 DEF Refilling, Reusing
  <2>3. Unmoved(own, own)
    BY <1>1, <2>1, <2>2 DEF Unmoved
  <2> QED BY <2>1, <2>3, UnmovedStore
<1>11. CASE AppendDat(p)
  <2>1. Shape(own, rk)' /\ rec' = rec /\ pc[p] = "app_dat" /\ \A e \in Slots : e # d => dat'[e] = dat[e]
    BY <1>0, <1>1, <1>11, AppendDatStep DEF AppendDat, idxfile, Goto
  <2>2. d = datend /\ datend \in Nat
    BY <1>0, <1>1, <2>1, HandleFields DEF Growing, LockInv
  <2>3. ASSUME NEW r \in Recs, own[r] \in HashHeads PROVE rec[r].datoff # d
    <3>1. r < idxend
      BY <1>1, <2>3 DEF Listed
    <3>2. rec[r].datoff < datend /\ rec[r].datoff \in Nat
      BY <1>1, <3>1, HandleFields DEF DataOwned, LockInv
    <3> QED BY <2>2, <3>2
  <2>4. Unmoved(own, own)
    BY <1>1, <2>1, <2>3 DEF Unmoved, RecType
  <2> QED BY <2>1, <2>4, UnmovedStore
<1>12. CASE AppendIdx(p)
  <2>1. Shape(own, rk)' /\ dat' = dat /\ pc[p] = "app_idx" /\ \A r \in Recs : r # o => rec'[r] = rec[r]
    BY <1>0, <1>1, <1>12, AppendIdxStep DEF AppendIdx, datfile, Goto
  <2>2. o = idxend /\ idxend \in Nat
    BY <1>0, <1>1, <2>1, HandleFields DEF Growing, LockInv
  <2>3. ASSUME NEW r \in Recs, own[r] \in HashHeads PROVE r # o
    <3>1. r < idxend
      BY <1>1, <2>3 DEF Listed
    <3> QED BY <2>2, <3>1
  <2>4. Unmoved(own, own)
    BY <1>1, <2>1, <2>3 DEF Unmoved, RecType
  <2> QED BY <2>1, <2>4, UnmovedStore
<1> QED BY <1>3, <1>4, <1>5, <1>6, <1>7, <1>8, <1>9, <1>10, <1>11, <1>12

\* Every other step but those of DelDat, OverDat and Commit.
LEMMA OtherStore ==
  ASSUME LockInv, LockInv', NEW own, NEW rk, Shape(own, rk), NEW p \in Procs,
         \/ Start(p) \/ Fetch(p) \/ (NextRec(p) /\ ~NextAstray(p))
         \/ (Exit(p) /\ pc[p] \notin DelWindow)
  PROVE  SameStore
<1>1. rec' = rec /\ dat' = dat
  BY DEF Start, Begin, StoreInvalid, db_rewind, Fetch, FindAndLock, WalkPast, WalkFound,
     WalkMissing, FetchDat, DoReturn, NextRec, NextLock, NextPast, NextFound, NextEof, NextDat,
     Exit, idxfile, datfile
<1>2. Shape(own, rk)'
  <2>1. CASE Start(p)
    BY <2>1, RestStep
  <2>2. CASE Fetch(p)
    BY <2>2, RestStep, FindStep, WalkPastStep, WalkFoundStep, WalkMissingStep DEF Fetch
  <2>3. CASE NextRec(p) /\ ~NextAstray(p)
    BY <2>3, RestStep, NextFoundStep DEF NextRec
  <2>4. CASE Exit(p) /\ pc[p] \notin DelWindow
    BY <2>4, ExitStep
  <2> QED BY <2>1, <2>2, <2>3, <2>4
<1> QED BY <1>1, <1>2, IdleStore

-----------------------------------------------------------------------------
(* The steps that a caller cannot see.                                     *)

\* A step that leaves p in its call, or out of one, on the same side of the moment
\* of effect, and what is stored alone.
LEMMA Silent ==
  ASSUME LockInv, LockInv', NEW p \in Procs, SameStore,
         \A q \in Procs \ {p} : Still(q) /\ ret'[q] = ret[q],
         pc[p] # "dead" /\ pc'[p] # "dead",
         InCall(p)' <=> InCall(p), MidReplace(p)' <=> MidReplace(p),
         InCall(p) => call'[p] = call[p] /\ (TookEffect(p)' <=> TookEffect(p)),
         InCall(p) /\ TookEffect(p) => retBar'[p] = retBar[p]
  PROVE  UNCHANGED KV!kvars
<1>1. MidReplace(p) => InCall(p)
  BY DEF MidReplace, InCall, InChain
<1>2. memBar' = memBar
  BY <1>1, MemSame
<1>3. stBar'[p] = stBar[p] /\ opBar'[p] = opBar[p]
  BY DEF stBar, opBar
<1>4. retBar'[p] = retBar[p]
  <2>1. CASE InCall(p) /\ TookEffect(p)
    BY <2>1
  <2>2. CASE ~(InCall(p) /\ TookEffect(p))
    BY <2>2 DEF retBar
  <2> QED BY <2>1, <2>2
<1>5. /\ [stBar EXCEPT ![p] = stBar[p]] = stBar /\ [opBar EXCEPT ![p] = opBar[p]] = opBar
      /\ [retBar EXCEPT ![p] = retBar[p]] = retBar
  BY DEF stBar, opBar, retBar
<1>6. stBar' = stBar /\ opBar' = opBar /\ retBar' = retBar
  BY <1>3, <1>4, <1>5, BarsElsewhere
<1> QED BY <1>2, <1>6 DEF KV!kvars

\* What the control point of p says of its call: outside of one, in one before its
\* moment of effect, past that moment, between search and end of a store.
Side(p) ==
  /\ pc[p] \in {"idle", "next_lock", "next_idx", "next_dat"} => ~InCall(p) /\ ~MidReplace(p)
  /\ pc[p] \in {"find", "walk", "fetch_dat", "del_dat", "over_dat"}
       => InCall(p) /\ ~MidReplace(p) /\ ~TookEffect(p) /\ ~h[p].repl
  /\ pc[p] \in DelWindow => /\ InCall(p) /\ TookEffect(p)
                            /\ MidReplace(p) <=> call[p].kind = "store"
                            /\ retBar[p] = Result("ok", NoKey, NoVal)
  /\ pc[p] \in Storing => /\ InCall(p) /\ call[p].kind = "store"
                          /\ TookEffect(p) <=> h[p].repl
                          /\ MidReplace(p) <=> h[p].repl
                          /\ h[p].repl => retBar[p] = Result("ok", NoKey, NoVal)
  /\ pc[p] = "doreturn" => InCall(p) /\ ~MidReplace(p) /\ TookEffect(p) /\ retBar[p] = ret[p]

Sides == \A p \in Procs : Side(p)

LEMMA SidesTrue == LockInv /\ FlagInv => Sides
<1> SUFFICES ASSUME LockInv, FlagInv, NEW p \in Procs PROVE Side(p)
  BY DEF Sides
<1> USE DEF InChain, DelWindow, FreeWindow, Reusing, Appending, Storing
<1>1. FlagFits(p) /\ CallFits(p)
  BY DEF FlagInv, LockInv, TypeOK
<1>2. pc[p] \in {"idle", "next_lock", "next_idx", "next_dat"} => ~InCall(p) /\ ~MidReplace(p)
  BY DEF InCall, MidReplace
<1>3. ASSUME pc[p] \in {"find", "walk", "fetch_dat", "del_dat", "over_dat"}
      PROVE  InCall(p) /\ ~MidReplace(p) /\ ~TookEffect(p) /\ ~h[p].repl
  BY <1>1, <1>3 DEF InCall, MidReplace, TookEffect, FlagFits
<1>4. ASSUME pc[p] \in DelWindow
      PROVE  /\ InCall(p) /\ TookEffect(p)
             /\ MidReplace(p) <=> call[p].kind = "store"
             /\ retBar[p] = Result("ok", NoKey, NoVal)
  BY <1>4 DEF InCall, MidReplace, TookEffect, retBar
<1>5. ASSUME pc[p] \in Storing
      PROVE  /\ InCall(p) /\ call[p].kind = "store"
             /\ TookEffect(p) <=> h[p].repl
             /\ MidReplace(p) <=> h[p].repl
             /\ h[p].repl => retBar[p] = Result("ok", NoKey, NoVal)
  <2>1. InCall(p) /\ call[p].kind = "store" /\ pc[p] # "doreturn"
    BY <1>1, <1>5 DEF InCall, CallFits
  <2>2. MidReplace(p) <=> h[p].repl
    BY <1>1, <1>5, <2>1 DEF MidReplace, FlagFits
  <2>3. TookEffect(p) <=> h[p].repl
    BY <1>5, <2>2 DEF TookEffect
  <2> QED BY <2>1, <2>2, <2>3 DEF retBar
<1>6. ASSUME pc[p] = "doreturn"
      PROVE  InCall(p) /\ ~MidReplace(p) /\ TookEffect(p) /\ retBar[p] = ret[p]
  BY <1>6 DEF InCall, MidReplace, TookEffect, retBar
<1> QED BY <1>2, <1>3, <1>4, <1>5, <1>6 DEF Side

\* A step of p leaves the other processes in their places, with their results.
LEMMA OthersStill ==
  ASSUME TypeOK, NEW p \in Procs, Start(p) \/ Step(p) \/ Crash(p)
  PROVE  \A q \in Procs \ {p} : Still(q) /\ ret'[q] = ret[q]
<1>1. /\ pc \in [Procs -> PCs] /\ call \in [Procs -> AllCalls] /\ h \in [Procs -> Handle]
      /\ ret \in [Procs -> Results]
  BY DEF TypeOK
<1>2. ASSUME Exit(p) PROVE \A q \in Procs \ {p} : Still(q) /\ ret'[q] = ret[q]
  BY <1>1, <1>2 DEF Exit, Still
<1>3. CASE Start(p)
  BY <1>1, <1>3 DEF Start, Begin, StoreInvalid, db_rewind, Still
<1>4. CASE Fetch(p)
  BY <1>1, <1>4 DEF Fetch, FindAndLock, WalkPast, WalkFound, WalkMissing, FetchDat, DoReturn,
     Goto, Settle, Still
<1>5. CASE Delete(p)
  BY <1>1, <1>5 DEF Delete, DelDat, DelReadFree, DelIdx, DelFree, DelChain, Goto, Settle, Still
<1>6. CASE Store(p)
  <2>1. CASE AppendNoSpace(p) \/ CommitTooFar(p)
    BY <1>2, <2>1 DEF AppendNoSpace, CommitTooFar
  <2>2. CASE OverDat(p) \/ ReadHead(p) \/ FindFree(p) \/ FreePast(p) \/ FreeFound(p) \/ FreeMissing(p)
    BY <1>1, <2>2 DEF OverDat, ReadHead, FindFree, FreePast, FreeFound, FreeMissing, Goto,
       Settle, Still
  <2>3. CASE \/ FreeTake(p) \/ ReuseDat(p) \/ ReuseIdx(p) \/ AppendDatSeek(p) \/ AppendDat(p)
             \/ AppendIdxSeek(p) \/ AppendIdx(p) \/ Commit(p)
    BY <1>1, <2>3 DEF FreeTake, ReuseDat, ReuseIdx, AppendDatSeek, AppendDat, AppendIdxSeek,
       AppendIdx, Commit, Goto, Settle, Still
  <2> QED BY <1>6, <2>1, <2>2, <2>3 DEF Store
<1>7. CASE NextRec(p)
  <2>1. CASE NextAstray(p)
    BY <1>2, <2>1 DEF NextAstray
  <2>2. CASE NextLock(p) \/ NextPast(p) \/ NextFound(p) \/ NextEof(p) \/ NextDat(p)
    BY <1>1, <2>2 DEF NextLock, NextPast, NextFound, NextEof, NextDat, Goto, Still
  <2> QED BY <1>7, <2>1, <2>2 DEF NextRec
<1>8. CASE Crash(p)
  BY <1>2, <1>8 DEF Crash
<1> QED BY <1>3, <1>4, <1>5, <1>6, <1>7, <1>8 DEF Step

\* Calls that KVStore does not know.
LEMMA ScanSilent ==
  ASSUME LockInv, LockInv', FlagInv, FlagInv', ListInv, NEW p \in Procs,
         \/ \E c \in Calls[p] : \/ StoreInvalid(p, c) \/ db_rewind(p, c)
                                \/ Begin(p, c) /\ c.kind = "nextrec"
         \/ NextRec(p) /\ ~NextAstray(p)
  PROVE  UNCHANGED KV!kvars
<1>1. Sides /\ Sides'
  BY SidesTrue, PTL
<1>2. SameStore
  BY OtherStore DEF ListInv, Start
<1>3. \A q \in Procs \ {p} : Still(q) /\ ret'[q] = ret[q]
  BY OthersStill DEF LockInv, Start, Step
<1>4. /\ pc[p] \in {"idle", "next_lock", "next_idx", "next_dat"}
      /\ pc'[p] \in {"idle", "next_lock", "next_idx", "next_dat"}
  <2>1. pc \in [Procs -> PCs]
    BY DEF LockInv, TypeOK
  <2>2. CASE \E c \in Calls[p] : StoreInvalid(p, c) \/ db_rewind(p, c)
    BY <2>2 DEF StoreInvalid, db_rewind
  <2>3. CASE \E c \in Calls[p] : Begin(p, c) /\ c.kind = "nextrec"
    BY <2>1, <2>3 DEF Begin
  <2>4. CASE NextRec(p) /\ ~NextAstray(p)
    BY <2>1, <2>4 DEF NextRec, NextLock, NextPast, NextFound, NextEof, NextDat, Goto
  <2> QED BY <2>2, <2>3, <2>4
<1>5. ~InCall(p) /\ ~MidReplace(p) /\ ~InCall(p)' /\ ~MidReplace(p)'
  BY <1>1, <1>4 DEF Sides, Side
<1> QED BY <1>2, <1>3, <1>4, <1>5, Silent

\* The search.
LEMMA FindSilent ==
  ASSUME LockInv, LockInv', FlagInv, FlagInv', ListInv, NEW p \in Procs,
         \/ FindAndLock(p) \/ WalkPast(p)
         \/ (WalkFound(p) \/ WalkMissing(p)) /\ pc'[p] # "doreturn"
  PROVE  UNCHANGED KV!kvars
<1>1. Sides /\ Sides' /\ pc \in [Procs -> PCs]
  <2>1. Sides /\ Sides'
    BY SidesTrue, PTL
  <2> QED BY <2>1 DEF LockInv, TypeOK
<1>2. SameStore
  BY OtherStore DEF ListInv, Fetch
<1>3. \A q \in Procs \ {p} : Still(q) /\ ret'[q] = ret[q]
  BY OthersStill DEF LockInv, Fetch, Step
<1>4. /\ pc[p] \in {"find", "walk"} /\ call' = call
      /\ \/ pc'[p] \in {"walk", "fetch_dat", "del_dat", "over_dat"}
         \/ pc'[p] = "head" /\ h' = h
  <2>1. CASE FindAndLock(p) \/ WalkPast(p)
    BY <1>1, <2>1 DEF FindAndLock, WalkPast, Goto
  <2>2. CASE WalkFound(p) /\ pc'[p] # "doreturn"
    BY <1>1, <2>2 DEF WalkFound, Goto, Settle
  <2>3. CASE WalkMissing(p) /\ pc'[p] # "doreturn"
    BY <1>1, <2>3 DEF WalkMissing, Goto, Settle
  <2> QED BY <2>1, <2>2, <2>3
<1>5. InCall(p) /\ ~MidReplace(p) /\ ~TookEffect(p) /\ ~h[p].repl
  BY <1>1, <1>4 DEF Sides, Side
<1>6. InCall(p)' /\ ~MidReplace(p)' /\ ~TookEffect(p)'
  BY <1>1, <1>4, <1>5 DEF Sides, Side, Storing
<1> QED BY <1>2, <1>3, <1>4, <1>5, <1>6, Silent

\* A deletion once the data is blanked.
LEMMA DeleteSilent ==
  ASSUME LockInv, LockInv', FlagInv, FlagInv', ListInv, NEW p \in Procs,
         DelReadFree(p) \/ DelIdx(p) \/ DelFree(p) \/ DelChain(p)
  PROVE  UNCHANGED KV!kvars
<1>1. /\ Sides /\ Sides' /\ pc \in [Procs -> PCs] /\ ret \in [Procs -> Results]
      /\ h \in [Procs -> Handle]
  <2>1. Sides /\ Sides'
    BY SidesTrue, PTL
  <2> QED BY <2>1 DEF LockInv, TypeOK
<1>2. SameStore
  BY DeleteStore DEF ListInv
<1>3. \A q \in Procs \ {p} : Still(q) /\ ret'[q] = ret[q]
  BY OthersStill DEF LockInv, Delete, Step
<1>4. /\ pc[p] \in DelWindow /\ call' = call
      /\ \/ pc'[p] \in DelWindow
         \/ /\ pc'[p] = "doreturn" /\ call[p].kind = "delete"
            /\ ret'[p] = Result("ok", NoKey, NoVal)
         \/ pc'[p] = "head" /\ call[p].kind = "store" /\ h'[p].repl
  <2>1. CASE DelReadFree(p) \/ DelIdx(p) \/ DelFree(p)
    BY <1>1, <2>1 DEF DelReadFree, DelIdx, DelFree, Goto, DelWindow
  <2>2. CASE DelChain(p)
    BY <1>1, <2>2 DEF DelChain, Goto, Settle, DelWindow, Handle
  <2> QED BY <2>1, <2>2
<1>5. /\ InCall(p) /\ TookEffect(p) /\ (MidReplace(p) <=> call[p].kind = "store")
      /\ retBar[p] = Result("ok", NoKey, NoVal)
  BY <1>1, <1>4 DEF Sides, Side
<1>6. /\ InCall(p)' /\ TookEffect(p)' /\ (MidReplace(p)' <=> call[p].kind = "store")
      /\ retBar'[p] = Result("ok", NoKey, NoVal)
  BY <1>1, <1>4 DEF Sides, Side, Storing
<1>7. pc[p] # "dead" /\ pc'[p] # "dead"
  BY <1>4 DEF DelWindow
<1> QED BY <1>2, <1>3, <1>4, <1>5, <1>6, <1>7, Silent

\* A store between the search and the last write.
LEMMA StoreSilent ==
  ASSUME LockInv, LockInv', FlagInv, FlagInv', ListInv, NEW p \in Procs,
         \/ ReadHead(p) \/ FindFree(p) \/ FreePast(p) \/ FreeFound(p) \/ FreeMissing(p)
         \/ FreeTake(p) \/ ReuseDat(p) \/ ReuseIdx(p)
         \/ AppendDatSeek(p) \/ AppendDat(p) \/ AppendIdxSeek(p) \/ AppendIdx(p)
  PROVE  UNCHANGED KV!kvars
<1>1. /\ Sides /\ Sides' /\ pc \in [Procs -> PCs] /\ h \in [Procs -> Handle]
  <2>1. Sides /\ Sides'
    BY SidesTrue, PTL
  <2> QED BY <2>1 DEF LockInv, TypeOK
<1>2. SameStore
  BY StoreStore DEF ListInv
<1>3. \A q \in Procs \ {p} : Still(q) /\ ret'[q] = ret[q]
  BY OthersStill DEF LockInv, Store, Step
<1>4. /\ pc[p] \in Storing /\ pc'[p] \in Storing /\ call' = call
      /\ h'[p].repl = h[p].repl
  <2> USE DEF Storing, FreeWindow, Reusing, Appending
  <2>1. CASE ReadHead(p) \/ FindFree(p) \/ FreeMissing(p)
    <3>1. h'[p].repl = h[p].repl
      BY <1>1, <2>1, ReplKept
    <3> QED BY <1>1, <2>1, <3>1 DEF ReadHead, FindFree, FreeMissing, Goto
  <2>2. CASE FreePast(p) \/ FreeFound(p)
    <3>1. h'[p].repl = h[p].repl
      BY <1>1, <2>2, ReplKept
    <3> QED BY <1>1, <2>2, <3>1 DEF FreePast, FreeFound, Goto
  <2>3. CASE FreeTake(p) \/ ReuseDat(p) \/ ReuseIdx(p)
    BY <1>1, <2>3 DEF FreeTake, ReuseDat, ReuseIdx, Goto
  <2>4. CASE AppendDatSeek(p) \/ AppendDat(p) \/ AppendIdxSeek(p) \/ AppendIdx(p)
    BY <1>1, <2>4 DEF AppendDatSeek, AppendDat, AppendIdxSeek, AppendIdx, Goto, Handle
  <2> QED BY <2>1, <2>2, <2>3, <2>4
<1>5. /\ InCall(p) /\ (TookEffect(p) <=> h[p].repl)
      /\ MidReplace(p) <=> h[p].repl
      /\ h[p].repl => retBar[p] = Result("ok", NoKey, NoVal)
  BY <1>1, <1>4 DEF Sides, Side
<1>6. /\ InCall(p)' /\ (TookEffect(p)' <=> h[p].repl)
      /\ MidReplace(p)' <=> h[p].repl
      /\ h[p].repl => retBar'[p] = Result("ok", NoKey, NoVal)
  BY <1>1, <1>4 DEF Sides, Side
<1>7. pc[p] # "dead" /\ pc'[p] # "dead"
  BY <1>4 DEF Storing, FreeWindow, Reusing, Appending
<1> QED BY <1>2, <1>3, <1>4, <1>5, <1>6, <1>7, Silent

-----------------------------------------------------------------------------
(* The steps that a caller can see: the begin of a call, its moment of     *)
(* effect, its return, and the end of the process.                         *)

\* p's call takes effect with result res.
LEMMA Taken ==
  ASSUME NEW p \in Procs, \A q \in Procs \ {p} : Still(q) /\ ret'[q] = ret[q],
         pc[p] # "dead", pc'[p] # "dead", InCall(p), InCall(p)', ~TookEffect(p), TookEffect(p)',
         call'[p] = call[p], NEW res, retBar'[p] = res
  PROVE  KV!Done(p, res) /\ opBar[p] = call[p]
<1>1. stBar[p] = "pending" /\ stBar'[p] = "done" /\ opBar[p] = call[p] /\ opBar'[p] = opBar[p]
  BY DEF stBar, opBar
<1>2. opBar' = opBar
  <2>1. [opBar EXCEPT ![p] = opBar[p]] = opBar
    BY DEF opBar
  <2> QED BY <1>1, <2>1, BarsElsewhere
<1>3. /\ stBar' = [stBar EXCEPT ![p] = "done"] /\ retBar' = [retBar EXCEPT ![p] = res]
  BY <1>1, BarsElsewhere
<1> QED BY <1>1, <1>2, <1>3 DEF KV!Done

\* If a step of p changes what is stored under its key alone, this is what becomes of
\* the map.
LEMMA MemPut ==
  ASSUME LockInv, LockInv', NEW p \in Procs, \A q \in Procs \ {p} : Still(q),
         call'[p] = call[p], call[p].key \in Keys,
         \A k \in Keys \ {call[p].key} : Lookup(k)' = Lookup(k),
         NEW v, memBar'[call[p].key] = v
  PROVE  memBar' = [memBar EXCEPT ![call[p].key] = v]
<1>1. \A k \in Keys \ {call[p].key} : memBar'[k] = memBar[k]
  BY MemElsewhere
<1>2. /\ memBar' = [k \in Keys |-> memBar'[k]] /\ memBar = [k \in Keys |-> memBar[k]]
      /\ DOMAIN memBar = Keys /\ DOMAIN memBar' = Keys
  BY DEF memBar
<1> QED BY <1>1, <1>2

\* db_fetch, db_delete or db_store is called.
LEMMA InvokeStep ==
  ASSUME LockInv, LockInv', FlagInv, FlagInv', ListInv, NEW p \in Procs,
         NEW c \in Calls[p], Begin(p, c), c.kind # "nextrec"
  PROVE  c \in KVOps /\ KV!Invoke(p, c)
<1>1. Sides /\ Sides' /\ pc \in [Procs -> PCs] /\ call \in [Procs -> AllCalls]
  <2>1. Sides /\ Sides'
    BY SidesTrue, PTL
  <2> QED BY <2>1 DEF LockInv, TypeOK
<1>2. \A q \in Procs \ {p} : Still(q) /\ ret'[q] = ret[q]
  BY OthersStill DEF LockInv, Start
<1>3. pc[p] = "idle" /\ pc'[p] = "find" /\ call'[p] = c
  BY <1>1 DEF Begin
<1>4. c \in KVOps
  BY DbAssumption DEF KVOps, Begin, AllCalls
<1>5. ~InCall(p) /\ ~MidReplace(p) /\ InCall(p)' /\ ~MidReplace(p)' /\ ~TookEffect(p)'
  BY <1>1, <1>3 DEF Sides, Side
<1>6. /\ stBar[p] = "idle" /\ stBar'[p] = "pending" /\ opBar'[p] = c /\ retBar'[p] = retBar[p]
  BY <1>3, <1>5 DEF stBar, opBar, retBar
<1>7. SameStore
  BY OtherStore DEF ListInv, Start
<1>8. memBar' = memBar
  BY <1>2, <1>5, <1>7, MemSame
<1>9. retBar' = retBar
  <2>1. [retBar EXCEPT ![p] = retBar[p]] = retBar
    BY DEF retBar
  <2> QED BY <1>2, <1>6, <2>1, BarsElsewhere
<1>10. stBar' = [stBar EXCEPT ![p] = "pending"] /\ opBar' = [opBar EXCEPT ![p] = c]
  BY <1>2, <1>6, BarsElsewhere
<1> QED BY <1>4, <1>6, <1>8, <1>9, <1>10 DEF KV!Invoke

\* The lock of the chain is released, and the call returns.
LEMMA ReturnStep ==
  ASSUME LockInv, LockInv', FlagInv, FlagInv', ListInv, NEW p \in Procs, DoReturn(p)
  PROVE  KV!Return(p)
<1>1. Sides /\ Sides' /\ pc \in [Procs -> PCs]
  <2>1. Sides /\ Sides'
    BY SidesTrue, PTL
  <2> QED BY <2>1 DEF LockInv, TypeOK
<1>2. \A q \in Procs \ {p} : Still(q) /\ ret'[q] = ret[q]
  BY OthersStill DEF LockInv, Step, Fetch
<1>3. pc[p] = "doreturn" /\ pc'[p] = "idle"
  BY <1>1 DEF DoReturn, Goto
<1>4. InCall(p) /\ TookEffect(p) /\ ~MidReplace(p) /\ ~InCall(p)' /\ ~MidReplace(p)'
  BY <1>1, <1>3 DEF Sides, Side
<1>5. /\ stBar[p] = "done" /\ stBar'[p] = "idle" /\ opBar'[p] = KV!NoOp /\ retBar'[p] = KV!NoResult
  BY <1>3, <1>4 DEF stBar, opBar, retBar, KV!NoOp, KV!NoResult, KV!Result, NoResult, Result
<1>6. SameStore
  BY OtherStore DEF ListInv, Fetch
<1>7. memBar' = memBar
  BY <1>2, <1>4, <1>6, MemSame
<1> QED BY <1>2, <1>5, <1>7, BarsElsewhere DEF KV!Return

\* The end of the chain is reached, or an insertion finds the key there: the call
\* fails.
LEMMA FailStep ==
  ASSUME LockInv, LockInv', FlagInv, FlagInv', ListInv, NEW p \in Procs,
         WalkFound(p) \/ WalkMissing(p), pc'[p] = "doreturn"
  PROVE  KV!ApplyFetch(p) \/ KV!ApplyDelete(p) \/ KV!ApplyStore(p)
<1>1. /\ Sides /\ Sides' /\ pc \in [Procs -> PCs] /\ ret \in [Procs -> Results]
  <2>1. Sides /\ Sides'
    BY SidesTrue, PTL
  <2> QED BY <2>1 DEF LockInv, TypeOK
<1>2. \A q \in Procs \ {p} : Still(q) /\ ret'[q] = ret[q]
  BY OthersStill DEF LockInv, Step, Fetch
<1>3. pc[p] = "walk" /\ call'[p] = call[p]
  BY DEF WalkFound, WalkMissing
<1>4. InCall(p) /\ ~TookEffect(p) /\ ~MidReplace(p) /\ InCall(p)' /\ TookEffect(p)' /\ ~MidReplace(p)'
      /\ retBar'[p] = ret'[p]
  BY <1>1, <1>3 DEF Sides, Side
<1>5. KV!Done(p, ret'[p]) /\ opBar[p] = call[p]
  BY <1>2, <1>3, <1>4, Taken
<1>6. SameStore
  BY OtherStore DEF ListInv, Fetch
<1>7. memBar' = memBar
  BY <1>2, <1>4, <1>6, MemSame
<1>8. call[p].key \in Keys /\ memBar[call[p].key] = Lookup(call[p].key)
  BY <1>3, <1>4, MemOwn DEF InChain
<1> PICK own, rk : Shape(own, rk)
  BY DEF ListInv
<1>9. Searching(own, rk, p) /\ Sorted(LinkF, own, rk)
  BY DEF Shape, AtWork
<1>10. CASE WalkFound(p)
  <2>1. /\ call[p].kind = "store" /\ call[p].flag = "DB_INSERT" /\ ret'[p] = Result("exists", NoKey, NoVal)
        /\ h[p].offset \in Recs /\ rec[h[p].offset].key = call[p].key
    BY <1>1, <1>10 DEF WalkFound, Goto, Settle
  <2>2. own[h[p].ptroff] = chainoff(p) /\ Link(h[p].ptroff) = h[p].offset
    BY <1>3, <1>9 DEF Searching
  <2>3. own[h[p].offset] = chainoff(p)
    <3>1. h[p].ptroff \in Cells /\ chainoff(p) # Off
      BY <1>3, HandleFields, ChainHead DEF LockInv, InChain
    <3>2. h[p].offset # 0
      BY <2>1, CellKinds
    <3> QED BY <1>9, <2>2, <3>1, <3>2, NextOnList
  <2>4. Holds(own, call[p].key, h[p].offset)
    BY <2>1, <2>3 DEF Holds, chainoff
  <2>5. memBar[call[p].key] # NoVal
    BY <1>8, <2>4, LookupIs
  <2> QED BY <1>5, <1>7, <2>1, <2>5
          DEF KV!ApplyStore, KV!Present, KV!Result, Result
<1>11. CASE WalkMissing(p)
  <2>1. /\ h[p].offset = 0 /\ ret'[p] = KV!Failed
        /\ \/ call[p].kind = "fetch"
           \/ call[p].kind = "delete"
           \/ call[p].kind = "store" /\ call[p].flag = "DB_REPLACE"
    BY <1>1, <1>11 DEF WalkMissing, Goto, Settle, KV!Failed, KV!Result, Result
  <2>2. own[h[p].ptroff] = chainoff(p) /\ Link(h[p].ptroff) = 0
    BY <1>3, <1>9, <2>1 DEF Searching
  <2>3. ASSUME NEW r, Holds(own, call[p].key, r) PROVE FALSE
    <3>1. r \in Recs /\ own[r] = chainoff(p) /\ rec[r].key = call[p].key
      BY <2>3 DEF Holds, chainoff
    <3>2. h[p].ptroff \in Cells /\ chainoff(p) # Off
      BY <1>3, HandleFields, ChainHead DEF LockInv, InChain
    <3>3. rk[r] >= rk[h[p].ptroff]
      BY <1>9, <2>2, <3>1, <3>2, NextOnList
    <3> QED BY <1>3, <1>9, <3>1, <3>3 DEF Searching
  <2>4. memBar[call[p].key] = NoVal
    BY <1>8, <2>3, LookupIs
  <2>5. ~KV!Present(p)
    BY <1>5, <2>4 DEF KV!Present
  <2>6. [memBar EXCEPT ![call[p].key] = NoVal] = memBar
    BY <2>4 DEF memBar
  <2>7. CASE call[p].kind = "fetch"
    BY <1>5, <1>7, <2>1, <2>5, <2>7 DEF KV!ApplyFetch
  <2>8. CASE call[p].kind = "delete"
    BY <1>5, <1>7, <2>1, <2>5, <2>6, <2>8 DEF KV!ApplyDelete
  <2>9. CASE call[p].kind = "store" /\ call[p].flag = "DB_REPLACE"
    BY <1>5, <1>7, <2>1, <2>5, <2>9 DEF KV!ApplyStore
  <2> QED BY <2>1, <2>7, <2>8, <2>9
<1> QED BY <1>10, <1>11

\* The data is read.
LEMMA ReadStep ==
  ASSUME LockInv, LockInv', FlagInv, FlagInv', ListInv, NEW p \in Procs, FetchDat(p)
  PROVE  KV!ApplyFetch(p)
<1>1. /\ Sides /\ Sides' /\ pc \in [Procs -> PCs] /\ ret \in [Procs -> Results] /\ CallFits(p)
  <2>1. Sides /\ Sides'
    BY SidesTrue, PTL
  <2> QED BY <2>1 DEF LockInv, TypeOK
<1>2. \A q \in Procs \ {p} : Still(q) /\ ret'[q] = ret[q]
  BY OthersStill DEF LockInv, Step, Fetch
<1>3. /\ pc[p] = "fetch_dat" /\ pc'[p] = "doreturn" /\ call'[p] = call[p]
      /\ ret'[p] = Result("ok", call[p].key, dat[h[p].datoff].val)
  BY <1>1 DEF FetchDat, Goto, Settle
<1>4. InCall(p) /\ ~TookEffect(p) /\ ~MidReplace(p) /\ InCall(p)' /\ TookEffect(p)' /\ ~MidReplace(p)'
      /\ retBar'[p] = ret'[p]
  BY <1>1, <1>3 DEF Sides, Side
<1>5. KV!Done(p, ret'[p]) /\ opBar[p] = call[p]
  BY <1>2, <1>3, <1>4, Taken
<1>6. SameStore
  BY OtherStore DEF ListInv, Fetch
<1>7. memBar' = memBar
  BY <1>2, <1>4, <1>6, MemSame
<1>8. call[p].key \in Keys /\ memBar[call[p].key] = Lookup(call[p].key)
  BY <1>3, <1>4, MemOwn DEF InChain
<1> PICK own, rk : Shape(own, rk)
  BY DEF ListInv
<1>9. /\ h[p].idxoff \in Recs /\ own[h[p].idxoff] = chainoff(p)
      /\ rec[h[p].idxoff].key = call[p].key /\ h[p].datoff = rec[h[p].idxoff].datoff
  BY <1>3 DEF Shape, AtWork, Reached
<1>10. Holds(own, call[p].key, h[p].idxoff)
  BY <1>9 DEF Holds, chainoff
<1>11. memBar[call[p].key] # NoVal /\ memBar[call[p].key] = dat[h[p].datoff].val
  BY <1>8, <1>9, <1>10, LookupIs
<1>12. call[p].kind = "fetch"
  BY <1>1, <1>3 DEF CallFits
<1> QED BY <1>3, <1>5, <1>7, <1>11, <1>12 DEF KV!ApplyFetch, KV!Present, KV!Result, Result

\* The data is blanked: a deletion takes effect, or a replacement, which counts from
\* here on as done.
LEMMA BlankStep ==
  ASSUME LockInv, LockInv', FlagInv, FlagInv', ListInv, NEW p \in Procs, DelDat(p)
  PROVE  KV!ApplyDelete(p) \/ KV!ApplyStore(p)
<1>0. PICK o, key : o = h[p].idxoff /\ key = call[p].key
  OBVIOUS
<1>1. /\ Sides /\ Sides' /\ MemAt' /\ LooksUp' /\ pc \in [Procs -> PCs] /\ FlagFits(p) /\ CallFits(p)
      /\ dat \in [Slots -> DatType] /\ call[p] \in AllCalls
  <2>1. Sides /\ Sides' /\ MemAt' /\ LooksUp'
    BY SidesTrue, MemAtTrue, LookupsTrue, PTL
  <2> QED BY <2>1 DEF LockInv, TypeOK, FlagInv
<1>2. \A q \in Procs \ {p} : Still(q) /\ ret'[q] = ret[q]
  BY OthersStill DEF LockInv, Step, Delete
<1>3. /\ pc[p] = "del_dat" /\ pc'[p] = "del_read" /\ call'[p] = call[p] /\ rec' = rec
      /\ dat' = [dat EXCEPT ![h[p].datoff].val = NoVal]
  BY <1>1 DEF DelDat, Goto, idxfile
<1>4. /\ InCall(p) /\ ~TookEffect(p) /\ ~MidReplace(p) /\ InCall(p)' /\ TookEffect(p)'
      /\ MidReplace(p)' <=> call[p].kind = "store"
      /\ retBar'[p] = KV!OK
  BY <1>1, <1>3 DEF Sides, Side, DelWindow, KV!OK, KV!Result, Result
<1>5. KV!Done(p, KV!OK) /\ opBar[p] = call[p]
  BY <1>2, <1>3, <1>4, Taken
<1> PICK own, rk : Shape(own, rk)
  BY DEF ListInv
<1>6. /\ o \in Recs /\ own[o] = chainoff(p) /\ rec[o].key = key /\ h[p].datoff = rec[o].datoff
      /\ Listed(own) /\ DataOwned
  BY <1>0, <1>3 DEF Shape, AtWork, Reached
<1>7. chainoff(p) \in HashHeads /\ key \in Keys /\ chainoff(p) = HASH_OFF + Hash[key]
  BY <1>0, <1>3, ChainHead DEF LockInv, InChain, chainoff
<1>8. PICK own2 : Shape(own2, rk)' /\ Moved(own, own2, o, Off)
  BY <1>0, DelDatStep
<1>9. ASSUME NEW k \in Keys \ {key} PROVE Lookup(k)' = Lookup(k)
  <2>1. Off # HASH_OFF + Hash[k] /\ HASH_OFF + Hash[k] \in HashHeads
    BY DbAssumption, Owned, CellKinds DEF Hashes
  <2>2. ASSUME NEW r \in Recs, own[r] = HASH_OFF + Hash[k] \/ own2[r] = HASH_OFF + Hash[k]
        PROVE  \/ own2[r] = own[r] /\ rec'[r] = rec[r] /\ dat'[rec[r].datoff] = dat[rec[r].datoff]
               \/ rec[r].key # k /\ rec'[r].key # k
    <3>1. CASE r = o
      BY <1>3, <1>6, <1>9, <3>1
    <3>2. CASE r # o
      <4>1. own2[r] = own[r]
        BY <1>8, <3>2 DEF Moved
      <4>2. r < idxend /\ o < idxend
        BY <1>6, <1>7, <2>1, <2>2, <4>1, CellKinds DEF Listed
      <4>3. rec[r].datoff # rec[o].datoff
        BY <1>6, <3>2, <4>2 DEF DataOwned
      <4> QED BY <1>1, <1>3, <1>6, <4>1, <4>3
    <3> QED BY <3>1, <3>2
  <2> QED BY <1>8, <2>2, SameLookup
<1>10. call[p].key \in Keys /\ memBar[call[p].key] # NoVal
  <2>1. Holds(own, key, o)
    BY <1>6, <1>7 DEF Holds
  <2> QED BY <1>0, <1>3, <1>4, <1>7, <2>1, MemOwn, LookupIs DEF InChain
<1>11. KV!Present(p)
  BY <1>5, <1>10 DEF KV!Present
<1>12. memBar'[key] = IF call[p].kind = "store" THEN call[p].val ELSE Lookup(key)'
  <2>1. pc'[p] \in InChain /\ call'[p].key = key
    BY <1>0, <1>3 DEF InChain, DelWindow
  <2>2. memBar'[key] = IF MidReplace(p)' THEN call'[p].val ELSE Lookup(key)'
    BY <1>1, <1>7, <2>1 DEF MemAt
  <2> QED BY <1>3, <1>4, <2>1, <2>2
<1>13. CASE call[p].kind = "store"
  <2>1. memBar' = [memBar EXCEPT ![call[p].key] = call[p].val]
    BY <1>0, <1>2, <1>3, <1>7, <1>9, <1>12, <1>13, MemPut
  <2>2. call[p].flag # "DB_INSERT"
    BY <1>1, <1>3, <1>13 DEF FlagFits
  <2> QED BY <1>5, <1>11, <1>13, <2>1, <2>2 DEF KV!ApplyStore
<1>14. CASE call[p].kind # "store"
  <2>1. call[p].kind = "delete"
    BY <1>1, <1>3, <1>14 DEF CallFits
  <2>2. \A r : ~Holds(own2, key, r)'
    <3> SUFFICES ASSUME NEW r \in Recs, own2[r] = HASH_OFF + Hash[key], rec[r].key = key
                 PROVE  FALSE
      BY <1>3 DEF Holds
    <3>1. r # o /\ own[r] = chainoff(p)
      BY <1>7, <1>8, CellKinds DEF Moved
    <3> QED BY <1>6, <1>7, <3>1 DEF Listed
  <2>3. Lookup(key)' = NoVal
    BY <1>1, <1>7, <1>8, <2>2 DEF LooksUp
  <2>4. memBar' = [memBar EXCEPT ![call[p].key] = NoVal]
    BY <1>0, <1>2, <1>3, <1>7, <1>9, <1>12, <1>14, <2>3, MemPut
  <2> QED BY <1>5, <1>11, <2>1, <2>4 DEF KV!ApplyDelete
<1> QED BY <1>13, <1>14

\* The data is rewritten in place: the replacement takes effect.
LEMMA RewriteStep ==
  ASSUME LockInv, LockInv', FlagInv, FlagInv', ListInv, NEW p \in Procs, OverDat(p)
  PROVE  KV!ApplyStore(p)
<1>0. PICK o, key : o = h[p].idxoff /\ key = call[p].key
  OBVIOUS
<1>1. /\ Sides /\ Sides' /\ MemAt' /\ LooksUp' /\ pc \in [Procs -> PCs] /\ FlagFits(p) /\ CallFits(p)
      /\ dat \in [Slots -> DatType] /\ ret \in [Procs -> Results]
  <2>1. Sides /\ Sides' /\ MemAt' /\ LooksUp'
    BY SidesTrue, MemAtTrue, LookupsTrue, PTL
  <2> QED BY <2>1 DEF LockInv, TypeOK, FlagInv
<1>2. \A q \in Procs \ {p} : Still(q) /\ ret'[q] = ret[q]
  BY OthersStill DEF LockInv, Step, Store
<1>3. /\ pc[p] = "over_dat" /\ pc'[p] = "doreturn" /\ call'[p] = call[p] /\ rec' = rec
      /\ ret'[p] = Result("ok", NoKey, NoVal)
      /\ dat' = [dat EXCEPT ![h[p].datoff] = [val |-> call[p].val, len |-> DatLen[call[p].val]]]
  BY <1>1 DEF OverDat, Settle, Goto, idxfile
<1>4. /\ InCall(p) /\ ~TookEffect(p) /\ ~MidReplace(p) /\ InCall(p)' /\ TookEffect(p)'
      /\ ~MidReplace(p)' /\ retBar'[p] = KV!OK
  BY <1>1, <1>3 DEF Sides, Side, KV!OK, KV!Result, Result
<1>5. KV!Done(p, KV!OK) /\ opBar[p] = call[p]
  BY <1>2, <1>3, <1>4, Taken
<1> PICK own, rk : Shape(own, rk)
  BY DEF ListInv
<1>6. /\ o \in Recs /\ own[o] = chainoff(p) /\ rec[o].key = key /\ h[p].datoff = rec[o].datoff
      /\ Listed(own) /\ DataOwned /\ Shape(own, rk)'
  BY <1>0, <1>3, OverDatStep DEF Shape, AtWork, Reached
<1>7. chainoff(p) \in HashHeads /\ key \in Keys /\ chainoff(p) = HASH_OFF + Hash[key]
  BY <1>0, <1>3, ChainHead DEF LockInv, InChain, chainoff
<1>8. h[p].datoff \in Slots
  BY HandleFields DEF LockInv
<1>9. ASSUME NEW k \in Keys \ {key} PROVE Lookup(k)' = Lookup(k)
  <2>1. HASH_OFF + Hash[k] \in HashHeads
    BY DbAssumption, Owned DEF Hashes
  <2>2. ASSUME NEW r \in Recs, own[r] = HASH_OFF + Hash[k]
        PROVE  \/ rec'[r] = rec[r] /\ dat'[rec[r].datoff] = dat[rec[r].datoff]
               \/ rec[r].key # k /\ rec'[r].key # k
    <3>1. CASE r = o
      BY <1>3, <1>6, <1>9, <3>1
    <3>2. CASE r # o
      <4>1. r < idxend /\ o < idxend
        BY <1>6, <1>7, <2>1, <2>2, CellKinds DEF Listed
      <4>2. rec[r].datoff # rec[o].datoff
        BY <1>6, <3>2, <4>1 DEF DataOwned
      <4> QED BY <1>1, <1>3, <1>6, <4>2
    <3> QED BY <3>1, <3>2
  <2> QED BY <1>6, <2>2, SameLookup
<1>10. call[p].key \in Keys /\ memBar[call[p].key] # NoVal
  <2>1. Holds(own, key, o)
    BY <1>6, <1>7 DEF Holds
  <2> QED BY <1>0, <1>3, <1>4, <1>7, <2>1, MemOwn, LookupIs DEF InChain
<1>11. KV!Present(p)
  BY <1>5, <1>10 DEF KV!Present
<1>12. Lookup(key)' = call[p].val
  <2>1. Holds(own, key, o)'
    BY <1>3, <1>6, <1>7 DEF Holds
  <2>2. Lookup(key)' = dat'[rec'[o].datoff].val
    BY <1>1, <1>6, <1>7, <2>1 DEF LooksUp
  <2> QED BY <1>1, <1>3, <1>6, <1>8, <2>2
<1>13. memBar'[key] = call[p].val
  <2>1. pc'[p] \in InChain /\ call'[p].key = key
    BY <1>0, <1>3 DEF InChain
  <2>2. memBar'[key] = IF MidReplace(p)' THEN call'[p].val ELSE Lookup(key)'
    BY <1>1, <1>7, <2>1 DEF MemAt
  <2> QED BY <1>3, <1>4, <1>12, <2>2
<1>14. memBar' = [memBar EXCEPT ![call[p].key] = call[p].val]
  BY <1>0, <1>2, <1>3, <1>7, <1>9, <1>13, MemPut
<1>15. call[p].kind = "store" /\ call[p].flag # "DB_INSERT"
  BY <1>1, <1>3 DEF FlagFits, CallFits
<1> QED BY <1>5, <1>11, <1>14, <1>15 DEF KV!ApplyStore

\* The new record becomes the first of its chain: an insertion takes effect; a
\* replacement has already.
LEMMA InsertStep ==
  ASSUME LockInv, LockInv', FlagInv, FlagInv', ListInv, NEW p \in Procs, Commit(p)
  PROVE  KV!ApplyStore(p) \/ UNCHANGED KV!kvars
<1>0. PICK o, key : o = h[p].idxoff /\ key = call[p].key
  OBVIOUS
<1>1. /\ Sides /\ Sides' /\ MemAt' /\ LooksUp' /\ pc \in [Procs -> PCs] /\ FlagFits(p) /\ CallFits(p)
      /\ ret \in [Procs -> Results]
  <2>1. Sides /\ Sides' /\ MemAt' /\ LooksUp'
    BY SidesTrue, MemAtTrue, LookupsTrue, PTL
  <2> QED BY <2>1 DEF LockInv, TypeOK, FlagInv
<1>2. \A q \in Procs \ {p} : Still(q) /\ ret'[q] = ret[q]
  BY OthersStill DEF LockInv, Step, Store
<1>3. /\ pc[p] = "commit" /\ pc'[p] = "doreturn" /\ call'[p] = call[p] /\ rec' = rec /\ dat' = dat
      /\ ret'[p] = Result("ok", NoKey, NoVal)
  BY <1>1 DEF Commit, Settle, Goto, datfile
<1>4. /\ InCall(p) /\ (TookEffect(p) <=> h[p].repl) /\ (MidReplace(p) <=> h[p].repl)
      /\ h[p].repl => retBar[p] = KV!OK
      /\ InCall(p)' /\ TookEffect(p)' /\ ~MidReplace(p)' /\ retBar'[p] = KV!OK
      /\ call[p].kind = "store"
  BY <1>1, <1>3 DEF Sides, Side, Storing, KV!OK, KV!Result, Result
<1> PICK own, rk : Shape(own, rk)
  BY DEF ListInv
<1>5. /\ o \in Recs /\ own[o] = Off /\ rec[o] = NewRec(p) /\ dat[h[p].datoff] = NewDat(p)
      /\ Missing(own, p) /\ Listed(own)
  BY <1>0, <1>3 DEF Shape, AtWork, Committing, Inserting, Storing
<1>6. rec[o].key = key /\ dat[rec[o].datoff].val = call[p].val
  BY <1>0, <1>5 DEF NewRec, NewDat
<1>7. chainoff(p) \in HashHeads /\ key \in Keys /\ chainoff(p) = HASH_OFF + Hash[key]
  BY <1>0, <1>3, ChainHead DEF LockInv, InChain, chainoff
<1>8. PICK own2, rk2 : Shape(own2, rk2)' /\ Moved(own, own2, o, chainoff(p))
  BY <1>0, CommitStep
<1>9. ASSUME NEW k \in Keys \ {key} PROVE Lookup(k)' = Lookup(k)
  <2>1. ASSUME NEW r \in Recs, own[r] = HASH_OFF + Hash[k] \/ own2[r] = HASH_OFF + Hash[k]
        PROVE  \/ own2[r] = own[r] /\ rec'[r] = rec[r] /\ dat'[rec[r].datoff] = dat[rec[r].datoff]
               \/ rec[r].key # k /\ rec'[r].key # k
    BY <1>3, <1>6, <1>8, <1>9 DEF Moved
  <2> QED BY <1>8, <2>1, SameLookup
<1>10. Lookup(key)' = call[p].val
  <2>1. Holds(own2, key, o)'
    BY <1>3, <1>5, <1>6, <1>7, <1>8 DEF Holds, Moved
  <2>2. Lookup(key)' = dat'[rec'[o].datoff].val
    BY <1>1, <1>7, <1>8, <2>1 DEF LooksUp
  <2> QED BY <1>3, <1>6, <2>2
<1>11. memBar'[key] = call[p].val
  <2>1. pc'[p] \in InChain /\ call'[p].key = key
    BY <1>0, <1>3 DEF InChain
  <2>2. memBar'[key] = IF MidReplace(p)' THEN call'[p].val ELSE Lookup(key)'
    BY <1>1, <1>7, <2>1 DEF MemAt
  <2> QED BY <1>3, <1>4, <1>10, <2>2
<1>12. memBar' = [memBar EXCEPT ![call[p].key] = call[p].val]
  BY <1>0, <1>2, <1>3, <1>7, <1>9, <1>11, MemPut
<1>13. memBar[call[p].key] = IF MidReplace(p) THEN call[p].val ELSE Lookup(call[p].key)
  BY <1>3, MemOwn DEF InChain
<1>14. CASE h[p].repl
  <2>1. memBar' = memBar
    <3>1. [memBar EXCEPT ![call[p].key] = memBar[call[p].key]] = memBar
      BY DEF memBar
    <3> QED BY <1>4, <1>12, <1>13, <1>14, <3>1
  <2>2. stBar'[p] = stBar[p] /\ opBar'[p] = opBar[p] /\ retBar'[p] = retBar[p]
    BY <1>3, <1>4, <1>14 DEF stBar, opBar
  <2>3. /\ [stBar EXCEPT ![p] = stBar[p]] = stBar /\ [opBar EXCEPT ![p] = opBar[p]] = opBar
        /\ [retBar EXCEPT ![p] = retBar[p]] = retBar
    BY DEF stBar, opBar, retBar
  <2>4. stBar' = stBar /\ opBar' = opBar /\ retBar' = retBar
    BY <1>2, <2>2, <2>3, BarsElsewhere
  <2> QED BY <2>1, <2>4 DEF KV!kvars
<1>15. CASE ~h[p].repl
  <2>1. KV!Done(p, KV!OK) /\ opBar[p] = call[p]
    BY <1>2, <1>3, <1>4, <1>15, Taken
  <2>2. \A r : ~Holds(own, key, r)
    BY <1>0, <1>5, <1>7 DEF Holds, Missing
  <2>3. memBar[call[p].key] = NoVal
    BY <1>0, <1>4, <1>7, <1>13, <1>15, <2>2, LookupIs
  <2>4. ~KV!Present(p)
    BY <2>1, <2>3 DEF KV!Present
  <2>5. call[p].flag # "DB_REPLACE"
    BY <1>1, <1>3, <1>15 DEF FlagFits, Storing
  <2> QED BY <1>4, <1>12, <2>1, <2>4, <2>5 DEF KV!ApplyStore
<1> QED BY <1>14, <1>15

\* The process is gone, and if it was replacing a record, so is the replacement.
LEMMA DieStep ==
  ASSUME LockInv, LockInv', FlagInv, ListInv, NEW p \in Procs,
         Exit(p), pc[p] \notin DelWindow
  PROVE  KV!Die(p) \/ UNCHANGED KV!kvars
<1>1. /\ Sides /\ pc \in [Procs -> PCs] /\ h \in [Procs -> Handle] /\ FlagFits(p)
  <2>1. Sides
    BY SidesTrue
  <2> QED BY <2>1 DEF LockInv, TypeOK, FlagInv
<1>2. /\ \A q \in Procs \ {p} : Still(q) /\ ret'[q] = ret[q]
      /\ pc'[p] = "dead" /\ call'[p] = call[p]
  BY <1>1 DEF Exit, Still
<1>3. SameStore
  BY OtherStore DEF ListInv
<1>4. ~InCall(p)' /\ ~MidReplace(p)'
  BY <1>2 DEF InCall, InChain, MidReplace, DelWindow, FreeWindow, Reusing, Appending
<1>5. stBar'[p] = "dead" /\ opBar'[p] = KV!NoOp /\ retBar'[p] = KV!NoResult
  BY <1>2, <1>4 DEF stBar, opBar, retBar, KV!NoOp, KV!NoResult, KV!Result, NoResult, Result
<1>6. /\ stBar' = [stBar EXCEPT ![p] = "dead"]
      /\ opBar' = [opBar EXCEPT ![p] = KV!NoOp]
      /\ retBar' = [retBar EXCEPT ![p] = KV!NoResult]
  BY <1>2, <1>5, BarsElsewhere
<1>7. CASE pc[p] = "dead"
  <2>1. ~InCall(p) /\ ~MidReplace(p)
    BY <1>7 DEF InCall, InChain, MidReplace, DelWindow, FreeWindow, Reusing, Appending
  <2>2. stBar[p] = "dead" /\ opBar[p] = KV!NoOp /\ retBar[p] = KV!NoResult
    BY <1>7, <2>1 DEF stBar, opBar, retBar, KV!NoOp, KV!NoResult, KV!Result, NoResult, Result
  <2>3. /\ [stBar EXCEPT ![p] = stBar[p]] = stBar /\ [opBar EXCEPT ![p] = opBar[p]] = opBar
        /\ [retBar EXCEPT ![p] = retBar[p]] = retBar
    BY DEF stBar, opBar, retBar
  <2>4. memBar' = memBar
    BY <1>2, <1>3, <1>4, <2>1, MemSame
  <2> QED BY <1>6, <2>2, <2>3, <2>4 DEF KV!kvars
<1>8. CASE pc[p] # "dead"
  <2>1. stBar[p] # "dead"
    BY <1>8 DEF stBar
  <2>2. CASE ~MidReplace(p)
    <3>1. memBar' = memBar
      BY <1>2, <1>3, <1>4, <2>2, MemSame
    <3> QED BY <1>6, <2>1, <3>1 DEF KV!Die
  <2>3. CASE MidReplace(p)
    <3>1. /\ pc[p] \in Storing /\ pc[p] # "doreturn" /\ h[p].repl
          /\ call[p].kind = "store"
      BY <2>3 DEF MidReplace, Storing, DelWindow, FreeWindow, Reusing, Appending
    <3>2. pc[p] \in InChain
      BY <3>1 DEF Storing, InChain
    <3>3. stBar[p] = "done" /\ opBar[p] = call[p]
      BY <1>1, <1>8, <3>1 DEF Sides, Side, stBar, opBar
    <3>4. call[p].flag # "DB_INSERT"
      BY <1>1, <3>1 DEF FlagFits
    <3> PICK key : key = call[p].key
      OBVIOUS
    <3>5. key \in Keys /\ chainoff(p) = HASH_OFF + Hash[key]
      BY <3>2 DEF LockInv, TypeOK, CallFits, chainoff
    <3>6. Lookup(key) = NoVal
      <4> PICK own, rk : Shape(own, rk)
        BY DEF ListInv
      <4>1. Missing(own, p)
        BY <3>1 DEF Shape, AtWork, Inserting
      <4>2. \A r : ~Holds(own, key, r)
        BY <3>5, <4>1 DEF Missing, Holds
      <4> QED BY <3>5, <4>2, LookupIs
    <3>7. \A q \in Procs : MidReplace(q)' => call'[q].key # key
      <4> SUFFICES ASSUME NEW q \in Procs, MidReplace(q)' PROVE call'[q].key # key
        OBVIOUS
      <4>1. q # p
        BY <1>4
      <4>2. MidReplace(q) /\ call'[q] = call[q]
        BY <1>2, <4>1 DEF MidReplace, Still
      <4> QED BY <3>2, <4>1, <4>2, ReplaceAlone
    <3>8. memBar'[key] = NoVal
      <4>1. MemIs'
        BY MemTrue, PTL
      <4>2. memBar'[key] = Lookup(key)'
        BY <3>5, <3>7, <4>1 DEF MemIs
      <4> QED BY <1>3, <3>5, <3>6, <4>2 DEF SameStore
    <3>9. memBar' = [memBar EXCEPT ![opBar[p].key] = NoVal]
      BY <1>2, <1>3, <3>3, <3>5, <3>8, MemPut DEF SameStore
    <3> QED BY <1>6, <2>1, <3>1, <3>3, <3>4, <3>9 DEF KV!Die
  <2> QED BY <2>2, <2>3
<1> QED BY <1>7, <1>8

-----------------------------------------------------------------------------
(* The refinement.                                                         *)

\* No process is in a call, and every key has its data or none.
LEMMA KVStarts == Init => KV!KInit
<1> SUFFICES ASSUME Init PROVE KV!KInit
  OBVIOUS
<1>1. LockInv /\ ListInv
  BY InitTypeOK, InitLocks, InitList DEF LockInv
<1>2. \A p \in Procs : pc[p] = "idle"
  BY DEF Init
<1>3. \A p \in Procs : ~InCall(p) /\ ~MidReplace(p)
  BY <1>2 DEF InCall, InChain, MidReplace, DelWindow, FreeWindow, Reusing, Appending
<1>4. ASSUME NEW k \in Keys PROVE memBar[k] \in Vals \cup {NoVal}
  <2>1. memBar[k] = Lookup(k)
    BY <1>1, <1>3, MemTrue DEF MemIs
  <2> PICK own, rk : Shape(own, rk)
    BY <1>1 DEF ListInv
  <2>2. CASE \E r : Holds(own, k, r)
    <3> PICK r : Holds(own, k, r)
      BY <2>2
    <3>1. r \in Recs /\ Lookup(k) = dat[rec[r].datoff].val
      BY <1>1, LookupIs DEF Holds
    <3>2. rec[r] \in RecType
      BY <1>1, <3>1 DEF LockInv, TypeOK
    <3>3. rec[r].datoff \in Slots
      BY <3>2 DEF RecType
    <3>4. dat[rec[r].datoff] \in DatType
      BY <1>1, <3>3 DEF LockInv, TypeOK
    <3> QED BY <2>1, <3>1, <3>4 DEF DatType
  <2>3. CASE \A r : ~Holds(own, k, r)
    BY <1>1, <2>1, <2>3, LookupIs
  <2> QED BY <2>2, <2>3
<1>5. memBar \in [Keys -> Vals \cup {NoVal}]
  <2>1. memBar = [k \in Keys |-> memBar[k]]
    BY DEF memBar
  <2> QED BY <1>4, <2>1
<1>6. stBar = [p \in Procs |-> "idle"]
  BY <1>2, <1>3 DEF stBar
<1>7. opBar = [p \in Procs |-> KV!NoOp]
  BY <1>3 DEF opBar, KV!NoOp
<1>8. retBar = [p \in Procs |-> KV!NoResult]
  BY <1>3 DEF retBar, NoResult, Result, KV!NoResult, KV!Result
<1> QED BY <1>5, <1>6, <1>7, <1>8 DEF KV!KInit

\* No store is under way.
LEMMA InitFlags == Init => FlagInv
<1> SUFFICES ASSUME Init, NEW p \in Procs PROVE FlagFits(p)
  BY DEF FlagInv
<1>1. pc[p] = "idle" /\ ~h[p].repl
  BY DEF Init, NullHandle
<1> QED BY <1>1 DEF FlagFits, DelWindow, FreeWindow, Reusing, Appending, Storing

\* A step of a process is one of KVStore, or cannot be seen there.
LEMMA ProcMaps ==
  ASSUME DeletionsEnd, LockInv, LockInv', FlagInv, FlagInv', ListInv, NEW p \in Procs,
         Start(p) \/ Step(p) \/ Crash(p)
  PROVE  KV!KNext \/ UNCHANGED KV!kvars
<1>1. ASSUME \/ KV!ApplyFetch(p) \/ KV!ApplyDelete(p) \/ KV!ApplyStore(p)
             \/ KV!Return(p) \/ KV!Die(p)
      PROVE  KV!KNext
  BY <1>1 DEF KV!KNext
<1>2. ASSUME Exit(p), pc[p] \notin DelWindow PROVE KV!KNext \/ UNCHANGED KV!kvars
  BY <1>1, <1>2, DieStep
<1>3. CASE Start(p)
  <2> PICK c \in Calls[p] : Begin(p, c) \/ StoreInvalid(p, c) \/ db_rewind(p, c)
    BY <1>3 DEF Start
  <2>1. CASE Begin(p, c) /\ c.kind # "nextrec"
    BY <2>1, InvokeStep DEF KV!KNext
  <2>2. CASE ~(Begin(p, c) /\ c.kind # "nextrec")
    BY <2>2, ScanSilent
  <2> QED BY <2>1, <2>2
<1>4. CASE Fetch(p)
  <2>1. CASE FindAndLock(p) \/ WalkPast(p)
    BY <2>1, FindSilent
  <2>2. CASE WalkFound(p) \/ WalkMissing(p)
    BY <1>1, <2>2, FindSilent, FailStep
  <2>3. CASE FetchDat(p) \/ DoReturn(p)
    BY <1>1, <2>3, ReadStep, ReturnStep
  <2> QED BY <1>4, <2>1, <2>2, <2>3 DEF Fetch
<1>5. CASE Delete(p)
  BY <1>1, <1>5, BlankStep, DeleteSilent DEF Delete
<1>6. CASE Store(p)
  <2>1. CASE AppendNoSpace(p) \/ CommitTooFar(p)
    BY <1>2, <2>1 DEF AppendNoSpace, CommitTooFar, DelWindow
  <2>2. CASE OverDat(p) \/ Commit(p)
    BY <1>1, <2>2, RewriteStep, InsertStep
  <2> QED BY <1>6, <2>1, <2>2, StoreSilent DEF Store
<1>7. CASE NextRec(p)
  <2>1. CASE NextAstray(p)
    BY <1>2, <2>1 DEF NextAstray, DelWindow
  <2>2. CASE ~NextAstray(p)
    BY <1>7, <2>2, ScanSilent
  <2> QED BY <2>1, <2>2
<1>8. CASE Crash(p)
  BY <1>2, <1>8 DEF Crash, DeletionsEnd
<1> QED BY <1>3, <1>4, <1>5, <1>6, <1>7, <1>8 DEF Step

\* A stuttering step is one of KVStore, too.
LEMMA StutterMaps == UNCHANGED vars => UNCHANGED KV!kvars
<1> SUFFICES ASSUME UNCHANGED vars PROVE UNCHANGED KV!kvars
  OBVIOUS
<1>1. /\ ptr' = ptr /\ rec' = rec /\ dat' = dat /\ pc' = pc /\ h' = h /\ call' = call /\ ret' = ret
  BY DEF vars
<1>2. \A p \in Procs : MidReplace(p)' = MidReplace(p)
  BY <1>1 DEF MidReplace
<1>3. \A o : Link(o)' = Link(o)
  BY <1>1 DEF Link, Unlinking
<1>4. \A o : Path(o)' = Path(o)
  BY <1>3 DEF Path
<1>5. ASSUME NEW k \in Keys PROVE Lookup(k)' = Lookup(k)
  <2>1. Chain(Hash[k])' = Chain(Hash[k])
    BY <1>4 DEF Chain, On
  <2> DEFINE R == {r \in Chain(Hash[k]) : rec[r].key = k}
  <2>2. R' = R
    BY <1>1, <2>1
  <2>3. /\ Lookup(k) = IF R = {} THEN NoVal ELSE dat[rec[CHOOSE r \in R : TRUE].datoff].val
        /\ Lookup(k)' = IF R' = {} THEN NoVal ELSE dat'[rec'[CHOOSE r \in R' : TRUE].datoff].val
    BY DEF Lookup
  <2> HIDE DEF R
  <2> QED BY <1>1, <2>2, <2>3
<1>6. memBar' = memBar
  <2>1. ASSUME NEW k \in Keys PROVE memBar'[k] = memBar[k]
    <3> DEFINE P == {p \in Procs : MidReplace(p) /\ call[p].key = k}
    <3>1. P' = P
      BY <1>1, <1>2
    <3>2. memBar[k] = IF P # {} THEN call[CHOOSE p \in P : TRUE].val ELSE Lookup(k)
      BY DEF memBar
    <3>3. memBar'[k] = IF P' # {} THEN call'[CHOOSE p \in P' : TRUE].val ELSE Lookup(k)'
      BY DEF memBar
    <3> HIDE DEF P
    <3> QED BY <1>1, <1>5, <3>1, <3>2, <3>3
  <2>2. memBar = [k \in Keys |-> memBar[k]] /\ memBar' = [k \in Keys |-> memBar'[k]]
    BY DEF memBar
  <2> QED BY <2>1, <2>2
<1>7. stBar' = stBar /\ opBar' = opBar /\ retBar' = retBar
  BY <1>1, <1>2 DEF stBar, opBar, retBar, InCall, TookEffect
<1> QED BY <1>6, <1>7 DEF KV!kvars

\* If no process is killed between the first and the last write of a deletion,
\* db_fetch, db_store and db_delete of any number of processes, interleaved access
\* by access, behave as atomic operations on one map from keys to data; a process
\* that is killed loses at most the record it was replacing.
THEOREM Implementation ==
  ASSUME DeletionsEnd
  PROVE  Spec => ImplementsKVStore
<1>1. Init => KV!KInit
  BY KVStarts
<1>2. Init => FlagInv
  BY InitFlags
<1>3. LockInv /\ FlagInv /\ [Next]_vars => FlagInv'
  BY FlagStep DEF LockInv
<1>4. LockInv /\ LockInv' /\ FlagInv /\ FlagInv' /\ ListInv /\ [Next]_vars
        => [KV!KNext]_(KV!kvars)
  <2> SUFFICES ASSUME LockInv, LockInv', FlagInv, FlagInv', ListInv, [Next]_vars
               PROVE  KV!KNext \/ UNCHANGED KV!kvars
    OBVIOUS
  <2>1. ASSUME NEW p \in Procs, Start(p) \/ Step(p) \/ Crash(p)
        PROVE  KV!KNext \/ UNCHANGED KV!kvars
    BY <2>1, ProcMaps
  <2> QED BY <2>1, StutterMaps DEF Next
<1>5. Spec => [](LockInv /\ ListInv)
  BY ListInvariance
<1> QED BY <1>1, <1>2, <1>3, <1>4, <1>5, PTL DEF Spec, ImplementsKVStore, KV!KSpec
=============================================================================
