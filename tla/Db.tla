--------------------------------- MODULE Db ---------------------------------
(***************************************************************************)
(* The database library of apue/apue.2e/db/db.c: an index file with a      *)
(* free list and NHASH hash chains of index records, a data file, and the  *)
(* byte-range record locks (fcntl through lib/lockreg.c) under which any   *)
(* number of processes, each with its own DB handle, run db_fetch,         *)
(* db_store, db_delete, db_nextrec and db_rewind on them.                  *)
(*                                                                         *)
(* One action is one access to a file, together with the lock requested    *)
(* just before it or released just after it: a lock request only blocks    *)
(* others, so it can be postponed to the access it protects, and a release *)
(* only unblocks them, so it can be joined to the access before it.        *)
(*                                                                         *)
(* Offsets.  The chain pointers of the index file are numbered in the      *)
(* order of their offsets: FREE_OFF is the free list, HASH_OFF ..          *)
(* HASH_OFF + NHASH - 1 the hash table, and from REC_OFF on there is one   *)
(* per index record.  All rewriting in place keeps the length of a record, *)
(* so a record never moves and its number stands for its byte offset.      *)
(***************************************************************************)
EXTENDS Naturals, Sequences, FiniteSets

CONSTANTS
  Procs,     \* processes, each with one open handle on the same database
  Keys,      \* keys, and what the library computes of them:
  Hash,      \*   Hash[k], _db_hash of the key, in 0 .. NHASH-1
  KeyLen,    \*   KeyLen[k], strlen of the key
  Vals,      \* data strings, and
  DatLen,    \*   DatLen[v], their length with the newline
  NHASH,     \* number of hash chains (NHASH_DEF in the code)
  PtrMax,    \* largest offset a chain pointer can hold (PTR_MAX)
  MaxRecs,   \* room on the file system: records that fit in each file
  Calls,     \* Calls[p], the library calls process p makes
  MaxCalls,  \* MaxCalls[p], how many calls it makes (bounds the model)
  CrashAt,   \* control points at which a process may be killed
  Preload,   \* <<key, data>> pairs stored, in order, before the model starts
  NoKey,     \* a key of blanks: the record is empty
  NoVal,     \* data of blanks; also "no data" (a null pointer)
  Nobody     \* no process holds the lock

-----------------------------------------------------------------------------
(* Offsets and calls.                                                      *)

FREE_OFF == 0
HASH_OFF == 1
REC_OFF  == HASH_OFF + NHASH

Cells == 0 .. (REC_OFF + MaxRecs - 1)          \* every chain pointer
Recs  == REC_OFF .. (REC_OFF + MaxRecs - 1)    \* the index records' pointers
LockBytes == 0 .. REC_OFF    \* lock REC_OFF is the range from there to EOF
Slots == 0 .. (MaxRecs - 1)                    \* data records

Flags == {"DB_INSERT", "DB_REPLACE", "DB_STORE", "DB_OTHER"}

AllCalls ==
  [kind : {"fetch", "delete", "store", "nextrec", "rewind"},
   key  : Keys \cup {NoKey}, val : Vals \cup {NoVal}, flag : Flags]

ASSUME DbAssumption ==
  /\ NHASH \in Nat \ {0}
  /\ PtrMax \in Nat
  /\ MaxRecs \in Nat \ {0}
  /\ MaxCalls \in [Procs -> Nat]
  /\ Hash \in [Keys -> 0 .. (NHASH - 1)]
  /\ KeyLen \in [Keys -> Nat]
  /\ DatLen \in [Vals -> Nat]
  /\ NoKey \notin Keys
  /\ NoVal \notin Vals
  /\ Nobody \notin Procs
  /\ Calls \in [Procs -> SUBSET AllCalls]
  /\ \A p \in Procs : \A c \in Calls[p] :
       /\ c.kind \in {"fetch", "delete", "store"} => c.key \in Keys
       /\ c.kind = "store" => c.val \in Vals
  /\ Preload \in Seq(Keys \X Vals)
  /\ Len(Preload) <= MaxRecs
  /\ \A i, j \in 1 .. Len(Preload) : Preload[i][1] = Preload[j][1] => i = j

\* What a call returns: db_fetch's and db_nextrec's data, the code of the others.
Result(rc, k, v) == [rc |-> rc, key |-> k, val |-> v]
Results == [rc : {"ok", "exists", "error", "none"},
            key : Keys \cup {NoKey}, val : Vals \cup {NoVal}]
NoResult == Result("none", NoKey, NoVal)

NoCall == [kind |-> "rewind", key |-> NoKey, val |-> NoVal, flag |-> "DB_OTHER"]

-----------------------------------------------------------------------------
VARIABLES
  ptr,      \* index file: the value of every chain pointer
  rec,      \* index file: the rest of every index record
  idxend,   \* index file: its end of file
  dat,      \* data file: its records
  datend,   \* data file: its end of file
  lockR,    \* index file: the holders of a read lock on a byte
  lockW,    \* index file: the holder of the write lock on a byte
  datlock,  \* data file: the holder of the write lock on all of it
  pc,       \* control point of each process
  call,     \* the call a process is in
  left,     \* how many calls it may still make
  ret,      \* the result of its last call
  h,        \* its handle: the fields of DB and the locals of the call
  fdpos     \* file offset of idxfd: a record's, or 0 when not at a record

idxfile == <<ptr, rec, idxend>>
datfile == <<dat, datend>>
locks   == <<lockR, lockW, datlock>>
vars == <<ptr, rec, idxend, dat, datend, lockR, lockW, datlock,
          pc, call, left, ret, h, fdpos>>

Ptrs == Recs \cup {0}      \* the values of a chain pointer, 0 at the end

Handle ==
  [offset  : Ptrs,         \* the record the search is at
   ptroff  : Cells,        \* db->ptroff, or saveoffset in _db_findfree
   idxoff  : Ptrs,         \* db->idxoff
   ptrval  : Ptrs,         \* db->ptrval, kept by _db_dodelete as saveptr
   newptr  : Ptrs,         \* local ptrval of db_store, freeptr of _db_dodelete
   datoff  : Slots,        \* db->datoff
   datlen  : Nat,          \* db->datlen
   kbuf    : Keys \cup {NoKey},   \* the key in db->idxbuf
   repl    : BOOLEAN]      \* db_store is past the _db_dodelete of a replace

NullHandle ==
  [offset |-> 0, ptroff |-> 0, idxoff |-> 0, ptrval |-> 0, newptr |-> 0,
   datoff |-> 0, datlen |-> 0, kbuf |-> NoKey, repl |-> FALSE]

EmptyRec == [key |-> NoKey, klen |-> 0, datoff |-> 0, datlen |-> 0]
RecType  == [key : Keys \cup {NoKey}, klen : Nat, datoff : Slots, datlen : Nat]
DatType  == [val : Vals \cup {NoVal}, len : Nat]

-----------------------------------------------------------------------------
(* Initial state: what db_open leaves in an empty database, with Preload   *)
(* then stored by calls that found nothing to reuse, each at the front of  *)
(* its chain.                                                              *)

NPre == Len(Preload)
PreKey(i) == Preload[i][1]
PreVal(i) == Preload[i][2]

\* The last of the first n preloaded records on hash chain c, 0 if none.
LastOn(c, n) ==
  LET S == {i \in 1 .. n : Hash[PreKey(i)] = c}
      IsLast(i) == \A j \in S : j <= i
  IN IF \E i \in S : IsLast(i)
     THEN REC_OFF + (CHOOSE i \in S : IsLast(i)) - 1
     ELSE 0

PreIndex(r) == r - REC_OFF + 1

Init ==
  /\ ptr = [o \in Cells |->
       IF o = FREE_OFF THEN 0
       ELSE IF o < REC_OFF THEN LastOn(o - HASH_OFF, NPre)
       ELSE IF PreIndex(o) <= NPre
            THEN LastOn(Hash[PreKey(PreIndex(o))], PreIndex(o) - 1)
            ELSE 0]
  /\ rec = [r \in Recs |->
       IF PreIndex(r) <= NPre
       THEN [key    |-> PreKey(PreIndex(r)), klen   |-> KeyLen[PreKey(PreIndex(r))],
             datoff |-> PreIndex(r) - 1,     datlen |-> DatLen[PreVal(PreIndex(r))]]
       ELSE EmptyRec]
  /\ dat = [d \in Slots |->
       IF d < NPre THEN [val |-> PreVal(d + 1), len |-> DatLen[PreVal(d + 1)]]
                   ELSE [val |-> NoVal, len |-> 0]]
  /\ idxend = REC_OFF + NPre
  /\ datend = NPre
  /\ lockR = [o \in LockBytes |-> {}]
  /\ lockW = [o \in LockBytes |-> Nobody]
  /\ datlock = Nobody
  /\ pc = [p \in Procs |-> "idle"]
  /\ call = [p \in Procs |-> NoCall]
  /\ left = MaxCalls
  /\ ret = [p \in Procs |-> NoResult]
  /\ h = [p \in Procs |-> NullHandle]
  /\ fdpos = [p \in Procs |-> REC_OFF]

-----------------------------------------------------------------------------
(* Record locks: readw_lock, writew_lock and un_lock of apue.h, that is,   *)
(* fcntl(F_SETLKW), which blocks until no other process holds a            *)
(* conflicting lock.  A process that exits loses its locks.                *)

CanReadLock(p, o)  == lockW[o] \in {Nobody, p}
CanWriteLock(p, o) == lockW[o] \in {Nobody, p} /\ lockR[o] \subseteq {p}

readw_lock(p, o) ==
  /\ CanReadLock(p, o)
  /\ lockR' = [lockR EXCEPT ![o] = @ \cup {p}]
  /\ UNCHANGED <<lockW, datlock>>

writew_lock(p, o) ==
  /\ CanWriteLock(p, o)
  /\ lockW' = [lockW EXCEPT ![o] = p]
  /\ UNCHANGED <<lockR, datlock>>

un_lock(p, o) ==
  /\ lockW' = [lockW EXCEPT ![o] = IF @ = p THEN Nobody ELSE @]
  /\ lockR' = [lockR EXCEPT ![o] = @ \ {p}]
  /\ UNCHANGED datlock

writew_lock_dat(p) ==
  /\ datlock \in {Nobody, p}
  /\ datlock' = p
  /\ UNCHANGED <<lockR, lockW>>

un_lock_dat(p) ==
  /\ datlock' = Nobody
  /\ UNCHANGED <<lockR, lockW>>

\* The offset of the hash chain a call works on (db->chainoff).
chainoff(p) == HASH_OFF + Hash[call[p].key]

Goto(p, from, to) == pc[p] = from /\ pc' = [pc EXCEPT ![p] = to]

\* The call's result is settled; only un_lock and return are left.
Settle(p, from, res) ==
  /\ Goto(p, from, "doreturn")
  /\ ret' = [ret EXCEPT ![p] = res]

\* err_dump, err_quit or a signal: the process is gone, its locks with it.
Exit(p) ==
  /\ pc' = [pc EXCEPT ![p] = "dead"]
  /\ h' = [h EXCEPT ![p] = NullHandle]
  /\ lockW' = [o \in LockBytes |-> IF lockW[o] = p THEN Nobody ELSE lockW[o]]
  /\ lockR' = [o \in LockBytes |-> lockR[o] \ {p}]
  /\ datlock' = IF datlock = p THEN Nobody ELSE datlock
  /\ fdpos' = [fdpos EXCEPT ![p] = 0]
  /\ UNCHANGED <<idxfile, datfile, call, left, ret>>

-----------------------------------------------------------------------------
(* Entry of the library's calls.                                           *)

Begin(p, c) ==
  /\ pc[p] = "idle" /\ left[p] > 0
  /\ c.kind # "rewind" /\ ~(c.kind = "store" /\ c.flag = "DB_OTHER")
  /\ pc' = [pc EXCEPT ![p] = IF c.kind = "nextrec" THEN "next_lock" ELSE "find"]
  /\ call' = [call EXCEPT ![p] = c]
  /\ left' = [left EXCEPT ![p] = @ - 1]
  /\ ret' = [ret EXCEPT ![p] = NoResult]
  /\ UNCHANGED <<idxfile, datfile, locks, h, fdpos>>

\* db_store with a flag it does not know returns at once (EINVAL).
StoreInvalid(p, c) ==
  /\ pc[p] = "idle" /\ left[p] > 0
  /\ c.kind = "store" /\ c.flag = "DB_OTHER"
  /\ left' = [left EXCEPT ![p] = @ - 1]
  /\ ret' = [ret EXCEPT ![p] = Result("error", NoKey, NoVal)]
  /\ UNCHANGED <<idxfile, datfile, locks, pc, call, h, fdpos>>

db_rewind(p, c) ==
  /\ pc[p] = "idle" /\ left[p] > 0
  /\ c.kind = "rewind"
  /\ left' = [left EXCEPT ![p] = @ - 1]
  /\ fdpos' = [fdpos EXCEPT ![p] = REC_OFF]
  /\ UNCHANGED <<idxfile, datfile, locks, pc, call, ret, h>>

-----------------------------------------------------------------------------
(* _db_find_and_lock: lock the hash chain, then walk it.                   *)

\* Mutant: the writelock argument is ignored.
FindAndReadLock(p) ==
  /\ Goto(p, "find", "walk")
  /\ readw_lock(p, chainoff(p))
  /\ h' = [h EXCEPT ![p] = [@ EXCEPT !.offset = ptr[chainoff(p)], !.ptroff = chainoff(p)]]
  /\ fdpos' = [fdpos EXCEPT ![p] = 0]
  /\ UNCHANGED <<idxfile, datfile, call, left, ret>>

FindAndLock(p) ==
  /\ Goto(p, "find", "walk")
  /\ IF call[p].kind = "fetch" THEN readw_lock(p, chainoff(p))
                               ELSE writew_lock(p, chainoff(p))
  /\ h' = [h EXCEPT ![p] = [@ EXCEPT !.offset = ptr[chainoff(p)], !.ptroff = chainoff(p)]]
  /\ fdpos' = [fdpos EXCEPT ![p] = 0]
  /\ UNCHANGED <<idxfile, datfile, call, left, ret>>

\* What _db_readidx leaves in the handle after it read the record at h.offset.
ReadIdx(p) ==
  [h[p] EXCEPT !.idxoff = h[p].offset,
               !.ptrval = ptr[h[p].offset],
               !.kbuf   = rec[h[p].offset].key,
               !.datoff = rec[h[p].offset].datoff,
               !.datlen = rec[h[p].offset].datlen]

\* Mutant: the search does not advance to nextoffset.
WalkOnTheSpot(p) ==
  /\ pc[p] = "walk"
  /\ h[p].offset \in Recs
  /\ rec[h[p].offset].key # call[p].key
  /\ h' = [h EXCEPT ![p] = [ReadIdx(p) EXCEPT !.ptroff = h[p].offset]]
  /\ fdpos' = [fdpos EXCEPT ![p] = h[p].offset + 1]
  /\ UNCHANGED <<idxfile, datfile, locks, pc, call, left, ret>>

WalkPast(p) ==
  /\ pc[p] = "walk"
  /\ h[p].offset \in Recs
  /\ rec[h[p].offset].key # call[p].key
  /\ h' = [h EXCEPT ![p] = [ReadIdx(p) EXCEPT !.ptroff = h[p].offset,
                                              !.offset = ptr[h[p].offset]]]
  /\ fdpos' = [fdpos EXCEPT ![p] = h[p].offset + 1]
  /\ UNCHANGED <<idxfile, datfile, locks, pc, call, left, ret>>

\* The record is there: db_fetch reads it, db_delete deletes it, db_store
\* refuses a DB_INSERT and replaces it otherwise, in place if the data has
\* the same length.
WalkFound(p) ==
  LET r == h[p].offset  c == call[p] IN
  /\ pc[p] = "walk"
  /\ r \in Recs
  /\ rec[r].key = c.key
  /\ h' = [h EXCEPT ![p] = ReadIdx(p)]
  /\ fdpos' = [fdpos EXCEPT ![p] = r + 1]
  /\ \/ /\ c.kind = "fetch"
        /\ Goto(p, "walk", "fetch_dat") /\ UNCHANGED ret
     \/ /\ c.kind = "delete"
        /\ Goto(p, "walk", "del_dat") /\ UNCHANGED ret
     \/ /\ c.kind = "store" /\ c.flag = "DB_INSERT"
        /\ Settle(p, "walk", Result("exists", NoKey, NoVal))
     \/ /\ c.kind = "store" /\ c.flag # "DB_INSERT"
        /\ Goto(p, "walk", IF DatLen[c.val] # rec[r].datlen THEN "del_dat" ELSE "over_dat")
        /\ UNCHANGED ret
  /\ UNCHANGED <<idxfile, datfile, locks, call, left>>

WalkMissing(p) ==
  LET c == call[p] IN
  /\ pc[p] = "walk"
  /\ h[p].offset = 0
  /\ \/ /\ c.kind = "fetch"
        /\ Settle(p, "walk", Result("error", NoKey, NoVal))
     \/ /\ c.kind = "delete"
        /\ Settle(p, "walk", Result("error", NoKey, NoVal))
     \/ /\ c.kind = "store" /\ c.flag = "DB_REPLACE"
        /\ Settle(p, "walk", Result("error", NoKey, NoVal))
     \/ /\ c.kind = "store" /\ c.flag # "DB_REPLACE"
        /\ Goto(p, "walk", "head") /\ UNCHANGED ret
  /\ UNCHANGED <<idxfile, datfile, locks, call, left, h, fdpos>>

\* db_fetch: _db_readdat.
FetchDat(p) ==
  /\ Settle(p, "fetch_dat", Result("ok", call[p].key, dat[h[p].datoff].val))
  /\ UNCHANGED <<idxfile, datfile, locks, call, left, h, fdpos>>

\* un_lock(chainoff) and return, at the end of db_fetch, db_delete and db_store.
DoReturn(p) ==
  /\ Goto(p, "doreturn", "idle")
  /\ un_lock(p, chainoff(p))
  /\ h' = [h EXCEPT ![p] = NullHandle]
  /\ UNCHANGED <<idxfile, datfile, call, left, ret, fdpos>>

-----------------------------------------------------------------------------
(* _db_dodelete: blank the data, blank the index record and push it on the *)
(* free list, then take it out of its hash chain.                          *)

DelDat(p) ==
  /\ Goto(p, "del_dat", "del_read")
  /\ writew_lock(p, FREE_OFF)
  /\ dat' = [dat EXCEPT ![h[p].datoff].val = NoVal]
  /\ UNCHANGED <<idxfile, datend, call, left, ret, h, fdpos>>

DelReadFree(p) ==
  /\ Goto(p, "del_read", "del_idx")
  /\ h' = [h EXCEPT ![p].newptr = ptr[FREE_OFF]]
  /\ fdpos' = [fdpos EXCEPT ![p] = 0]
  /\ UNCHANGED <<idxfile, datfile, locks, call, left, ret>>

DelIdx(p) ==
  /\ Goto(p, "del_idx", "del_free")
  /\ rec' = [rec EXCEPT ![h[p].idxoff].key = NoKey]
  /\ ptr' = [ptr EXCEPT ![h[p].idxoff] = h[p].newptr]
  /\ fdpos' = [fdpos EXCEPT ![p] = h[p].idxoff + 1]
  /\ UNCHANGED <<idxend, datfile, locks, call, left, ret, h>>

\* Mutant: the free list pointer is not rewritten.
DelFreeForgotten(p) ==
  /\ Goto(p, "del_free", "del_chain")
  /\ UNCHANGED <<idxfile, datfile, locks, call, left, ret, h, fdpos>>

DelFree(p) ==
  /\ Goto(p, "del_free", "del_chain")
  /\ ptr' = [ptr EXCEPT ![FREE_OFF] = h[p].idxoff]
  /\ fdpos' = [fdpos EXCEPT ![p] = 0]
  /\ UNCHANGED <<rec, idxend, datfile, locks, call, left, ret, h>>

\* The last write and un_lock of the free list; db_delete is then done,
\* db_store goes on to append the replacement.
DelChain(p) ==
  /\ ptr' = [ptr EXCEPT ![h[p].ptroff] = h[p].ptrval]
  /\ un_lock(p, FREE_OFF)
  /\ fdpos' = [fdpos EXCEPT ![p] = 0]
  /\ \/ /\ call[p].kind = "delete"
        /\ Settle(p, "del_chain", Result("ok", NoKey, NoVal))
        /\ UNCHANGED h
     \/ /\ call[p].kind = "store"
        /\ Goto(p, "del_chain", "head")
        /\ h' = [h EXCEPT ![p].repl = TRUE]
        /\ UNCHANGED ret
  /\ UNCHANGED <<rec, idxend, datfile, call, left>>

-----------------------------------------------------------------------------
(* db_store past _db_find_and_lock.                                        *)

\* Same length: overwrite the data record in place.
OverDat(p) ==
  /\ Settle(p, "over_dat", Result("ok", NoKey, NoVal))
  /\ dat' = [dat EXCEPT ![h[p].datoff] = [val |-> call[p].val, len |-> DatLen[call[p].val]]]
  /\ UNCHANGED <<idxfile, datend, locks, call, left, h, fdpos>>

\* Mutant: the pointer found by the search is used, not reread after a deletion.
ReadHeadStale(p) ==
  /\ Goto(p, "head", IF h[p].repl THEN "app_dat_seek" ELSE "free_find")
  /\ h' = [h EXCEPT ![p].newptr = IF h[p].repl THEN h[p].idxoff ELSE ptr[chainoff(p)]]
  /\ fdpos' = [fdpos EXCEPT ![p] = 0]
  /\ UNCHANGED <<idxfile, datfile, locks, call, left, ret>>

\* Read the chain pointer the new record will carry; a replacement is always
\* appended, an insertion looks for an empty record first.
ReadHead(p) ==
  /\ Goto(p, "head", IF h[p].repl THEN "app_dat_seek" ELSE "free_find")
  /\ h' = [h EXCEPT ![p].newptr = ptr[chainoff(p)]]
  /\ fdpos' = [fdpos EXCEPT ![p] = 0]
  /\ UNCHANGED <<idxfile, datfile, locks, call, left, ret>>

(* _db_findfree: an empty record whose key and data have the same lengths. *)

\* Mutant: the free list is searched under a read lock.
FindFreeReadLock(p) ==
  /\ Goto(p, "free_find", "free_walk")
  /\ readw_lock(p, FREE_OFF)
  /\ h' = [h EXCEPT ![p] = [@ EXCEPT !.offset = ptr[FREE_OFF], !.ptroff = FREE_OFF]]
  /\ fdpos' = [fdpos EXCEPT ![p] = 0]
  /\ UNCHANGED <<idxfile, datfile, call, left, ret>>

FindFree(p) ==
  /\ Goto(p, "free_find", "free_walk")
  /\ writew_lock(p, FREE_OFF)
  /\ h' = [h EXCEPT ![p] = [@ EXCEPT !.offset = ptr[FREE_OFF], !.ptroff = FREE_OFF]]
  /\ fdpos' = [fdpos EXCEPT ![p] = 0]
  /\ UNCHANGED <<idxfile, datfile, call, left, ret>>

Fits(p, r) == /\ rec[r].klen = KeyLen[call[p].key]
              /\ rec[r].datlen = DatLen[call[p].val]

FreePast(p) ==
  /\ pc[p] = "free_walk"
  /\ h[p].offset \in Recs
  /\ ~Fits(p, h[p].offset)
  /\ h' = [h EXCEPT ![p] = [ReadIdx(p) EXCEPT !.ptroff = h[p].offset,
                                              !.offset = ptr[h[p].offset]]]
  /\ fdpos' = [fdpos EXCEPT ![p] = h[p].offset + 1]
  /\ UNCHANGED <<idxfile, datfile, locks, pc, call, left, ret>>

FreeFound(p) ==
  /\ Goto(p, "free_walk", "free_take")
  /\ h[p].offset \in Recs
  /\ Fits(p, h[p].offset)
  /\ h' = [h EXCEPT ![p] = ReadIdx(p)]
  /\ fdpos' = [fdpos EXCEPT ![p] = h[p].offset + 1]
  /\ UNCHANGED <<idxfile, datfile, locks, call, left, ret>>

\* Mutant: _db_findfree returns -1 without un_lock.
FreeMissingLocked(p) ==
  /\ Goto(p, "free_walk", "app_dat_seek")
  /\ h[p].offset = 0
  /\ UNCHANGED <<idxfile, datfile, locks, call, left, ret, h, fdpos>>

FreeMissing(p) ==
  /\ Goto(p, "free_walk", "app_dat_seek")
  /\ h[p].offset = 0
  /\ un_lock(p, FREE_OFF)
  /\ UNCHANGED <<idxfile, datfile, call, left, ret, h, fdpos>>

FreeTake(p) ==
  /\ Goto(p, "free_take", "reuse_dat")
  /\ ptr' = [ptr EXCEPT ![h[p].ptroff] = h[p].ptrval]
  /\ un_lock(p, FREE_OFF)
  /\ fdpos' = [fdpos EXCEPT ![p] = 0]
  /\ UNCHANGED <<rec, idxend, datfile, call, left, ret, h>>

(* Rewrite the empty record: data, then index record.                      *)

ReuseDat(p) ==
  /\ Goto(p, "reuse_dat", "reuse_idx")
  /\ dat' = [dat EXCEPT ![h[p].datoff] = [val |-> call[p].val, len |-> DatLen[call[p].val]]]
  /\ UNCHANGED <<idxfile, datend, locks, call, left, ret, h, fdpos>>

NewRec(p) == [key    |-> call[p].key,  klen   |-> KeyLen[call[p].key],
              datoff |-> h[p].datoff,  datlen |-> DatLen[call[p].val]]

ReuseIdx(p) ==
  /\ Goto(p, "reuse_idx", "commit")
  /\ rec' = [rec EXCEPT ![h[p].idxoff] = NewRec(p)]
  /\ ptr' = [ptr EXCEPT ![h[p].idxoff] = h[p].newptr]
  /\ fdpos' = [fdpos EXCEPT ![p] = h[p].idxoff + 1]
  /\ UNCHANGED <<idxend, datfile, locks, call, left, ret, h>>

(* Append: each file is locked, sought to its end and written.             *)

AppendDatSeek(p) ==
  /\ Goto(p, "app_dat_seek", "app_dat")
  /\ datend \in Slots
  /\ writew_lock_dat(p)
  /\ h' = [h EXCEPT ![p].datoff = datend]
  /\ UNCHANGED <<idxfile, datfile, call, left, ret, fdpos>>

AppendDat(p) ==
  /\ Goto(p, "app_dat", "app_idx_seek")
  /\ dat' = [dat EXCEPT ![h[p].datoff] = [val |-> call[p].val, len |-> DatLen[call[p].val]]]
  /\ datend' = IF h[p].datoff = datend THEN datend + 1 ELSE datend
  /\ un_lock_dat(p)
  /\ UNCHANGED <<idxfile, call, left, ret, h, fdpos>>

AppendIdxSeek(p) ==
  /\ Goto(p, "app_idx_seek", "app_idx")
  /\ idxend \in Recs
  /\ writew_lock(p, REC_OFF)
  /\ h' = [h EXCEPT ![p].idxoff = idxend]
  /\ fdpos' = [fdpos EXCEPT ![p] = idxend]
  /\ UNCHANGED <<idxfile, datfile, call, left, ret>>

AppendIdx(p) ==
  /\ Goto(p, "app_idx", "commit")
  /\ rec' = [rec EXCEPT ![h[p].idxoff] = NewRec(p)]
  /\ ptr' = [ptr EXCEPT ![h[p].idxoff] = h[p].newptr]
  /\ idxend' = IF h[p].idxoff = idxend THEN idxend + 1 ELSE idxend
  /\ un_lock(p, REC_OFF)
  /\ fdpos' = [fdpos EXCEPT ![p] = h[p].idxoff + 1]
  /\ UNCHANGED <<datfile, call, left, ret, h>>

\* No room for the data or the index record: writev fails, err_dump.
AppendNoSpace(p) ==
  /\ \/ pc[p] = "app_dat_seek" /\ datlock \in {Nobody, p} /\ datend \notin Slots
     \/ pc[p] = "app_idx_seek" /\ CanWriteLock(p, REC_OFF) /\ idxend \notin Recs
  /\ Exit(p)

\* Mutant: the two offsets of _db_writeptr are swapped.
CommitSwapped(p) ==
  /\ Settle(p, "commit", Result("ok", NoKey, NoVal))
  /\ h[p].idxoff <= PtrMax
  /\ ptr' = [ptr EXCEPT ![h[p].idxoff] = chainoff(p)]
  /\ fdpos' = [fdpos EXCEPT ![p] = 0]
  /\ UNCHANGED <<rec, idxend, datfile, locks, call, left, h>>

\* The new record becomes the first of its hash chain.
Commit(p) ==
  /\ Settle(p, "commit", Result("ok", NoKey, NoVal))
  /\ h[p].idxoff <= PtrMax
  /\ ptr' = [ptr EXCEPT ![chainoff(p)] = h[p].idxoff]
  /\ fdpos' = [fdpos EXCEPT ![p] = 0]
  /\ UNCHANGED <<rec, idxend, datfile, locks, call, left, h>>

\* _db_writeptr: the offset does not fit in a chain pointer, err_quit.
CommitTooFar(p) ==
  /\ pc[p] = "commit"
  /\ h[p].idxoff > PtrMax
  /\ Exit(p)

-----------------------------------------------------------------------------
(* db_nextrec: read on from the file offset of idxfd, under a read lock on *)
(* the free list, past the empty records.                                  *)

NextLock(p) ==
  /\ Goto(p, "next_lock", "next_idx")
  /\ readw_lock(p, FREE_OFF)
  /\ UNCHANGED <<idxfile, datfile, call, left, ret, h, fdpos>>

\* Mutant: the record after an empty one is skipped with it.
NextPastTwo(p) ==
  /\ pc[p] = "next_idx"
  /\ fdpos[p] \in Recs /\ fdpos[p] < idxend
  /\ rec[fdpos[p]].key = NoKey
  /\ fdpos' = [fdpos EXCEPT ![p] = IF @ + 2 <= idxend THEN @ + 2 ELSE @ + 1]
  /\ UNCHANGED <<idxfile, datfile, locks, pc, call, left, ret, h>>

NextPast(p) ==
  /\ pc[p] = "next_idx"
  /\ fdpos[p] \in Recs /\ fdpos[p] < idxend
  /\ rec[fdpos[p]].key = NoKey
  /\ fdpos' = [fdpos EXCEPT ![p] = @ + 1]
  /\ UNCHANGED <<idxfile, datfile, locks, pc, call, left, ret, h>>

NextFound(p) ==
  /\ Goto(p, "next_idx", "next_dat")
  /\ fdpos[p] \in Recs /\ fdpos[p] < idxend
  /\ rec[fdpos[p]].key # NoKey
  /\ h' = [h EXCEPT ![p] = [@ EXCEPT !.idxoff = fdpos[p],
                                     !.kbuf   = rec[fdpos[p]].key,
                                     !.datoff = rec[fdpos[p]].datoff]]
  /\ fdpos' = [fdpos EXCEPT ![p] = @ + 1]
  /\ UNCHANGED <<idxfile, datfile, locks, call, left, ret>>

NextEof(p) ==
  /\ Goto(p, "next_idx", "idle")
  /\ fdpos[p] >= idxend
  /\ ret' = [ret EXCEPT ![p] = Result("error", NoKey, NoVal)]
  /\ un_lock(p, FREE_OFF)
  /\ UNCHANGED <<idxfile, datfile, call, left, h, fdpos>>

NextDat(p) ==
  /\ Goto(p, "next_dat", "idle")
  /\ ret' = [ret EXCEPT ![p] = Result("ok", h[p].kbuf, dat[h[p].datoff].val)]
  /\ un_lock(p, FREE_OFF)
  /\ h' = [h EXCEPT ![p] = NullHandle]
  /\ UNCHANGED <<idxfile, datfile, call, left, fdpos>>

\* The file offset was left inside the hash table or inside a record by
\* another call: what _db_readidx finds there is no index record, err_dump.
NextAstray(p) ==
  /\ pc[p] = "next_idx"
  /\ fdpos[p] = 0
  /\ Exit(p)

\* The process is killed.
Crash(p) ==
  /\ pc[p] \in CrashAt
  /\ Exit(p)

-----------------------------------------------------------------------------
Fetch(p)  == FindAndLock(p) \/ WalkPast(p) \/ WalkFound(p) \/ WalkMissing(p)
               \/ FetchDat(p) \/ DoReturn(p)
Delete(p) == DelDat(p) \/ DelReadFree(p) \/ DelIdx(p) \/ DelFree(p) \/ DelChain(p)
Store(p)  == OverDat(p) \/ ReadHead(p) \/ FindFree(p) \/ FreePast(p) \/ FreeFound(p)
               \/ FreeMissing(p) \/ FreeTake(p) \/ ReuseDat(p) \/ ReuseIdx(p)
               \/ AppendDatSeek(p) \/ AppendDat(p) \/ AppendIdxSeek(p)
               \/ AppendIdx(p) \/ AppendNoSpace(p) \/ Commit(p) \/ CommitTooFar(p)
NextRec(p) == NextLock(p) \/ NextPast(p) \/ NextFound(p) \/ NextEof(p)
               \/ NextDat(p) \/ NextAstray(p)

\* A process in a call goes on with it.
Step(p) == Fetch(p) \/ Delete(p) \/ Store(p) \/ NextRec(p)

\* A process between calls makes the next one.
Start(p) == \E c \in Calls[p] : Begin(p, c) \/ StoreInvalid(p, c) \/ db_rewind(p, c)

Finished == \A p \in Procs : pc[p] = "dead" \/ (pc[p] = "idle" /\ left[p] = 0)

Next == \/ \E p \in Procs : Start(p) \/ Step(p) \/ Crash(p)
        \/ Finished /\ UNCHANGED vars

Spec == Init /\ [][Next]_vars

\* Every process keeps running its call: a granted lock and a system call on
\* a regular file do not block for ever.
FairSpec == Spec /\ \A p \in Procs : WF_vars(Step(p))

-----------------------------------------------------------------------------
(* What must hold: the record locks give each hash chain and the free list *)
(* one writer at a time; the chains and the free list stay disjoint lists  *)
(* of records; and db_fetch, db_store and db_delete are atomic operations  *)
(* on a map from keys to data (KVStore).                                   *)

(* Control points.                                                         *)

\* between writew_lock and un_lock of the free list
DelWindow  == {"del_read", "del_idx", "del_free", "del_chain"}
FreeWindow == {"free_walk", "free_take"}

\* between the return of _db_findfree, or the append, and the chain's rewrite
Reusing   == {"reuse_dat", "reuse_idx"}
Appending == {"app_dat_seek", "app_dat", "app_idx_seek", "app_idx"}

\* between _db_find_and_lock and the un_lock of the hash chain
InChain == {"walk", "fetch_dat", "doreturn", "del_dat", "over_dat", "head",
            "free_find", "commit"} \cup DelWindow \cup FreeWindow
             \cup Reusing \cup Appending

PCs == {"idle", "find", "next_lock", "next_idx", "next_dat", "dead"} \cup InChain

Writing(p) == pc[p] \in InChain /\ call[p].kind # "fetch"

\* The call a process is in is one that leads to its control point.
CallFits(p) ==
  /\ pc[p] \in InChain \cup {"find"} =>
       /\ call[p].kind \in {"fetch", "delete", "store"}
       /\ call[p].key \in Keys
       /\ call[p].kind = "store" => call[p].val \in Vals
  /\ pc[p] = "fetch_dat" => call[p].kind = "fetch"
  /\ pc[p] \in {"del_dat"} \cup DelWindow => call[p].kind \in {"delete", "store"}
  /\ pc[p] \in {"over_dat", "head", "free_find", "commit"} \cup FreeWindow
                 \cup Reusing \cup Appending => call[p].kind = "store"

\* Types of the variables; a process in a call has a call that fits it.
TypeOK ==
  /\ ptr \in [Cells -> Ptrs]
  /\ rec \in [Recs -> RecType]
  /\ idxend \in REC_OFF .. (REC_OFF + MaxRecs)
  /\ dat \in [Slots -> DatType]
  /\ datend \in 0 .. MaxRecs
  /\ lockR \in [LockBytes -> SUBSET Procs]
  /\ lockW \in [LockBytes -> Procs \cup {Nobody}]
  /\ datlock \in Procs \cup {Nobody}
  /\ pc \in [Procs -> PCs]
  /\ call \in [Procs -> AllCalls]
  /\ left \in [Procs -> Nat]
  /\ ret \in [Procs -> Results]
  /\ h \in [Procs -> Handle]
  /\ fdpos \in [Procs -> 0 .. (REC_OFF + MaxRecs)]
  /\ \A p \in Procs : CallFits(p)

-----------------------------------------------------------------------------
(* Locks.                                                                  *)

\* Where the code is between taking and releasing a lock on byte o.
HoldsW(p, o) ==
  \/ Writing(p) /\ o = chainoff(p)
  \/ o = FREE_OFF /\ pc[p] \in DelWindow \cup FreeWindow
  \/ o = REC_OFF /\ pc[p] = "app_idx"
HoldsR(p, o) ==
  \/ pc[p] \in InChain /\ call[p].kind = "fetch" /\ o = chainoff(p)
  \/ o = FREE_OFF /\ pc[p] \in {"next_idx", "next_dat"}

\* Each lock is held exactly where the code is between taking and releasing
\* it, and readers and writers of a byte exclude each other.
LockDiscipline ==
  /\ \A o \in LockBytes : lockW[o] # Nobody => lockR[o] \subseteq {lockW[o]}
  /\ \A p \in Procs, o \in LockBytes : /\ lockW[o] = p <=> HoldsW(p, o)
                                       /\ p \in lockR[o] <=> HoldsR(p, o)
  /\ \A p \in Procs : datlock = p <=> pc[p] = "app_dat"

\* While a process is between _db_find_and_lock and un_lock with a write lock,
\* no other process is inside a call on the same hash chain.
ChainExclusion ==
  \A p, q \in Procs :
    p # q /\ Writing(p) /\ pc[q] \in InChain => chainoff(p) # chainoff(q)

\* No record is pushed on or taken from the free list, or blanked, while
\* another process does so or while db_nextrec reads a record.
FreeListExclusion ==
  \A p, q \in Procs :
    p # q /\ pc[p] \in DelWindow \cup FreeWindow
      => pc[q] \notin DelWindow \cup FreeWindow \cup {"next_idx", "next_dat"}

-----------------------------------------------------------------------------
(* The lists.  Seen from outside, a deletion takes effect when the data is *)
(* blanked: from then on the chain pointer before the record counts as     *)
(* already rewritten.                                                      *)

Unlinking(o) == {p \in Procs : pc[p] \in DelWindow /\ h[p].ptroff = o}

Link(o) == IF Unlinking(o) # {} THEN h[CHOOSE p \in Unlinking(o) : TRUE].ptrval
                                ELSE ptr[o]

\* The first n records from pointer o on, 0 past the end.
Path(o) ==
  LET at[n \in 0 .. MaxRecs] ==
        IF n = 0 THEN Link(o) ELSE IF at[n - 1] = 0 THEN 0 ELSE Link(at[n - 1])
  IN at

On(o) == {Path(o)[n] : n \in 0 .. MaxRecs} \ {0}

Chain(i) == On(HASH_OFF + i)
Free == On(FREE_OFF)
Hashes == 0 .. (NHASH - 1)

\* The record a process has taken off the free list, is appending, or is
\* deleting and has not pushed on the free list yet.
Private(p) ==
  IF pc[p] \in Reusing \cup {"commit", "app_idx"} THEN {h[p].idxoff}
  ELSE IF pc[p] \in DelWindow \ {"del_chain"} THEN {h[p].idxoff}
  ELSE {}

\* Hash chains and free list end, no record is on two of them, and none is on
\* one while a process still holds it for itself.
ListsDisjoint ==
  /\ \A o \in 0 .. (REC_OFF - 1) : Path(o)[MaxRecs] = 0
  /\ \A o, e \in 0 .. (REC_OFF - 1) : o # e => On(o) \cap On(e) = {}
  /\ \A o \in 0 .. (REC_OFF - 1), p \in Procs : On(o) \cap Private(p) = {}
  /\ \A p, q \in Procs : p # q => Private(p) \cap Private(q) = {}

\* No record of the index file is lost as long as no process is killed: each
\* is on a hash chain, on the free list, or in the hands of one process.
NoLeak ==
  (\A p \in Procs : pc[p] # "dead") =>
    \A r \in REC_OFF .. (idxend - 1) :
      \/ \E o \in 0 .. (REC_OFF - 1) : r \in On(o)
      \/ \E p \in Procs : r \in Private(p)

\* What is on a hash chain is a record with a key of that chain, at most one
\* for each key, and its data is in the data file, whole and not shared.
ChainsHoldRecords ==
  \A i \in Hashes : \A r \in Chain(i) :
    /\ r < idxend
    /\ rec[r].key \in Keys /\ Hash[rec[r].key] = i
    /\ rec[r].klen = KeyLen[rec[r].key]
    /\ rec[r].datoff < datend
    /\ dat[rec[r].datoff].val # NoVal
    /\ dat[rec[r].datoff].len = rec[r].datlen
    /\ \A s \in REC_OFF .. (idxend - 1) : s # r =>
         /\ rec[s].datoff # rec[r].datoff
         /\ s \in Chain(i) => rec[s].key # rec[r].key

\* Data is reused only with its record: a free record's data is blank, of the
\* length the record says, and no longer than what is written over it.
FreeRecordsBlank ==
  \A r \in Free :
    /\ r < idxend
    /\ rec[r].key = NoKey
    /\ dat[rec[r].datoff].val = NoVal
    /\ dat[rec[r].datoff].len = rec[r].datlen

\* Records are rewritten in place only with data and keys of the same lengths,
\* though the lengths were read under a lock since released: nothing runs over
\* into the next record.
LengthsKept ==
  \A p \in Procs :
    /\ pc[p] \in Reusing =>
         /\ rec[h[p].idxoff].klen = KeyLen[call[p].key]
         /\ rec[h[p].idxoff].datlen = DatLen[call[p].val]
         /\ dat[h[p].datoff].len = DatLen[call[p].val]
    /\ pc[p] = "over_dat" => dat[h[p].datoff].len = DatLen[call[p].val]

\* The hash chains and the free list stay apart, end, and a chain holds whole
\* records of its own keys, at most one for each, wherever processes are killed
\* short of the last writes of a deletion.
ListsSound == ChainsHoldRecords /\ ListsDisjoint

-----------------------------------------------------------------------------
(* Refinement: the library implements KVStore.                             *)

\* db_store past the deletion of a replacement
MidReplace(p) ==
  /\ call[p].kind = "store"
  /\ \/ pc[p] \in DelWindow
     \/ h[p].repl /\ pc[p] \in Appending \cup {"head", "commit"}

Lookup(k) ==
  LET R == {r \in Chain(Hash[k]) : rec[r].key = k}
  IN IF R = {} THEN NoVal ELSE dat[rec[CHOOSE r \in R : TRUE].datoff].val

memBar ==
  [k \in Keys |->
     LET P == {p \in Procs : MidReplace(p) /\ call[p].key = k}
     IN IF P # {} THEN call[CHOOSE p \in P : TRUE].val ELSE Lookup(k)]

InCall(p) == pc[p] \in InChain \cup {"find"}

TookEffect(p) == pc[p] \in DelWindow \cup {"doreturn"} \/ MidReplace(p)

stBar == [p \in Procs |->
  IF pc[p] = "dead" THEN "dead"
  ELSE IF ~InCall(p) THEN "idle"
  ELSE IF TookEffect(p) THEN "done" ELSE "pending"]

opBar == [p \in Procs |-> IF InCall(p) THEN call[p]
            ELSE [kind |-> "none", key |-> NoKey, val |-> NoVal, flag |-> "none"]]

retBar == [p \in Procs |->
  IF ~InCall(p) \/ ~TookEffect(p) THEN NoResult
  ELSE IF pc[p] = "doreturn" THEN ret[p] ELSE Result("ok", NoKey, NoVal)]

KVOps == {c \in AllCalls : c.kind \in {"fetch", "delete", "store"}}

KV == INSTANCE KVStore WITH Ops <- KVOps, mem <- memBar, st <- stBar,
                            op <- opBar, ret <- retBar

\* db_fetch, db_store and db_delete of any number of processes behave as
\* atomic operations on a map; a killed process loses at most the record it
\* was replacing.
ImplementsKVStore == KV!KSpec

-----------------------------------------------------------------------------
(* db_nextrec.                                                             *)

\* A record db_nextrec returns is in the database, or is being stored and only
\* its hash chain lacks it; its data is not the blanks of a deletion under
\* way.  (A killed process can leave a record out of its chain for good.)
NextrecSound ==
  \A p \in Procs :
    pc[p] = "next_dat" /\ (\A q \in Procs : pc[q] # "dead") =>
      /\ dat[h[p].datoff].val # NoVal
      /\ \/ \E i \in Hashes : h[p].idxoff \in Chain(i) /\ h[p].kbuf = rec[h[p].idxoff].key
         \/ \E q \in Procs : pc[q] = "commit" /\ h[q].idxoff = h[p].idxoff

\* Under writers that meet at the free list and a scan: no record of the index
\* file is lost or in two places, what is free is blank, what is rewritten in
\* place has the length of what it replaces, and the scan returns only records
\* that are there.
RecordsKept == ListsDisjoint /\ NoLeak /\ FreeRecordsBlank /\ LengthsKept /\ NextrecSound

-----------------------------------------------------------------------------
(* Progress.                                                               *)

\* The search along a hash chain ends ("Returns with the hash chain locked").
FindReturns == \A p \in Procs : pc[p] = "walk" ~> pc[p] # "walk"

\* Every call returns or its process is gone: nobody waits for a lock for ever
\* and no walk along a chain is endless.
CallsReturn == \A p \in Procs : pc[p] \notin {"idle", "dead"} ~> pc[p] \in {"idle", "dead"}
=============================================================================
