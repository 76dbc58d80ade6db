------------------------------- MODULE KVStore -------------------------------
(***************************************************************************)
(* What the database library promises its callers: a map from keys to data *)
(* on which db_fetch, db_store and db_delete take effect atomically, at    *)
(* some moment between call and return, whatever the other processes do.   *)
(***************************************************************************)
CONSTANTS
  Procs, Keys, Vals, NoKey, NoVal,
  Ops     \* the calls that can be made

VARIABLES
  mem,   \* the data stored under each key, NoVal if none
  st,    \* idle, pending (called), done (took effect), dead
  op,    \* the call a process is in
  ret    \* its result, once done

kvars == <<mem, st, op, ret>>

Result(rc, k, v) == [rc |-> rc, key |-> k, val |-> v]
NoResult == Result("none", NoKey, NoVal)
OK == Result("ok", NoKey, NoVal)
Failed == Result("error", NoKey, NoVal)
NoOp == [kind |-> "none", key |-> NoKey, val |-> NoVal, flag |-> "none"]

KInit ==
  /\ mem \in [Keys -> Vals \cup {NoVal}]
  /\ st = [p \in Procs |-> "idle"]
  /\ op = [p \in Procs |-> NoOp]
  /\ ret = [p \in Procs |-> NoResult]

Invoke(p, c) ==
  /\ st[p] = "idle"
  /\ st' = [st EXCEPT ![p] = "pending"]
  /\ op' = [op EXCEPT ![p] = c]
  /\ UNCHANGED <<mem, ret>>

Done(p, res) ==
  /\ st[p] = "pending"
  /\ st' = [st EXCEPT ![p] = "done"]
  /\ ret' = [ret EXCEPT ![p] = res]
  /\ UNCHANGED op

Present(p) == mem[op[p].key] # NoVal

ApplyFetch(p) ==
  /\ op[p].kind = "fetch"
  /\ Done(p, IF Present(p) THEN Result("ok", op[p].key, mem[op[p].key]) ELSE Failed)
  /\ UNCHANGED mem

ApplyDelete(p) ==
  /\ op[p].kind = "delete"
  /\ Done(p, IF Present(p) THEN OK ELSE Failed)
  /\ mem' = [mem EXCEPT ![op[p].key] = NoVal]

\* DB_INSERT refuses a key that is there, DB_REPLACE one that is not.
ApplyStore(p) ==
  /\ op[p].kind = "store"
  /\ IF Present(p) /\ op[p].flag = "DB_INSERT"
     THEN Done(p, Result("exists", NoKey, NoVal)) /\ UNCHANGED mem
     ELSE IF ~Present(p) /\ op[p].flag = "DB_REPLACE"
     THEN Done(p, Failed) /\ UNCHANGED mem
     ELSE Done(p, OK) /\ mem' = [mem EXCEPT ![op[p].key] = op[p].val]

Return(p) ==
  /\ st[p] = "done"
  /\ st' = [st EXCEPT ![p] = "idle"]
  /\ ret' = [ret EXCEPT ![p] = NoResult]
  /\ op' = [op EXCEPT ![p] = NoOp]
  /\ UNCHANGED mem

\* A process that dies takes no effect of its own with it, but for one: a
\* replacement by data of another length deletes first and appends after, and
\* may be lost, with the record it replaced.
Die(p) ==
  /\ st[p] # "dead"
  /\ st' = [st EXCEPT ![p] = "dead"]
  /\ ret' = [ret EXCEPT ![p] = NoResult]
  /\ \/ UNCHANGED mem
     \/ /\ st[p] = "done" /\ op[p].kind = "store"
        /\ op[p].flag # "DB_INSERT"
        /\ mem' = [mem EXCEPT ![op[p].key] = NoVal]
  /\ op' = [op EXCEPT ![p] = NoOp]

KNext ==
  \E p \in Procs :
    \/ \E c \in Ops : Invoke(p, c)
    \/ ApplyFetch(p) \/ ApplyDelete(p) \/ ApplyStore(p)
    \/ Return(p) \/ Die(p)

KSpec == KInit /\ [][KNext]_kvars
=============================================================================
