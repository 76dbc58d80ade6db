------------------------------ MODULE MCDbScan ------------------------------
(***************************************************************************)
(* A sequential scan with db_nextrec while other processes store and       *)
(* delete: history variables that record what each scan returned, and what *)
(* a complete scan must have returned.  For TLC, one scanner and two       *)
(* writers: records before and after b move while it is read past.         *)
(***************************************************************************)
EXTENDS Db, TLC

CONSTANT Scanners   \* processes that only call db_rewind and db_nextrec

VARIABLES
  seen,     \* seen[p][k]: how often the scan of p returned key k
  touched   \* keys some process has begun to store or delete

svars == <<vars, seen, touched>>

SInit ==
  /\ Init
  /\ seen = [p \in Scanners |-> [k \in Keys |-> 0]]
  /\ touched = {}

Rewound(p) == pc[p] = "idle" /\ pc'[p] = "idle" /\ left'[p] # left[p]
Returned(p, k) == pc[p] = "next_dat" /\ pc'[p] = "idle" /\ h[p].kbuf = k
AtEof(p) == pc[p] = "next_idx" /\ pc'[p] = "idle"

SNext ==
  /\ Next
  /\ seen' = [p \in Scanners |-> [k \in Keys |->
       IF Rewound(p) THEN 0
       ELSE IF Returned(p, k) THEN seen[p][k] + 1 ELSE seen[p][k]]]
  /\ touched' = touched \cup
       {call'[p].key : p \in {q \in Procs : pc[q] = "idle" /\ pc'[q] = "find"
                                            /\ call'[q].kind \in {"store", "delete"}}}

SSpec == SInit /\ [][SNext]_svars

PreKeys == {PreKey(i) : i \in 1 .. NPre}

\* A scan that reaches the end of the index file has returned every key that
\* was there all the time exactly once, and none that never was, whatever the
\* other processes stored, deleted and moved to other records meanwhile.
ScanComplete ==
  [][\A p \in Scanners : AtEof(p) =>
       \A k \in Keys \ touched : seen[p][k] = IF k \in PreKeys THEN 1 ELSE 0]_svars
-----------------------------------------------------------------------------
(* The instance.                                                           *)
CONSTANTS a, b, kc, x, y, z, p1, p2, p3

MCHash   == (a :> 0) @@ (b :> 0) @@ (kc :> 1)
MCKeyLen == (a :> 1) @@ (b :> 1) @@ (kc :> 1)
MCDatLen == (x :> 2) @@ (y :> 2) @@ (z :> 3)

K(kind, k) == [kind |-> kind, key |-> k, val |-> NoVal, flag |-> "DB_OTHER"]
S(k, v, f) == [kind |-> "store", key |-> k, val |-> v, flag |-> f]

ScanCalls == (p1 :> {K("nextrec", NoKey), K("rewind", NoKey)})
          @@ (p2 :> {K("delete", a), S(a, z, "DB_STORE"), S(a, x, "DB_STORE")})
          @@ (p3 :> {S(kc, x, "DB_INSERT"), S(kc, z, "DB_INSERT")})
ScanMax == (p1 :> 4) @@ (p2 :> 2) @@ (p3 :> 1)
ScanPreload == <<<<a, x>>, <<b, y>>>>
NoPoints == {}
=============================================================================
