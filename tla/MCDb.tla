-------------------------------- MODULE MCDb --------------------------------
(***************************************************************************)
(* Instances of the database library for TLC.  Keys a and b share a hash   *)
(* chain and a length, kc is on another chain; data x and y have the same   *)
(* length, z is longer.                                                    *)
(***************************************************************************)
EXTENDS Db, TLC

CONSTANTS a, b, kc, x, y, z, p1, p2, p3

MCHash   == (a :> 0) @@ (b :> 0) @@ (kc :> 1)
MCKeyLen == (a :> 1) @@ (b :> 1) @@ (kc :> 1)
MCDatLen == (x :> 2) @@ (y :> 2) @@ (z :> 3)

K(kind, k) == [kind |-> kind, key |-> k, val |-> NoVal, flag |-> "DB_OTHER"]
S(k, v, f) == [kind |-> "store", key |-> k, val |-> v, flag |-> f]

\* Every kind of call on two keys of one chain, by two processes that may
\* be killed anywhere but in _db_dodelete after its first write. The second record
\* that is appended has an offset no chain pointer can hold, and a third finds no room.
Common == {K("fetch", a), K("delete", a), K("delete", b), S(a, x, "DB_INSERT"),
           S(a, y, "DB_STORE"), S(a, z, "DB_REPLACE"), S(b, x, "DB_INSERT")}
ChainCalls == (p1 :> Common \cup {S(b, x, "DB_OTHER")}) @@ (p2 :> Common \cup {K("nextrec", NoKey), K("rewind", NoKey)})
ChainPreload == <<<<a, x>>, <<b, z>>>>
CrashPoints == PCs \ (DelWindow \cup {"dead"})

TwoCalls == [p \in Procs |-> 2]

\* A process is killed before the last write of a deletion.
KilledCalls == (p1 :> {K("delete", a)})
            @@ (p2 :> {S(a, x, "DB_INSERT"), K("fetch", b)})
KilledMax == (p1 :> 1) @@ (p2 :> 2)
KilledPreload == <<<<a, x>>>>
KilledAt == {"del_chain"}
=============================================================================
