------------------------------- MODULE Workers -------------------------------
(***************************************************************************)
(* The list of client threads of the print spooler, apue/apue.2e/ipp/      *)
(* printd.c: each client thread puts an entry on it (add_worker), takes it *)
(* off and closes its socket when it exits or is canceled                  *)
(* (client_cleanup), and SIGTERM cancels every thread on it                *)
(* (kill_workers).                                                         *)
(*                                                                         *)
(* The list is modelled at the level of its pointers.  Entries live at     *)
(* addresses, which malloc may return again once they were freed.          *)
(* One step is what a thread does between two looks at an entry; the walks *)
(* along the list take one step per entry, with workerlock held.           *)
(***************************************************************************)
EXTENDS Naturals, FiniteSets, TLAPS

CONSTANTS
  Threads,         \* client threads, each with its own socket
  Addrs,           \* addresses malloc can return
  MaxOutstanding,  \* how many client threads there are at a time
  MallocFails,     \* TRUE: malloc may return NULL
  Sig,             \* the signal thread
  NULL             \* no entry; no thread

ASSUME WorkersAssumption ==
  /\ MaxOutstanding \in Nat \ {0}
  /\ MallocFails \in BOOLEAN
  /\ Sig \notin Threads
  /\ NULL \notin Threads \cup Addrs \cup {Sig}

Actors == Threads \cup {Sig}

VARIABLES
  workers,    \* workers: the head of the list
  next,       \* next of each entry
  prev,       \* prev of each entry
  tid,        \* tid of each entry, NULL when the address is not allocated
  lock,       \* the holder of workerlock, NULL when free
  pc,         \* control point of each thread
  wtp,        \* its local wtp
  canceled,   \* threads that were sent pthread_cancel
  closed,     \* threads whose socket is closed
  listed,     \* threads add_worker made an entry for
  crowded     \* history: an entry was added while another was there

vars == <<workers, next, prev, tid, lock, pc, wtp, canceled, closed, listed, crowded>>
links == <<next, prev>>

Init ==
  /\ workers = NULL
  /\ next = [a \in Addrs |-> NULL] /\ prev = [a \in Addrs |-> NULL]
  /\ tid = [a \in Addrs |-> NULL]
  /\ lock = NULL
  /\ pc = [t \in Actors |-> IF t = Sig THEN "sigwait" ELSE "none"]
  /\ wtp = [t \in Actors |-> NULL]
  /\ canceled = {} /\ closed = {} /\ listed = {} /\ crowded = FALSE

Running == pc[Sig] # "exit"

Outstanding == {t \in Threads : pc[t] \notin {"none", "done"}}

Goto(t, from, to) == Running /\ pc[t] = from /\ pc' = [pc EXCEPT ![t] = to]

Acquire(t) == lock = NULL /\ lock' = t
Release(t) == lock = t /\ lock' = NULL

-----------------------------------------------------------------------------
\* accept and pthread_create.
Accept(t) ==
  /\ Goto(t, "none", "add")
  /\ Cardinality(Outstanding) < MaxOutstanding
  /\ UNCHANGED <<workers, links, tid, lock, wtp, canceled, closed, listed, crowded>>

\* add_worker: the new entry goes in front of the first one; workers is set
\* only when the list was empty.
add_worker(t) ==
  \E a \in Addrs :
    /\ Goto(t, "add", "work")
    /\ tid[a] = NULL
    /\ lock = NULL
    /\ tid' = [tid EXCEPT ![a] = t]
    /\ next' = [next EXCEPT ![a] = workers]
    /\ prev' = [o \in Addrs |-> IF o = workers THEN a ELSE IF o = a THEN NULL ELSE prev[o]]
    /\ workers' = IF workers = NULL THEN a ELSE workers
    /\ listed' = listed \cup {t}
    /\ crowded' = (crowded \/ workers # NULL)
    /\ UNCHANGED <<lock, wtp, canceled, closed>>

\* malloc failed: pthread_exit, which runs the cleanup handler.
AddFails(t) ==
  /\ MallocFails
  /\ Goto(t, "add", "cleanup")
  /\ UNCHANGED <<workers, links, tid, lock, wtp, canceled, closed, listed, crowded>>

\* The thread is done with its client, or is canceled at a blocking call.
Leave(t) ==
  /\ Goto(t, "work", "cleanup")
  /\ UNCHANGED <<workers, links, tid, lock, wtp, canceled, closed, listed, crowded>>

-----------------------------------------------------------------------------
(* client_cleanup.                                                         *)

CleanupLock(t) ==
  /\ Goto(t, "cleanup", "search")
  /\ Acquire(t)
  /\ wtp' = [wtp EXCEPT ![t] = workers]
  /\ UNCHANGED <<workers, links, tid, canceled, closed, listed, crowded>>

SearchPast(t) ==
  /\ Running /\ pc[t] = "search"
  /\ wtp[t] # NULL /\ tid[wtp[t]] # t
  /\ wtp' = [wtp EXCEPT ![t] = next[wtp[t]]]
  /\ UNCHANGED <<workers, links, tid, lock, pc, canceled, closed, listed, crowded>>

\* Mutant of SearchFound: workers keeps pointing to the first entry.
SearchFoundHead(t) ==
  LET w == wtp[t] IN
  /\ Goto(t, "search", "close")
  /\ w # NULL /\ tid[w] = t
  /\ prev' = [a \in Addrs |-> IF a = next[w] THEN prev[w] ELSE prev[a]]
  /\ next' = [a \in Addrs |-> IF a = prev[w] THEN next[w] ELSE next[a]]
  /\ Release(t)
  /\ UNCHANGED <<workers, tid, wtp, canceled, closed, listed, crowded>>

\* Take the entry out of the list and unlock.
SearchFound(t) ==
  LET w == wtp[t] IN
  /\ Goto(t, "search", "close")
  /\ w # NULL /\ tid[w] = t
  /\ prev' = [a \in Addrs |-> IF a = next[w] THEN prev[w] ELSE prev[a]]
  /\ next' = [a \in Addrs |-> IF a = prev[w] THEN next[w] ELSE next[a]]
  /\ workers' = IF prev[w] = NULL THEN next[w] ELSE workers
  /\ Release(t)
  /\ UNCHANGED <<tid, wtp, canceled, closed, listed, crowded>>

\* Mutant of SearchEnds: an entry that is not there is searched for again.
SearchEndsRetry(t) ==
  /\ Goto(t, "search", "cleanup")
  /\ wtp[t] = NULL
  /\ Release(t)
  /\ UNCHANGED <<workers, links, tid, wtp, canceled, closed, listed, crowded>>

SearchEnds(t) ==
  /\ Goto(t, "search", "done")
  /\ wtp[t] = NULL
  /\ Release(t)
  /\ UNCHANGED <<workers, links, tid, wtp, canceled, closed, listed, crowded>>

\* close(wtp->sockfd) and free(wtp): the allocator leaves the pointer fields as
\* they are or uses them to link its own list of free blocks.
CloseAndFree(t) ==
  /\ Goto(t, "close", "done")
  /\ closed' = closed \cup {t}
  /\ tid' = [tid EXCEPT ![wtp[t]] = NULL]
  /\ \E n \in {NULL, next[wtp[t]]} \cup {a \in Addrs : tid[a] = NULL} :
       next' = [next EXCEPT ![wtp[t]] = n]
  /\ \E p \in {NULL, prev[wtp[t]]} : prev' = [prev EXCEPT ![wtp[t]] = p]
  /\ UNCHANGED <<workers, lock, wtp, canceled, listed, crowded>>

-----------------------------------------------------------------------------
(* signal_thread on SIGTERM: kill_workers, then exit.                      *)

KillLock ==
  /\ Goto(Sig, "sigwait", "kill")
  /\ Acquire(Sig)
  /\ wtp' = [wtp EXCEPT ![Sig] = workers]
  /\ UNCHANGED <<workers, links, tid, canceled, closed, listed, crowded>>

KillNext ==
  LET w == wtp[Sig] IN
  /\ pc[Sig] = "kill"
  /\ w # NULL
  /\ canceled' = canceled \cup ({tid[w]} \ {NULL})
  /\ wtp' = [wtp EXCEPT ![Sig] = next[w]]
  /\ UNCHANGED <<workers, links, tid, lock, pc, closed, listed, crowded>>

KillEnds ==
  /\ Goto(Sig, "kill", "killed")
  /\ wtp[Sig] = NULL
  /\ Release(Sig)
  /\ UNCHANGED <<workers, links, tid, wtp, canceled, closed, listed, crowded>>

Exit ==
  /\ Goto(Sig, "killed", "exit")
  /\ UNCHANGED <<workers, links, tid, lock, wtp, canceled, closed, listed, crowded>>

-----------------------------------------------------------------------------
Work(t) == add_worker(t) \/ AddFails(t) \/ Leave(t)
client_cleanup(t) == CleanupLock(t) \/ SearchPast(t) \/ SearchFound(t) \/ SearchEnds(t)
                       \/ CloseAndFree(t)
kill_workers == KillLock \/ KillNext \/ KillEnds

\* The daemon is gone.
Gone == ~Running /\ UNCHANGED vars

Next == \/ \E t \in Threads : Accept(t) \/ Work(t) \/ client_cleanup(t)
        \/ kill_workers \/ Exit \/ Gone

Spec == Init /\ [][Next]_vars

\* Threads run; SIGTERM may never come, but once it did kill_workers runs.
FairSpec ==
  /\ Spec
  /\ \A t \in Threads : WF_vars(Work(t)) /\ WF_vars(client_cleanup(t))
  /\ WF_vars(KillNext) /\ WF_vars(KillEnds) /\ WF_vars(Exit)

-----------------------------------------------------------------------------
(* Properties.                                                             *)

\* kill_workers cancels every client thread that was at work when it locked the
\* list ("Cancel (kill) all outstanding workers"): threads add themselves under
\* the same lock, so when it unlocks none at work is left out.
KillReachesAll ==
  pc[Sig] = "kill" /\ wtp[Sig] = NULL => \A t \in Threads : pc[t] = "work" => t \in canceled

\* The list holds allocated entries only: no walk reads, and add_worker writes
\* to, no entry that was freed.
NothingDangles ==
  /\ workers # NULL => tid[workers] # NULL
  /\ \A t \in Actors : pc[t] \in {"search", "kill"} /\ wtp[t] # NULL => tid[wtp[t]] # NULL

\* A client thread that has an entry closes its socket before it is gone.
SocketsClosed == \A t \in listed : pc[t] = "done" => t \in closed

\* As long as no client came while another was being served, SIGTERM reaches the
\* thread at work, no walk meets a freed entry and sockets are closed.
SoundWhileAlone == ~crowded => KillReachesAll /\ NothingDangles /\ SocketsClosed

\* However broken the list is, client_cleanup closes and frees the entry of its
\* own thread only, and no two threads free the same entry.
OwnEntry ==
  /\ \A t \in Threads : pc[t] = "close" => wtp[t] # NULL /\ tid[wtp[t]] = t
  /\ \A t \in closed : \A a \in Addrs : tid[a] # t

\* Entries are handled by their owners only and, while each client came alone,
\* none is missed by SIGTERM, met after its free, or left with its socket open.
EntriesSound == SoundWhileAlone /\ OwnEntry

\* As long as no client came while another was being served, client_cleanup comes
\* to its end and gives workerlock back ("LOCKING: acquires and releases
\* workerlock").
ReturnsWhileAlone ==
  \A t \in Threads : pc[t] = "cleanup" ~> (pc[t] = "done" \/ ~Running \/ crowded)
-----------------------------------------------------------------------------
(* Proofs.  The entries of the list have one owner each, however the walks *)
(* along it go astray (Owners); and as long as no client comes while       *)
(* another is served, the list is its one entry (Single), so every walk    *)
(* meets it.                                                               *)


PCs == {"none", "add", "work", "cleanup", "search", "close", "done",
        "sigwait", "kill", "killed", "exit"}

Types ==
  /\ workers \in Addrs \cup {NULL}
  /\ next \in [Addrs -> Addrs \cup {NULL}]
  /\ prev \in [Addrs -> Addrs \cup {NULL}]
  /\ tid \in [Addrs -> Threads \cup {NULL}]
  /\ pc \in [Actors -> PCs]
  /\ wtp \in [Actors -> Addrs \cup {NULL}]
  /\ closed \subseteq Threads /\ listed \subseteq Threads
  /\ crowded \in BOOLEAN
  /\ \A t \in Threads : pc[t] \notin {"sigwait", "kill", "killed", "exit"}
  /\ pc[Sig] \in {"sigwait", "kill", "killed", "exit"}

\* Who walks along the list holds workerlock.
WalkersLock == \A t \in Actors : pc[t] \in {"search", "kill"} <=> lock = t

\* An entry belongs to one thread and a thread has at most one: none before
\* add_worker or after its entry was freed, and in "close" the one it took off.
Owners ==
  /\ \A a, b \in Addrs : tid[a] = tid[b] /\ tid[a] # NULL => a = b
  /\ \A a \in Addrs : tid[a] # NULL =>
       /\ pc[tid[a]] \in {"work", "cleanup", "search", "close", "done"}
       /\ tid[a] \notin closed
  /\ \A t \in Threads : pc[t] = "close" => wtp[t] # NULL /\ tid[wtp[t]] = t
  /\ \A t \in closed : pc[t] = "done"

\* A thread is in listed from add_worker on, so every owner of an entry is.
Listed ==
  /\ \A t \in Threads : /\ pc[t] \in {"none", "add"} => t \notin listed
                        /\ pc[t] = "work" => t \in listed
  /\ \A a \in Addrs : tid[a] # NULL => tid[a] \in listed

\* While clients came one at a time: an entry is the only one of the list, or
\* its thread is about to free it.
Single ==
  /\ workers # NULL =>
       /\ tid[workers] # NULL
       /\ pc[tid[workers]] \in {"work", "cleanup", "search"}
       /\ next[workers] = NULL /\ prev[workers] = NULL
  /\ \A t \in listed : pc[t] \in {"work", "cleanup", "search"} =>
       workers # NULL /\ tid[workers] = t

\* ... walks are at that entry or past it, and a thread does not walk past its own.
Walks ==
  /\ \A t \in Actors : pc[t] \in {"search", "kill"} => wtp[t] \in {workers, NULL}
  /\ \A t \in listed : pc[t] = "search" => wtp[t] = workers

Alone == ~crowded => Single /\ Walks /\ KillReachesAll /\ SocketsClosed

IInv == Types /\ WalkersLock /\ Owners /\ Listed /\ Alone

-----------------------------------------------------------------------------
\* Initially nobody has an entry and nobody walks.
LEMMA InitInv == Init => IInv
BY WorkersAssumption, ZenonT(30)
   DEF Init, IInv, Types, PCs, Actors, WalkersLock, Owners, Listed, Alone, Single, Walks,
       KillReachesAll, SocketsClosed

\* Every step keeps the types.
LEMMA TypesStep == Types /\ Owners /\ [Next]_vars => Types'
<1> SUFFICES ASSUME Types, Owners, [Next]_vars PROVE Types'
  OBVIOUS
<1> USE WorkersAssumption DEF Types, PCs, Actors, Goto, links
<1>1. CASE UNCHANGED vars
  BY <1>1 DEF vars
<1>2. ASSUME NEW t \in Threads, Accept(t) \/ AddFails(t) \/ Leave(t) PROVE Types'
  BY <1>2 DEF Accept, AddFails, Leave
<1>3. ASSUME NEW t \in Threads, add_worker(t) PROVE Types'
  BY <1>3 DEF add_worker
<1>4. ASSUME NEW t \in Threads, CleanupLock(t) \/ SearchPast(t) \/ SearchEnds(t) PROVE Types'
  BY <1>4 DEF CleanupLock, SearchPast, SearchEnds
<1>5. ASSUME NEW t \in Threads, SearchFound(t) PROVE Types'
  BY <1>5 DEF SearchFound
<1>6. ASSUME NEW t \in Threads, CloseAndFree(t) PROVE Types'
  <2>1. wtp[t] \in Addrs
    BY <1>6 DEF CloseAndFree, Owners
  <2>2. next' \in [Addrs -> Addrs \cup {NULL}] /\ prev' \in [Addrs -> Addrs \cup {NULL}]
    BY <1>6, <2>1 DEF CloseAndFree
  <2>3. QED BY <1>6, <2>1, <2>2 DEF CloseAndFree
<1>7. ASSUME KillLock \/ KillNext \/ KillEnds \/ Exit PROVE Types'
  BY <1>7 DEF KillLock, KillNext, KillEnds, Exit
<1>8. QED
  BY <1>1, <1>2, <1>3, <1>4, <1>5, <1>6, <1>7
     DEF Next, Work, client_cleanup, kill_workers, Gone

\* workerlock is taken where a walk begins and given back where it ends.
LEMMA WalkersLockStep == Types /\ WalkersLock /\ [Next]_vars => WalkersLock'
<1> SUFFICES ASSUME Types, WalkersLock, [Next]_vars PROVE WalkersLock'
  OBVIOUS
<1> USE WorkersAssumption DEF Types, WalkersLock, PCs, Actors, Goto
<1>1. CASE UNCHANGED vars
  BY <1>1 DEF vars
<1>2. ASSUME NEW t \in Threads, Accept(t) \/ AddFails(t) \/ Leave(t) \/ add_worker(t) PROVE WalkersLock'
  BY <1>2 DEF Accept, AddFails, Leave, add_worker
<1>3. ASSUME NEW t \in Threads, CleanupLock(t) PROVE WalkersLock'
  BY <1>3 DEF CleanupLock, Acquire
<1>4. ASSUME NEW t \in Threads, SearchPast(t) \/ CloseAndFree(t) PROVE WalkersLock'
  BY <1>4 DEF SearchPast, CloseAndFree
<1>5. ASSUME NEW t \in Threads, SearchFound(t) \/ SearchEnds(t) PROVE WalkersLock'
  BY <1>5 DEF SearchFound, SearchEnds, Release
<1>6. ASSUME KillLock \/ KillNext \/ KillEnds \/ Exit PROVE WalkersLock'
  BY <1>6 DEF KillLock, KillNext, KillEnds, Exit, Acquire, Release
<1>7. QED
  BY <1>1, <1>2, <1>3, <1>4, <1>5, <1>6 DEF Next, Work, client_cleanup, kill_workers, Gone

\* Entries change hands only in add_worker, which takes a free address for a
\* thread without one, and when the owner frees its entry.
LEMMA OwnersStep == Types /\ Owners /\ [Next]_vars => Owners'
<1> SUFFICES ASSUME Types, Owners, [Next]_vars PROVE Owners'
  OBVIOUS
<1> USE WorkersAssumption DEF Types, Owners, PCs, Actors, Goto
<1>1. CASE UNCHANGED vars
  BY <1>1 DEF vars
<1>2. ASSUME NEW t \in Threads, Accept(t) \/ AddFails(t) \/ Leave(t) PROVE Owners'
  BY <1>2 DEF Accept, AddFails, Leave
<1>3. ASSUME NEW t \in Threads, add_worker(t) PROVE Owners'
  BY <1>3 DEF add_worker
<1>4. ASSUME NEW t \in Threads, CleanupLock(t) \/ SearchPast(t) \/ SearchEnds(t) PROVE Owners'
  BY <1>4 DEF CleanupLock, SearchPast, SearchEnds
<1>5. ASSUME NEW t \in Threads, SearchFound(t) PROVE Owners'
  BY <1>5 DEF SearchFound
<1>6. ASSUME NEW t \in Threads, CloseAndFree(t) PROVE Owners'
  BY <1>6 DEF CloseAndFree
<1>7. ASSUME KillLock \/ KillNext \/ KillEnds \/ Exit PROVE Owners'
  BY <1>7 DEF KillLock, KillNext, KillEnds, Exit
<1>8. QED
  BY <1>1, <1>2, <1>3, <1>4, <1>5, <1>6, <1>7
     DEF Next, Work, client_cleanup, kill_workers, Gone

LEMMA ListedStep == Types /\ Owners /\ Listed /\ [Next]_vars => Listed'
<1> SUFFICES ASSUME Types, Owners, Listed, [Next]_vars PROVE Listed'
  OBVIOUS
<1> USE WorkersAssumption DEF Types, Listed, PCs, Actors, Goto
<1>1. CASE UNCHANGED vars
  BY <1>1 DEF vars
<1>2. ASSUME NEW t \in Threads, Accept(t) \/ Work(t) PROVE Listed'
  BY <1>2 DEF Accept, Work, AddFails, Leave, add_worker
<1>3. ASSUME NEW t \in Threads, client_cleanup(t) PROVE Listed'
  BY <1>3 DEF client_cleanup, CleanupLock, SearchPast, SearchEnds, SearchFound, CloseAndFree, Owners
<1>4. ASSUME kill_workers \/ Exit PROVE Listed'
  BY <1>4 DEF kill_workers, KillLock, KillNext, KillEnds, Exit
<1>5. QED
  BY <1>1, <1>2, <1>3, <1>4 DEF Next, Gone

\* While no client came with another on the list: the first and only entry is
\* added to an empty list, with workerlock free, and whoever takes it off leaves
\* the list empty.
LEMMA AloneStep == IInv /\ [Next]_vars => Alone'
<1> SUFFICES ASSUME IInv, [Next]_vars, ~crowded' PROVE (Single /\ Walks /\ KillReachesAll /\ SocketsClosed)'
  BY DEF Alone
<1> USE WorkersAssumption DEF Types, WalkersLock, PCs, Actors, Goto, links
<1>a. Types /\ WalkersLock /\ Owners /\ Listed
  BY DEF IInv
<1>b. ~crowded
  BY <1>a DEF Next, vars, Work, client_cleanup, kill_workers, Gone, Accept, AddFails, Leave,
     add_worker, CleanupLock, SearchPast, SearchEnds, SearchFound, CloseAndFree, KillLock,
     KillNext, KillEnds, Exit
<1>c. Single /\ Walks /\ KillReachesAll /\ SocketsClosed
  BY <1>b DEF IInv, Alone
<1>1. CASE UNCHANGED vars
  BY <1>1, <1>c DEF vars, Single, Walks, KillReachesAll, SocketsClosed
<1>2. ASSUME NEW t \in Threads, Accept(t) \/ AddFails(t) \/ Leave(t)
      PROVE (Single /\ Walks /\ KillReachesAll /\ SocketsClosed)'
  BY <1>2, <1>a, <1>c DEF Accept, AddFails, Leave, Single, Walks, KillReachesAll, SocketsClosed, Owners, Listed
<1>3. ASSUME NEW t \in Threads, add_worker(t)
      PROVE (Single /\ Walks /\ KillReachesAll /\ SocketsClosed)'
  <2>1. workers = NULL /\ lock = NULL /\ pc[t] = "add" /\ pc' = [pc EXCEPT ![t] = "work"]
    BY <1>3, <1>a DEF add_worker
  <2> PICK a \in Addrs : /\ tid[a] = NULL
                         /\ tid' = [tid EXCEPT ![a] = t]
                         /\ next' = [next EXCEPT ![a] = workers]
                         /\ prev' = [o \in Addrs |-> IF o = workers THEN a ELSE IF o = a THEN NULL ELSE prev[o]]
                         /\ workers' = a
    BY <1>3, <2>1 DEF add_worker
  <2>2. listed' = listed \cup {t} /\ UNCHANGED <<lock, wtp, canceled, closed>>
    BY <1>3 DEF add_worker
  <2>3. Single'
    BY <2>1, <2>2, <1>a, <1>c DEF Single, Owners, Listed
  <2>4. \A u \in Actors : pc[u] \notin {"search", "kill"} /\ pc'[u] \notin {"search", "kill"}
    BY <2>1, <1>a
  <2>5. (Walks /\ KillReachesAll)'
    BY <2>4, <2>2, <1>a DEF Walks, KillReachesAll, Listed
  <2>6. SocketsClosed'
    BY <2>1, <2>2, <1>a, <1>c DEF SocketsClosed
  <2>7. QED BY <2>3, <2>5, <2>6
<1>4. ASSUME NEW t \in Threads, CleanupLock(t)
      PROVE (Single /\ Walks /\ KillReachesAll /\ SocketsClosed)'
  BY <1>4, <1>a, <1>c DEF CleanupLock, Acquire, Single, Walks, KillReachesAll, SocketsClosed, Owners, Listed
<1>5. ASSUME NEW t \in Threads, SearchPast(t)
      PROVE (Single /\ Walks /\ KillReachesAll /\ SocketsClosed)'
  BY <1>5, <1>a, <1>c DEF SearchPast, Single, Walks, KillReachesAll, SocketsClosed, Owners, Listed
<1>6. ASSUME NEW t \in Threads, SearchEnds(t)
      PROVE (Single /\ Walks /\ KillReachesAll /\ SocketsClosed)'
  <2>1. t \notin listed
    BY <1>6, <1>c DEF SearchEnds, Walks, Single
  <2>2. /\ pc[t] = "search" /\ pc' = [pc EXCEPT ![t] = "done"]
        /\ UNCHANGED <<workers, next, prev, tid, wtp, canceled, closed, listed>>
    BY <1>6 DEF SearchEnds
  <2>3. Single'
    BY <2>1, <2>2, <1>a, <1>c DEF Single, Listed
  <2>4. Walks'
    BY <2>2, <1>a, <1>c DEF Walks
  <2>5. KillReachesAll'
    BY <2>2, <1>a, <1>c DEF KillReachesAll
  <2>6. SocketsClosed'
    BY <2>1, <2>2, <1>a, <1>c DEF SocketsClosed
  <2>7. QED BY <2>3, <2>4, <2>5, <2>6
<1>7. ASSUME NEW t \in Threads, SearchFound(t)
      PROVE (Single /\ Walks /\ KillReachesAll /\ SocketsClosed)'
  <2>1. /\ wtp[t] = workers /\ workers # NULL /\ tid[workers] = t /\ lock = t
        /\ pc[t] = "search" /\ pc' = [pc EXCEPT ![t] = "close"]
    BY <1>7, <1>a, <1>c DEF SearchFound, Walks, Release
  <2>2. workers' = NULL /\ UNCHANGED <<tid, wtp, canceled, closed, listed>>
    BY <2>1, <1>7, <1>c DEF SearchFound, Single
  <2>3. Single'
    BY <2>1, <2>2, <1>a, <1>c DEF Single
  <2>4. \A u \in Actors : pc'[u] \notin {"search", "kill"}
    BY <2>1, <1>a
  <2>5. (Walks /\ KillReachesAll)'
    BY <2>2, <2>4, <1>a DEF Walks, KillReachesAll
  <2>6. SocketsClosed'
    BY <2>1, <2>2, <1>a, <1>c DEF SocketsClosed
  <2>7. QED BY <2>3, <2>5, <2>6
<1>8. ASSUME NEW t \in Threads, CloseAndFree(t)
      PROVE (Single /\ Walks /\ KillReachesAll /\ SocketsClosed)'
  <2>1. wtp[t] \in Addrs /\ tid[wtp[t]] = t /\ wtp[t] # workers /\ pc[t] = "close"
    BY <1>8, <1>a, <1>c DEF CloseAndFree, Owners, Single
  <2>2. /\ pc' = [pc EXCEPT ![t] = "done"] /\ tid' = [tid EXCEPT ![wtp[t]] = NULL]
        /\ \A a \in Addrs \ {wtp[t]} : next'[a] = next[a] /\ prev'[a] = prev[a]
        /\ closed' = closed \cup {t} /\ UNCHANGED <<workers, lock, wtp, canceled, listed>>
    BY <1>8, <2>1, <1>a DEF CloseAndFree
  <2>3. Single'
    BY <2>1, <2>2, <1>a, <1>c DEF Single
  <2>4. (Walks /\ KillReachesAll /\ SocketsClosed)'
    BY <2>1, <2>2, <1>a, <1>c DEF Walks, KillReachesAll, SocketsClosed
  <2>5. QED BY <2>3, <2>4
<1>9. ASSUME KillLock
      PROVE (Single /\ Walks /\ KillReachesAll /\ SocketsClosed)'
  BY <1>9, <1>a, <1>c DEF KillLock, Acquire, Single, Walks, KillReachesAll, SocketsClosed, Owners, Listed
<1>10. ASSUME KillNext
      PROVE (Single /\ Walks /\ KillReachesAll /\ SocketsClosed)'
  <2>1. wtp[Sig] = workers /\ workers # NULL /\ next[workers] = NULL
    BY <1>10, <1>a, <1>c DEF KillNext, Walks, Single
  <2>2. KillReachesAll'
    BY <1>10, <2>1, <1>a, <1>c DEF KillNext, Single, KillReachesAll, Listed
  <2>3. QED
    BY <2>1, <2>2, <1>10, <1>a, <1>c DEF KillNext, Single, Walks, SocketsClosed, Owners, Listed
<1>11. ASSUME KillEnds \/ Exit
      PROVE (Single /\ Walks /\ KillReachesAll /\ SocketsClosed)'
  BY <1>11, <1>a, <1>c DEF KillEnds, Exit, Release, Single, Walks, KillReachesAll, SocketsClosed, Owners, Listed
<1>12. QED
  BY <1>1, <1>2, <1>3, <1>4, <1>5, <1>6, <1>7, <1>8, <1>9, <1>10, <1>11
     DEF Next, Work, client_cleanup, kill_workers, Gone

-----------------------------------------------------------------------------
\* The inductive invariant: who owns which entry, who holds workerlock, and the
\* shape of the list as long as clients came one at a time.
THEOREM Invariance == Spec => []IInv
<1>1. IInv /\ [Next]_vars => IInv'
  BY TypesStep, WalkersLockStep, OwnersStep, ListedStep, AloneStep DEF IInv
<1>2. QED
  BY InitInv, <1>1, PTL DEF Spec

\* Entries are handled by their owners only: client_cleanup closes and frees the
\* entry of its own thread, whatever became of the list; and while each client
\* came alone, kill_workers cancels every thread at work, no walk meets a freed
\* entry and no thread that had an entry leaves its socket open.
THEOREM EntriesAreSound == Spec => []EntriesSound
<1>1. IInv => EntriesSound
  <2> SUFFICES ASSUME IInv PROVE EntriesSound
    OBVIOUS
  <2>1. OwnEntry
    BY WorkersAssumption DEF IInv, OwnEntry, Owners, Types
  <2>2. ASSUME ~crowded PROVE KillReachesAll /\ NothingDangles /\ SocketsClosed
    BY <2>2, WorkersAssumption DEF IInv, Alone, Single, Walks, NothingDangles, Types
  <2>3. QED BY <2>1, <2>2 DEF EntriesSound, SoundWhileAlone
<1>2. QED BY <1>1, Invariance, PTL
==============================================================================
