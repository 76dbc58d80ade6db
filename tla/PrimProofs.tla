----------------------------- MODULE PrimProofs -----------------------------
(***************************************************************************)
(* Proofs about the promises of html/jquery-require-sample/r.js: they are  *)
(* kept (PromisesKept), with ticks and in a build, for any number of       *)
(* promises and of operations of the program.                              *)
(*                                                                         *)
(* The invariant speaks of promises P, tasks W by their place,             *)
(* registrations R, calls C and adoptions A rather than of the variables:  *)
(* an action changes them in several steps, and each step is a lemma.      *)
(***************************************************************************)
EXTENDS Prim, TLAPS

Values == {"", "value", "err", "nope", "prim", "none"}
Kinds == {"ok", "fail"}
Handlers == {"", "end", "none", "user", "settle"}
Ways == {"", "v", "e", "ok", "fail"}
Cbs == [h : Handlers, arg : Nat, next : Nat]
PrimRecords == [s : {"pending", "v", "e"}, x : Values, ok : Seq(Cbs), fail : Seq(Cbs)]
Tasks == [t : {"settle", "each", "call", "try", "user"}, p : Nat, how : Ways,
          i : Nat, cb : Cbs, x : Values]
\* What is to be done, by its place: the stack upwards from 1, the ticks downwards from
\* -1. What has the greater place is done first.
Work(s, t) == [l \in ((0 - Len(t)) .. Len(s)) \ {0} |-> IF l > 0 THEN s[l] ELSE t[0 - l]]
Typed(P, W, R, C, A) ==
  /\ P \in Seq(PrimRecords) /\ W \in [DOMAIN W -> Tasks] /\ DOMAIN W \subseteq Int /\ 0 \notin DOMAIN W
  /\ R \in Seq(Nat \X Kinds \X Nat) /\ C \in Seq(Kinds \X Nat) /\ A \in Seq(Nat) /\ Len(A) = Len(P)

ListOf(P, p, k) == IF k = "ok" THEN P[p].ok ELSE P[p].fail
Matches(k, s) == (k = "ok" /\ s = "v") \/ (k = "fail" /\ s = "e")
Pending(P, p) == P[p].s = "pending"
Is(R, r, p, k, n) == R[r][1] = p /\ R[r][2] = k /\ R[r][3] = n
Given(R, p, k, n) == \E r \in 1 .. Len(R) : Is(R, r, p, k, n)
CalledBack(C, n) == \E c \in 1 .. Len(C) : C[c][2] = n
\* There is a task for promise n: to settle it, to catch an error for it, or a function
\* that decides it.
IsTask(W, t, n) == \E l \in DOMAIN W : W[l].t = t /\ (IF t = "user" THEN W[l].cb.next ELSE W[l].p) = n
\* The callbacks that a task will still call: its own, or those of a list from a position on.
Due(P, W, l) ==
  IF W[l].t = "call" THEN {0}
  ELSE IF W[l].t = "each" THEN W[l].i .. Len(ListOf(P, W[l].p, W[l].how)) ELSE {}
DueCb(P, W, l, j) == IF W[l].t = "call" THEN W[l].cb ELSE ListOf(P, W[l].p, W[l].how)[j]

\* A then is registered for an earlier promise, once for each kind; end only for errors.
RegsOK(P, R) ==
  /\ \A r \in 1 .. Len(R) : /\ R[r][1] \in 1 .. Len(P)
                            /\ R[r][3] # 0 => R[r][3] \in 1 .. Len(P) /\ R[r][1] < R[r][3] /\ R[r][3] > 2
                            /\ R[r][3] = 0 => R[r][2] = "fail"
  /\ \A r1, r2 \in 1 .. Len(R) : R[r1][3] = R[r2][3] /\ R[r1][3] # 0 =>
       R[r1][1] = R[r2][1] /\ (R[r1][2] = R[r2][2] => r1 = r2)
CbOK(cb, k) ==
  /\ cb.h \in {"end", "none", "user", "settle"} /\ (cb.next = 0 <=> cb.h = "end") /\ (cb.arg = 0 <=> cb.h # "settle")
  /\ cb.next = 0 => k = "fail"
\* Lists hold what was registered, in that order, and all of it while a promise is pending.
SlotsOK(P, R) ==
  \A p \in 1 .. Len(P), k \in Kinds :
    /\ \A j \in 1 .. Len(ListOf(P, p, k)) : CbOK(ListOf(P, p, k)[j], k) /\ Given(R, p, k, ListOf(P, p, k)[j].next)
    /\ \A j1, j2 \in 1 .. Len(ListOf(P, p, k)), r1, r2 \in 1 .. Len(R) :
         j1 < j2 /\ Is(R, r1, p, k, ListOf(P, p, k)[j1].next) /\ Is(R, r2, p, k, ListOf(P, p, k)[j2].next)
           /\ R[r1][3] # 0 /\ R[r2][3] # 0 => r1 < r2
Listed(P, R) ==
  \A r \in 1 .. Len(R) : R[r][3] # 0 /\ Pending(P, R[r][1]) =>
    \E j \in 1 .. Len(ListOf(P, R[r][1], R[r][2])) : ListOf(P, R[r][1], R[r][2])[j].next = R[r][3]

\* A task of a promise that is settled carries its value; a function runs in its try.
TaskOK(P, W, R, l) ==
  /\ l < 0 => W[l].t \in {"each", "call"}
  /\ W[l].t \in {"settle", "each", "try"} => W[l].p \in 1 .. Len(P)
  /\ W[l].t = "settle" => W[l].how \in {"v", "e"}
  /\ W[l].t \in {"each", "call"} => W[l].how \in Kinds
  /\ W[l].t = "each" => W[l].i > 0 /\ Matches(W[l].how, P[W[l].p].s) /\ W[l].x = P[W[l].p].x
  /\ W[l].t = "call" => CbOK(W[l].cb, W[l].how)
  /\ W[l].t = "call" /\ W[l].cb.next # 0 => \E p \in 1 .. Len(P) :
        Given(R, p, W[l].how, W[l].cb.next) /\ Matches(W[l].how, P[p].s) /\ W[l].x = P[p].x
  /\ W[l].t = "user" => /\ W[l].cb.next \in 1 .. Len(P)
                        /\ l > 1 /\ l - 1 \in DOMAIN W /\ W[l - 1].t = "try" /\ W[l - 1].p = W[l].cb.next
TasksOK(P, W, R) == \A l \in DOMAIN W : TaskOK(P, W, R, l)
\* A promise is notified once, and a then has one callback to come at most and none after
\* its function was called.
EachOnce(W) == \A l1, l2 \in DOMAIN W : W[l1].t = "each" /\ W[l2].t = "each" /\ W[l1].p = W[l2].p => l1 = l2
DueOnce(P, W) == \A l1, l2 \in DOMAIN W : \A j1 \in Due(P, W, l1), j2 \in Due(P, W, l2) :
  DueCb(P, W, l1, j1).next = DueCb(P, W, l2, j2).next /\ DueCb(P, W, l1, j1).next # 0 => l1 = l2 /\ j1 = j2
NotDue(P, W, n) == \A l \in DOMAIN W : \A j \in Due(P, W, l) : DueCb(P, W, l, j).next # n
CalledOnce(P, W, R, C) ==
  /\ \A c1, c2 \in 1 .. Len(C) : C[c1][2] = C[c2][2] => c1 = c2
  /\ \A c \in 1 .. Len(C) :
       /\ C[c][2] # 0 /\ NotDue(P, W, C[c][2])
       /\ \E p \in 1 .. Len(P) : Given(R, p, C[c][1], C[c][2]) /\ Matches(C[c][1], P[p].s)

\* Nothing has happened to a promise while the callback that decides it is to come.
NoArg(P, W, n) ==
  /\ \A p \in 1 .. Len(P), k \in Kinds : \A j \in 1 .. Len(ListOf(P, p, k)) : ListOf(P, p, k)[j].arg # n
  /\ \A l \in DOMAIN W : W[l].t = "call" => W[l].cb.arg # n
Untouched(P, W, A, n) ==
  /\ Pending(P, n) /\ A[n] = 0 /\ NoArg(P, W, n)
  /\ ~IsTask(W, "settle", n) /\ ~IsTask(W, "try", n) /\ ~IsTask(W, "user", n)
WaitingOK(P, W, A) ==
  /\ \A l \in DOMAIN W : \A j \in Due(P, W, l) :
       DueCb(P, W, l, j).next # 0 => Untouched(P, W, A, DueCb(P, W, l, j).next)
  /\ \A p \in 1 .. Len(P), k \in Kinds : \A j \in 1 .. Len(ListOf(P, p, k)) :
       Pending(P, p) /\ ListOf(P, p, k)[j].next # 0 => Untouched(P, W, A, ListOf(P, p, k)[j].next)
UserOK(P, W, C, A) ==
  \A l \in DOMAIN W : W[l].t = "user" =>
     /\ Pending(P, W[l].cb.next) /\ A[W[l].cb.next] = 0 /\ NoArg(P, W, W[l].cb.next)
     /\ ~IsTask(W, "settle", W[l].cb.next) /\ CalledBack(C, W[l].cb.next)
     /\ \A m \in DOMAIN W : W[m].t = "user" /\ W[m].cb.next = W[l].cb.next => m = l
\* What adopts a promise is settled as that promise is, by a callback of its own.
Agrees(P, how, x, q) == ~Pending(P, q) /\ how = P[q].s /\ x = P[q].x
AdoptOK(P, W, C, A) ==
  \A n \in 1 .. Len(P) : A[n] # 0 =>
     /\ A[n] \in 1 .. Len(P) /\ n > 2 /\ CalledBack(C, n) /\ ~IsTask(W, "user", n)
     /\ Pending(P, n) \/ Agrees(P, P[n].s, P[n].x, A[n])
     /\ \A l \in DOMAIN W : W[l].t = "settle" /\ W[l].p = n => ~Pending(P, n) \/ Agrees(P, W[l].how, W[l].x, A[n])
Unsettled(P, W, n) == Pending(P, n) /\ ~IsTask(W, "settle", n)
ArgOK(P, W, R, A) ==
  /\ \A p \in 1 .. Len(P), k \in Kinds : \A j \in 1 .. Len(ListOf(P, p, k)) : ListOf(P, p, k)[j].arg # 0 =>
       /\ ListOf(P, p, k)[j].arg \in 1 .. Len(P) /\ A[ListOf(P, p, k)[j].arg] = p
       /\ Pending(P, p) => Unsettled(P, W, ListOf(P, p, k)[j].arg)
  /\ \A l \in DOMAIN W : W[l].t = "call" /\ W[l].cb.arg # 0 =>
       W[l].cb.arg \in 1 .. Len(P) /\ Given(R, A[W[l].cb.arg], W[l].how, W[l].cb.next)
  /\ \A l \in DOMAIN W : \A j \in Due(P, W, l) : DueCb(P, W, l, j).arg # 0 => Unsettled(P, W, DueCb(P, W, l, j).arg)
\* All callbacks that settle n belong to one then, m.
Belong(P, W, n, m) ==
  /\ \A p \in 1 .. Len(P), k \in Kinds : \A j \in 1 .. Len(ListOf(P, p, k)) :
       ListOf(P, p, k)[j].arg = n => ListOf(P, p, k)[j].next = m
  /\ \A l \in DOMAIN W : W[l].t = "call" /\ W[l].cb.arg = n => W[l].cb.next = m
ArgOnce(P, W) == \A n \in 1 .. Len(P) : \E m \in Nat : Belong(P, W, n, m)
Sane(P, W, R, C, A) ==
  /\ Typed(P, W, R, C, A) /\ RegsOK(P, R) /\ SlotsOK(P, R) /\ Listed(P, R) /\ TasksOK(P, W, R)
  /\ EachOnce(W) /\ DueOnce(P, W) /\ CalledOnce(P, W, R, C) /\ WaitingOK(P, W, A) /\ UserOK(P, W, C, A)
  /\ AdoptOK(P, W, C, A) /\ ArgOK(P, W, R, A) /\ ArgOnce(P, W)

\* With ticks, callbacks of one promise come in the order of their registration.
SamePlace(R, r1, r2) == R[r1][1] = R[r2][1] /\ R[r1][2] = R[r2][2]
DueOrder(P, W, R) ==
  \A l1, l2 \in DOMAIN W : \A j1 \in Due(P, W, l1), j2 \in Due(P, W, l2), r1, r2 \in 1 .. Len(R) :
     /\ R[r1][3] # 0 /\ R[r2][3] # 0 /\ SamePlace(R, r1, r2) /\ r1 < r2
     /\ R[r1][2] = W[l1].how /\ R[r1][3] = DueCb(P, W, l1, j1).next
     /\ R[r2][2] = W[l2].how /\ R[r2][3] = DueCb(P, W, l2, j2).next
     => l1 > l2 \/ (l1 = l2 /\ j1 < j2)
CallOrder(P, W, R, C) ==
  /\ \A c \in 1 .. Len(C), l \in DOMAIN W : \A j \in Due(P, W, l), r1, r2 \in 1 .. Len(R) :
       /\ R[r1][2] = W[l].how /\ R[r1][3] = DueCb(P, W, l, j).next /\ R[r1][3] # 0
       /\ R[r2][2] = C[c][1] /\ R[r2][3] = C[c][2] /\ SamePlace(R, r1, r2)
       => r2 < r1
  /\ \A c1, c2 \in 1 .. Len(C), r1, r2 \in 1 .. Len(R) :
       /\ c1 < c2 /\ R[r1][2] = C[c1][1] /\ R[r1][3] = C[c1][2] /\ R[r2][2] = C[c2][1] /\ R[r2][3] = C[c2][2]
       /\ SamePlace(R, r1, r2)
       => r1 < r2
\* Only a notification has callbacks above it.
Shallow(W) == \A l \in DOMAIN W : l > 0 => 
  /\ W[l].t = "each" => l = 1
  /\ W[l].t = "call" => \A m \in DOMAIN W : 0 < m /\ m < l => W[m].t = "each"
Ordered(P, W, R, C) == DueOrder(P, W, R) /\ CallOrder(P, W, R, C) /\ Shallow(W)

-----------------------------------------------------------------------------
(* Steps that an action is made of.                                        *)

\* A task that is the same has the same callbacks to make, if the promises are the same.
LEMMA SameTask ==
  ASSUME NEW P, NEW V, NEW W, NEW l, V[l] = W[l]
  PROVE  Due(P, V, l) = Due(P, W, l) /\ \A j : DueCb(P, V, l, j) = DueCb(P, W, l, j)
BY DEF Due, DueCb

\* What is registered for a then says which promise it is a then of.
LEMMA Registered ==
  ASSUME NEW P, NEW R, RegsOK(P, R)
  PROVE  \A p, k, n : Given(R, p, k, n) /\ n # 0 =>
           /\ p \in 1 .. Len(P) /\ n \in 1 .. Len(P) /\ n > 2 /\ p # n
           /\ \A r \in 1 .. Len(R) : R[r][3] = n => R[r][1] = p
           /\ \A q, e : Given(R, q, e, n) => q = p
<1> SUFFICES ASSUME NEW p, NEW k, NEW n, Given(R, p, k, n), n # 0
             PROVE  /\ p \in 1 .. Len(P) /\ n \in 1 .. Len(P) /\ n > 2 /\ p # n
                    /\ \A r \in 1 .. Len(R) : R[r][3] = n => R[r][1] = p
                    /\ \A q, e : Given(R, q, e, n) => q = p
  OBVIOUS
<1>1. PICK r \in 1 .. Len(R) : R[r][1] = p /\ R[r][2] = k /\ R[r][3] = n
  BY DEF Given, Is
<1>2. p \in 1 .. Len(P) /\ n \in 1 .. Len(P) /\ n > 2 /\ p # n
  BY <1>1 DEF RegsOK
<1>3. \A s \in 1 .. Len(R) : R[s][3] = n => R[s][1] = p
  BY <1>1 DEF RegsOK
<1>4. \A q, e : Given(R, q, e, n) => q = p
  BY <1>3 DEF Given, Is
<1> QED BY <1>2, <1>3, <1>4

\* What is due comes from a task or from a list.
LEMMA DueIs ==
  ASSUME NEW P, NEW W, NEW R, NEW C, NEW A, Sane(P, W, R, C, A), NEW l \in DOMAIN W, NEW j \in Due(P, W, l)
  PROVE  /\ W[l].how \in Kinds
         /\ \/ W[l].t = "call" /\ j = 0 /\ DueCb(P, W, l, j) = W[l].cb
            \/ /\ W[l].t = "each" /\ W[l].p \in 1 .. Len(P) /\ j \in 1 .. Len(ListOf(P, W[l].p, W[l].how)) /\ j >= W[l].i
               /\ DueCb(P, W, l, j) = ListOf(P, W[l].p, W[l].how)[j] /\ Matches(W[l].how, P[W[l].p].s)
<1>1. TaskOK(P, W, R, l) /\ W[l].i \in Nat
  BY DEF Sane, TasksOK, Typed, Tasks
<1>2. CASE W[l].t = "call"
  BY <1>1, <1>2 DEF Due, DueCb, TaskOK
<1>3. CASE W[l].t = "each"
  BY <1>1, <1>3 DEF Due, DueCb, TaskOK
<1>4. CASE W[l].t # "call" /\ W[l].t # "each"
  BY <1>4 DEF Due
<1> QED BY <1>2, <1>3, <1>4

\* A callback that is due is one that was registered for a promise that is settled.
LEMMA DueGiven ==
  ASSUME NEW P, NEW W, NEW R, NEW C, NEW A, Sane(P, W, R, C, A), NEW l \in DOMAIN W, NEW j \in Due(P, W, l)
  PROVE  /\ CbOK(DueCb(P, W, l, j), W[l].how)
         /\ DueCb(P, W, l, j).next # 0 =>
              /\ DueCb(P, W, l, j).next \in 1 .. Len(P) /\ DueCb(P, W, l, j).next > 2
              /\ \E p \in 1 .. Len(P) : Given(R, p, W[l].how, DueCb(P, W, l, j).next) /\ Matches(W[l].how, P[p].s)
         /\ DueCb(P, W, l, j).arg # 0 =>
              /\ DueCb(P, W, l, j).arg \in 1 .. Len(P)
              /\ Given(R, A[DueCb(P, W, l, j).arg], W[l].how, DueCb(P, W, l, j).next)
<1> USE DEF Sane
<1>1. TaskOK(P, W, R, l)
  BY DEF TasksOK
<1>2. CASE W[l].t = "call" /\ DueCb(P, W, l, j) = W[l].cb
  BY <1>1, <1>2, Registered DEF TaskOK, ArgOK
<1>3. CASE /\ W[l].t = "each" /\ W[l].p \in 1 .. Len(P) /\ j \in 1 .. Len(ListOf(P, W[l].p, W[l].how)) /\ W[l].how \in Kinds
           /\ DueCb(P, W, l, j) = ListOf(P, W[l].p, W[l].how)[j] /\ Matches(W[l].how, P[W[l].p].s)
  BY <1>3, Registered DEF SlotsOK, ArgOK
<1> QED BY <1>2, <1>3, DueIs

\* A task is done, or a notification goes on to its next callback.
LEMMA Less ==
  ASSUME NEW P, NEW V, NEW W, NEW R, NEW C, NEW A, Sane(P, W, R, C, A),
         V \in [DOMAIN V -> Tasks], DOMAIN V \subseteq DOMAIN W,
         \A l \in DOMAIN V : /\ V[l].t = W[l].t /\ V[l].p = W[l].p /\ V[l].how = W[l].how /\ V[l].cb = W[l].cb
                            /\ V[l].x = W[l].x /\ V[l].i >= W[l].i,
         \A l \in DOMAIN V : V[l].t = "user" => l - 1 \in DOMAIN V
  PROVE  Sane(P, V, R, C, A) /\ (Ordered(P, W, R, C) => Ordered(P, V, R, C))
<1> USE DEF Sane
<1>1. \A l \in DOMAIN V : /\ W[l] \in Tasks /\ V[l] \in Tasks /\ V[l].t = W[l].t /\ V[l].p = W[l].p /\ V[l].how = W[l].how
                          /\ V[l].cb = W[l].cb /\ V[l].x = W[l].x /\ V[l].i \in Nat /\ W[l].i \in Nat /\ V[l].i >= W[l].i
                          /\ l \in DOMAIN W /\ l \in Int
  BY DEF Typed, Tasks
<1>2. \A l \in DOMAIN V : Due(P, V, l) \subseteq Due(P, W, l) /\ \A j : DueCb(P, V, l, j) = DueCb(P, W, l, j)
  BY <1>1 DEF Due, DueCb
<1>3. \A t, n : IsTask(V, t, n) => IsTask(W, t, n)
  BY <1>1 DEF IsTask
<1>4. \A n : NoArg(P, W, n) => NoArg(P, V, n)
  BY <1>1 DEF NoArg
<1>5. \A n : Untouched(P, W, A, n) => Untouched(P, V, A, n)
  BY <1>3, <1>4 DEF Untouched
<1>6. \A n : NotDue(P, W, n) => NotDue(P, V, n)
  BY <1>1, <1>2 DEF NotDue
<1>7. Typed(P, V, R, C, A)
  BY <1>1 DEF Typed
<1>8. TasksOK(P, V, R)
  <2> SUFFICES ASSUME NEW l \in DOMAIN V PROVE TaskOK(P, V, R, l)
    BY DEF TasksOK
  <2>1. TaskOK(P, W, R, l)
    BY <1>1 DEF TasksOK
  <2> QED BY <2>1, <1>1 DEF TaskOK
<1>9. EachOnce(V) /\ DueOnce(P, V)
  <2>1. EachOnce(V)
    BY <1>1 DEF EachOnce
  <2>2. DueOnce(P, V)
    BY <1>1, <1>2 DEF DueOnce
  <2> QED BY <2>1, <2>2
<1>10. CalledOnce(P, V, R, C)
  BY <1>6 DEF CalledOnce
<1>11. WaitingOK(P, V, A)
  BY <1>1, <1>2, <1>5 DEF WaitingOK
<1>12. UserOK(P, V, C, A)
  BY <1>1, <1>3, <1>4 DEF UserOK
<1>13. AdoptOK(P, V, C, A)
  BY <1>1, <1>3 DEF AdoptOK
<1>14. \A n : Unsettled(P, W, n) => Unsettled(P, V, n)
  BY <1>3 DEF Unsettled
<1>15. ArgOK(P, V, R, A)
  BY <1>1, <1>2, <1>14 DEF ArgOK
<1>16. ArgOnce(P, V)
  BY <1>1 DEF ArgOnce, Belong
<1>17. ASSUME Ordered(P, W, R, C) PROVE Ordered(P, V, R, C)
  <2>1. DueOrder(P, V, R)
    BY <1>1, <1>2, <1>17 DEF DueOrder, Ordered
  <2>2. CallOrder(P, V, R, C)
    BY <1>1, <1>2, <1>17 DEF CallOrder, Ordered
  <2>3. Shallow(V)
    BY <1>1, <1>17 DEF Shallow, Ordered
  <2> QED BY <2>1, <2>2, <2>3 DEF Ordered
<1> QED BY <1>7, <1>8, <1>9, <1>10, <1>11, <1>12, <1>13, <1>15, <1>16, <1>17

\* No callback is to come that decides n, or that settles it for another promise.
NotWaiting(P, W, n) ==
  /\ NotDue(P, W, n)
  /\ \A p \in 1 .. Len(P), k \in Kinds : \A j \in 1 .. Len(ListOf(P, p, k)) : Pending(P, p) => ListOf(P, p, k)[j].next # n
NotArgued(P, W, n) ==
  /\ \A l \in DOMAIN W : \A j \in Due(P, W, l) : DueCb(P, W, l, j).arg # n
  /\ \A p \in 1 .. Len(P), k \in Kinds : \A j \in 1 .. Len(ListOf(P, p, k)) : Pending(P, p) => ListOf(P, p, k)[j].arg # n
Added(V, W, a) ==
  /\ a \in Int /\ a # 0 /\ a \notin DOMAIN W /\ DOMAIN V = DOMAIN W \cup {a} /\ V \in [DOMAIN V -> Tasks]
  /\ \A l \in DOMAIN W : V[l] = W[l]

\* A task above all that has no callbacks to call.
LEMMA AddQuiet ==
  ASSUME NEW P, NEW V, NEW W, NEW R, NEW C, NEW A, NEW a, NEW n \in 1 .. Len(P), Sane(P, W, R, C, A), Added(V, W, a),
         a > 0, \A l \in DOMAIN W : l < a,
         V[a].t \in {"settle", "try", "user"}, n = IF V[a].t = "user" THEN V[a].cb.next ELSE V[a].p,
         NotWaiting(P, W, n),
         V[a].t = "settle" => /\ V[a].how \in {"v", "e"} /\ ~IsTask(W, "user", n) /\ NotArgued(P, W, n)
                              /\ A[n] # 0 => ~Pending(P, n) \/ Agrees(P, V[a].how, V[a].x, A[n]),
         V[a].t = "user" => /\ a > 1 /\ a - 1 \in DOMAIN W /\ W[a - 1].t = "try" /\ W[a - 1].p = n
                            /\ Pending(P, n) /\ A[n] = 0 /\ NoArg(P, W, n) /\ CalledBack(C, n)
                            /\ ~IsTask(W, "settle", n) /\ ~IsTask(W, "user", n)
  PROVE  Sane(P, V, R, C, A) /\ (Ordered(P, W, R, C) => Ordered(P, V, R, C))
<1> USE DEF Sane
<1>1. /\ \A l \in DOMAIN V : l = a \/ (l \in DOMAIN W /\ V[l] = W[l] /\ l \in Int)
      /\ \A l \in DOMAIN W : l \in DOMAIN V /\ V[l] = W[l]
      /\ a \in DOMAIN V /\ a \notin DOMAIN W /\ a \in Int
  BY DEF Added, Typed
<1>2. /\ \A l \in DOMAIN W : Due(P, V, l) = Due(P, W, l) /\ \A j : DueCb(P, V, l, j) = DueCb(P, W, l, j)
      /\ Due(P, V, a) = {}
  BY <1>1, SameTask DEF Due
<1>3. \A t, m : IsTask(V, t, m) <=> IsTask(W, t, m) \/ (t = V[a].t /\ m = n)
  BY <1>1 DEF IsTask
<1>4. \A m : NoArg(P, W, m) => NoArg(P, V, m)
  BY <1>1 DEF NoArg
<1>5. \A m : Untouched(P, W, A, m) /\ m # n => Untouched(P, V, A, m)
  BY <1>3, <1>4 DEF Untouched
<1>6. \A m : NotDue(P, W, m) => NotDue(P, V, m)
  BY <1>1, <1>2 DEF NotDue
<1>7. Typed(P, V, R, C, A)
  BY DEF Typed, Added
<1>8. TasksOK(P, V, R)
  <2> SUFFICES ASSUME NEW l \in DOMAIN V PROVE TaskOK(P, V, R, l)
    BY DEF TasksOK
  <2>1. CASE l \in DOMAIN W
    <3>1. TaskOK(P, W, R, l) /\ V[l] = W[l] /\ l \in Int
      BY <1>1, <2>1 DEF TasksOK
    <3>2. l - 1 \in DOMAIN W => V[l - 1] = W[l - 1] /\ l - 1 \in DOMAIN V
      BY <1>1
    <3> QED BY <3>1, <3>2 DEF TaskOK
  <2>2. CASE l = a
    BY <1>1, <2>2 DEF TaskOK
  <2> QED BY <1>1, <2>1, <2>2
<1>9. EachOnce(V)
  BY <1>1 DEF EachOnce
<1>10. DueOnce(P, V)
  BY <1>1, <1>2 DEF DueOnce
<1>11. CalledOnce(P, V, R, C)
  BY <1>6 DEF CalledOnce
<1>12. WaitingOK(P, V, A)
  BY <1>1, <1>2, <1>5 DEF WaitingOK, NotWaiting, NotDue
<1>13. UserOK(P, V, C, A)
  BY <1>1, <1>3, <1>4 DEF UserOK, IsTask
<1>14. AdoptOK(P, V, C, A)
  BY <1>1, <1>3 DEF AdoptOK
<1>15. \A m : Unsettled(P, W, m) /\ (m # n \/ V[a].t # "settle") => Unsettled(P, V, m)
  BY <1>3 DEF Unsettled
<1>16. ArgOK(P, V, R, A)
  BY <1>1, <1>2, <1>15 DEF ArgOK, NotArgued
<1>17. ArgOnce(P, V)
  <2>1. \A m, e : Belong(P, W, m, e) => Belong(P, V, m, e)
    BY <1>1 DEF Belong
  <2> QED BY <2>1 DEF ArgOnce
<1>18. ASSUME Ordered(P, W, R, C) PROVE Ordered(P, V, R, C)
  <2>1. DueOrder(P, V, R)
    <3>1. DueOrder(P, W, R)
      BY <1>18 DEF Ordered
    <3>2. \A l \in DOMAIN V : \A j \in Due(P, V, l) :
            l \in DOMAIN W /\ V[l] = W[l] /\ j \in Due(P, W, l) /\ DueCb(P, V, l, j) = DueCb(P, W, l, j)
      BY <1>1, <1>2
    <3> QED BY <3>1, <3>2 DEF DueOrder
  <2>2. CallOrder(P, V, R, C)
    <3>1. \A l \in DOMAIN V : \A j \in Due(P, V, l) :
            l \in DOMAIN W /\ j \in Due(P, W, l) /\ DueCb(P, V, l, j) = DueCb(P, W, l, j) /\ V[l].how = W[l].how
      BY <1>1, <1>2
    <3> QED BY <3>1, <1>18 DEF CallOrder, Ordered
  <2>3. Shallow(V)
    <3>1. \A l, m \in DOMAIN V : V[l].t = "call" /\ m < l => l \in DOMAIN W /\ m \in DOMAIN W
      BY <1>1
    <3> QED BY <3>1, <1>1, <1>18 DEF Shallow, Ordered
  <2> QED BY <2>1, <2>2, <2>3 DEF Ordered
<1> QED BY <1>7, <1>8, <1>9, <1>10, <1>11, <1>12, <1>13, <1>14, <1>16, <1>17, <1>18

\* A callback for n of the given kind at place a comes in order.
InPlace(P, W, R, C, a, k, n) ==
  /\ \A l \in DOMAIN W : \A j \in Due(P, W, l), r1, r2 \in 1 .. Len(R) :
       /\ n # 0 /\ R[r1][3] # 0 /\ SamePlace(R, r1, r2) /\ R[r1][2] = W[l].how /\ R[r1][3] = DueCb(P, W, l, j).next
       /\ R[r2][2] = k /\ R[r2][3] = n
       => (r1 < r2 => l > a) /\ (r2 < r1 => a > l)
  /\ \A c \in 1 .. Len(C), r1, r2 \in 1 .. Len(R) :
       n # 0 /\ R[r1][2] = C[c][1] /\ R[r1][3] = C[c][2] /\ R[r2][2] = k /\ R[r2][3] = n /\ SamePlace(R, r1, r2) => r1 < r2

\* A callback is to be called, next or after all else.
LEMMA AddCall ==
  ASSUME NEW P, NEW V, NEW W, NEW R, NEW C, NEW A, NEW a, Sane(P, W, R, C, A), Added(V, W, a),
         (a > 0 /\ \A l \in DOMAIN W : l < a) \/ (a < 0 /\ \A l \in DOMAIN W : a < l),
         V[a].t = "call", V[a].how \in Kinds, CbOK(V[a].cb, V[a].how),
         V[a].cb.next # 0 => /\ NotDue(P, W, V[a].cb.next) /\ ~CalledBack(C, V[a].cb.next) /\ Untouched(P, W, A, V[a].cb.next)
                             /\ \E p \in 1 .. Len(P) : /\ Given(R, p, V[a].how, V[a].cb.next)
                                                       /\ Matches(V[a].how, P[p].s) /\ V[a].x = P[p].x,
         V[a].cb.arg # 0 => /\ V[a].cb.arg \in 1 .. Len(P) /\ A[V[a].cb.arg] # 0
                            /\ Given(R, A[V[a].cb.arg], V[a].how, V[a].cb.next)
                            /\ Unsettled(P, W, V[a].cb.arg) /\ Belong(P, W, V[a].cb.arg, V[a].cb.next)
  PROVE  /\ Sane(P, V, R, C, A)
         /\ Ordered(P, W, R, C) /\ InPlace(P, W, R, C, a, V[a].how, V[a].cb.next)
              /\ (\A m \in DOMAIN W : a > 0 /\ m > 0 => W[m].t = "each") => Ordered(P, V, R, C)
<1> USE DEF Sane
<1>0. V[a] \in Tasks /\ V[a].cb \in Cbs /\ V[a].cb.next \in Nat /\ V[a].cb.arg \in Nat
  BY DEF Added, Tasks, Cbs
<1>1. /\ \A l \in DOMAIN V : l = a \/ (l \in DOMAIN W /\ V[l] = W[l] /\ l \in Int)
      /\ \A l \in DOMAIN W : l \in DOMAIN V /\ V[l] = W[l]
      /\ a \in DOMAIN V /\ a \notin DOMAIN W /\ a \in Int
  BY DEF Added, Typed
<1>2. /\ \A l \in DOMAIN W : Due(P, V, l) = Due(P, W, l) /\ \A j : DueCb(P, V, l, j) = DueCb(P, W, l, j)
      /\ Due(P, V, a) = {0} /\ \A j : DueCb(P, V, a, j) = V[a].cb
  BY <1>1, SameTask DEF Due, DueCb
<1>3. \A t, m : t # "call" => (IsTask(V, t, m) <=> IsTask(W, t, m))
  BY <1>1 DEF IsTask
<1>4. \A m : NoArg(P, W, m) /\ m # V[a].cb.arg => NoArg(P, V, m)
  BY <1>1 DEF NoArg
<1>5. \A m : m # 0 /\ Untouched(P, W, A, m) => Untouched(P, V, A, m)
  <2> SUFFICES ASSUME NEW m, m # 0, Untouched(P, W, A, m) PROVE Untouched(P, V, A, m)
    OBVIOUS
  <2>1. m # V[a].cb.arg
    BY DEF Untouched
  <2>2. NoArg(P, V, m)
    BY <2>1, <1>4 DEF Untouched
  <2> QED BY <2>2, <1>3 DEF Untouched
<1>6. \A m : NotDue(P, W, m) /\ m # V[a].cb.next => NotDue(P, V, m)
  BY <1>1, <1>2 DEF NotDue
<1>7. Typed(P, V, R, C, A)
  BY DEF Typed, Added
<1>8. TasksOK(P, V, R)
  <2> SUFFICES ASSUME NEW l \in DOMAIN V PROVE TaskOK(P, V, R, l)
    BY DEF TasksOK
  <2>1. CASE l \in DOMAIN W
    <3>1. TaskOK(P, W, R, l) /\ V[l] = W[l] /\ l \in Int
      BY <1>1, <2>1 DEF TasksOK
    <3>2. l - 1 \in DOMAIN W => V[l - 1] = W[l - 1] /\ l - 1 \in DOMAIN V
      BY <1>1
    <3> QED BY <3>1, <3>2 DEF TaskOK
  <2>2. CASE l = a
    BY <1>1, <2>2 DEF TaskOK
  <2> QED BY <1>1, <2>1, <2>2
<1>9. EachOnce(V)
  BY <1>1 DEF EachOnce
<1>10. DueOnce(P, V)
  BY <1>0, <1>1, <1>2 DEF DueOnce, NotDue
<1>11. CalledOnce(P, V, R, C)
  BY <1>6 DEF CalledOnce, CalledBack
<1>12. WaitingOK(P, V, A)
  BY <1>1, <1>2, <1>5 DEF WaitingOK
<1>13. UserOK(P, V, C, A)
  BY <1>1, <1>3, <1>4 DEF UserOK, TasksOK, TaskOK
<1>14. AdoptOK(P, V, C, A)
  BY <1>1, <1>3 DEF AdoptOK
<1>15. \A m : Unsettled(P, W, m) => Unsettled(P, V, m)
  BY <1>3 DEF Unsettled
<1>16. ArgOK(P, V, R, A)
  BY <1>1, <1>2, <1>15 DEF ArgOK
<1>17. ArgOnce(P, V)
  <2> SUFFICES ASSUME NEW n \in 1 .. Len(P) PROVE \E m \in Nat : Belong(P, V, n, m)
    BY DEF ArgOnce, Belong
  <2>1. CASE n = V[a].cb.arg
    <3>1. Belong(P, V, n, V[a].cb.next)
      BY <2>1, <1>1 DEF Belong
    <3> QED BY <3>1, <1>0
  <2>2. CASE n # V[a].cb.arg
    <3>1. PICK m \in Nat : Belong(P, W, n, m)
      BY DEF ArgOnce, Belong
    <3>2. Belong(P, V, n, m)
      BY <2>2, <3>1, <1>1 DEF Belong
    <3> QED BY <3>2
  <2> QED BY <2>1, <2>2
<1>18. ASSUME Ordered(P, W, R, C), InPlace(P, W, R, C, a, V[a].how, V[a].cb.next), \A m \in DOMAIN W : a > 0 /\ m > 0 => W[m].t = "each"
       PROVE  Ordered(P, V, R, C)
  <2>1. DueOrder(P, V, R)
    <3> SUFFICES ASSUME NEW l1 \in DOMAIN V, NEW l2 \in DOMAIN V, NEW j1 \in Due(P, V, l1), NEW j2 \in Due(P, V, l2),
                        NEW r1 \in 1 .. Len(R), NEW r2 \in 1 .. Len(R), R[r1][3] # 0, R[r2][3] # 0, SamePlace(R, r1, r2), r1 < r2,
                        R[r1][2] = V[l1].how, R[r1][3] = DueCb(P, V, l1, j1).next,
                        R[r2][2] = V[l2].how, R[r2][3] = DueCb(P, V, l2, j2).next
                 PROVE  l1 > l2 \/ (l1 = l2 /\ j1 < j2)
      BY DEF DueOrder
    <3>1. CASE l1 # a /\ l2 # a
      BY <3>1, <1>1, <1>2, <1>18 DEF DueOrder, Ordered
    <3>2. CASE l1 = a /\ l2 = a
      <4>1. R[r1][3] = R[r2][3] /\ r1 # r2
        BY <3>2, <1>2
      <4> QED BY <4>1 DEF RegsOK, SamePlace
    <3>3. CASE l1 = a /\ l2 # a
      <4>1. SamePlace(R, r2, r1)
        BY DEF SamePlace
      <4> QED BY <3>3, <4>1, <1>1, <1>2, <1>18 DEF InPlace
    <3>4. CASE l1 # a /\ l2 = a
      BY <3>4, <1>1, <1>2, <1>18 DEF InPlace
    <3> QED BY <3>1, <3>2, <3>3, <3>4
  <2>2. CallOrder(P, V, R, C)
    <3>1. \A c \in 1 .. Len(C), r1, r2 \in 1 .. Len(R) :
       V[a].cb.next # 0 /\ R[r1][2] = V[a].how /\ R[r1][3] = V[a].cb.next /\ R[r2][2] = C[c][1] /\ R[r2][3] = C[c][2] /\ SamePlace(R, r1, r2) => r2 < r1
      BY <1>18 DEF InPlace, SamePlace
    <3>2. CallOrder(P, W, R, C)
      BY <1>18 DEF Ordered
    <3>3. ASSUME NEW c \in 1 .. Len(C), NEW l \in DOMAIN V, NEW j \in Due(P, V, l), NEW r1 \in 1 .. Len(R), NEW r2 \in 1 .. Len(R),
                 R[r1][2] = V[l].how, R[r1][3] = DueCb(P, V, l, j).next, R[r1][3] # 0,
                 R[r2][2] = C[c][1], R[r2][3] = C[c][2], SamePlace(R, r1, r2)
          PROVE  r2 < r1
      <4>1. CASE l = a
        BY <4>1, <3>3, <3>1, <1>2
      <4>2. CASE l # a
        BY <4>2, <3>3, <3>2, <1>1, <1>2 DEF CallOrder
      <4> QED BY <4>1, <4>2
    <3> QED BY <3>2, <3>3 DEF CallOrder
  <2>3. Shallow(V)
    BY <1>1, <1>18 DEF Shallow, Ordered
  <2> QED BY <2>1, <2>2, <2>3 DEF Ordered
<1> QED BY <1>7, <1>8, <1>9, <1>10, <1>11, <1>12, <1>13, <1>14, <1>16, <1>17, <1>18

\* Q is P, but for how p is settled.
SettledAs(Q, P, p, how, x) ==
  /\ Len(Q) = Len(P) /\ Q \in Seq(PrimRecords) /\ Q[p].s = how /\ Q[p].x = x
  /\ \A q \in 1 .. Len(P) : Q[q].ok = P[q].ok /\ Q[q].fail = P[q].fail /\ (q # p => Q[q].s = P[q].s /\ Q[q].x = P[q].x)

\* A list is in the order of registration.
LEMMA SlotOrder ==
  ASSUME NEW P, NEW R, SlotsOK(P, R), NEW p \in 1 .. Len(P), NEW k \in Kinds,
         NEW j1 \in 1 .. Len(ListOf(P, p, k)), NEW j2 \in 1 .. Len(ListOf(P, p, k)), NEW r1 \in 1 .. Len(R), NEW r2 \in 1 .. Len(R),
         Is(R, r1, p, k, ListOf(P, p, k)[j1].next), Is(R, r2, p, k, ListOf(P, p, k)[j2].next), R[r1][3] # 0, R[r2][3] # 0, r1 < r2
  PROVE  ~(j2 < j1)
<1>1. j2 < j1 => r2 < r1
  BY DEF SlotsOK
<1>2. r1 \in Int /\ r2 \in Int
  OBVIOUS
<1> QED BY <1>1, <1>2

\* A promise is settled, and its callbacks of that kind are to be called next or after all else.
LEMMA SettleEach ==
  ASSUME NEW P, NEW Q, NEW V, NEW W, NEW R, NEW C, NEW A, NEW a, NEW p \in 1 .. Len(P), NEW how \in {"v", "e"}, NEW x,
         Sane(P, W, R, C, A), Added(V, W, a), SettledAs(Q, P, p, how, x), Pending(P, p),
         (a > 0 /\ \A l \in DOMAIN W : l < a) \/ (a < 0 /\ \A l \in DOMAIN W : a < l),
         V[a].t = "each", V[a].p = p, V[a].how = (IF how = "v" THEN "ok" ELSE "fail"), V[a].i = 1, V[a].x = x,
         ~IsTask(W, "user", p), NotWaiting(P, W, p), NotArgued(P, W, p), A[p] # 0 => Agrees(P, how, x, A[p])
  PROVE  /\ Sane(Q, V, R, C, A)
         /\ Ordered(P, W, R, C) /\ (\A l \in DOMAIN W : a < l) /\ a < 0 => Ordered(Q, V, R, C)
<1> USE DEF Sane
<1> DEFINE k == IF how = "v" THEN "ok" ELSE "fail"
<1>1. /\ \A l \in DOMAIN V : l = a \/ (l \in DOMAIN W /\ V[l] = W[l] /\ l \in Int)
      /\ \A l \in DOMAIN W : l \in DOMAIN V /\ V[l] = W[l]
      /\ a \in DOMAIN V /\ a \notin DOMAIN W /\ a \in Int
  BY DEF Added, Typed
<1>2. \A q \in 1 .. Len(P) : \A e : ListOf(Q, q, e) = ListOf(P, q, e)
  BY DEF ListOf, SettledAs
<1>3. /\ Len(Q) = Len(P) /\ 1 .. Len(Q) = 1 .. Len(P) /\ ~Pending(Q, p) /\ \A q \in 1 .. Len(P) : q # p => (Pending(Q, q) <=> Pending(P, q))
      /\ \A q \in 1 .. Len(P) : q # p => Q[q].s = P[q].s /\ Q[q].x = P[q].x
      /\ Matches(k, Q[p].s) /\ \A e : ~Matches(e, P[p].s)
      /\ \A e, q : q \in 1 .. Len(P) /\ Matches(e, P[q].s) => q # p /\ Matches(e, Q[q].s)
  BY DEF SettledAs, Pending, Matches
<1>4. TasksOK(P, W, R) /\ \A l \in DOMAIN W : TaskOK(P, W, R, l) /\ (W[l].t = "each" => W[l].p \in 1 .. Len(P) /\ W[l].p # p)
  BY <1>3 DEF TasksOK, TaskOK
<1>5. /\ \A l \in DOMAIN W : /\ Due(Q, V, l) = Due(P, W, l)
                            /\ \A j \in Due(P, W, l) : DueCb(Q, V, l, j) = DueCb(P, W, l, j)
      /\ Due(Q, V, a) = 1 .. Len(ListOf(P, p, k)) /\ \A j : DueCb(Q, V, a, j) = ListOf(P, p, k)[j]
  <2>1. \A l \in DOMAIN W : W[l].t = "each" => ListOf(Q, V[l].p, V[l].how) = ListOf(P, W[l].p, W[l].how)
    BY <1>1, <1>2, <1>4
  <2>2. ListOf(Q, V[a].p, V[a].how) = ListOf(P, p, k)
    BY <1>2
  <2>3. \A l \in DOMAIN W : Due(Q, V, l) = Due(P, W, l)
    BY <2>1, <1>1 DEF Due
  <2>4. \A l \in DOMAIN W : W[l].t \in {"each", "call"} => \A j : DueCb(Q, V, l, j) = DueCb(P, W, l, j)
    BY <2>1, <1>1 DEF DueCb
  <2>5. Due(Q, V, a) = 1 .. Len(ListOf(P, p, k)) /\ \A j : DueCb(Q, V, a, j) = ListOf(P, p, k)[j]
    BY <2>2 DEF Due, DueCb
  <2>6. \A l \in DOMAIN W : Due(P, W, l) # {} => W[l].t \in {"each", "call"}
    BY DEF Due
  <2> QED BY <2>3, <2>4, <2>5, <2>6
<1>6. \A t, m : t # "each" => (IsTask(V, t, m) <=> IsTask(W, t, m))
  BY <1>1 DEF IsTask
<1>7. \A m : NoArg(P, W, m) => NoArg(Q, V, m)
  BY <1>1, <1>2, <1>3 DEF NoArg
<1>8. \A m \in 1 .. Len(P) : Untouched(P, W, A, m) /\ m # p => Untouched(Q, V, A, m)
  BY <1>3, <1>6, <1>7 DEF Untouched
<1>9. \A j \in 1 .. Len(ListOf(P, p, k)) : /\ CbOK(ListOf(P, p, k)[j], k) /\ Given(R, p, k, ListOf(P, p, k)[j].next)
                                           /\ ListOf(P, p, k)[j].next # p
                                           /\ ListOf(P, p, k)[j].next # 0 => Untouched(P, W, A, ListOf(P, p, k)[j].next)
  BY DEF SlotsOK, WaitingOK, NotWaiting, Kinds
<1>10. \A q, e1, e2, m : m # 0 /\ Given(R, q, e1, m) /\ Given(R, p, e2, m) => q = p
  BY Registered

\* What is due already does not hang on p.
<1>11. \A l \in DOMAIN W : \A j \in Due(P, W, l) : DueCb(P, W, l, j).next # 0 =>
         \E q \in 1 .. Len(P) : q # p /\ Given(R, q, W[l].how, DueCb(P, W, l, j).next)
  <2> SUFFICES ASSUME NEW l \in DOMAIN W, NEW j \in Due(P, W, l), DueCb(P, W, l, j).next # 0
               PROVE  \E q \in 1 .. Len(P) : q # p /\ Given(R, q, W[l].how, DueCb(P, W, l, j).next)
    OBVIOUS
  <2>1. CASE W[l].t = "call"
    BY <2>1, <1>3, <1>4 DEF DueCb, TaskOK
  <2>2. CASE W[l].t = "each"
    <3>1. j \in 1 .. Len(ListOf(P, W[l].p, W[l].how)) /\ DueCb(P, W, l, j) = ListOf(P, W[l].p, W[l].how)[j] /\ W[l].how \in Kinds
      <4>1. W[l].i \in Nat
        BY DEF Typed, Tasks
      <4> QED BY <4>1, <2>2, <1>4 DEF Due, DueCb, TaskOK
    <3> QED BY <2>2, <3>1, <1>4 DEF SlotsOK
  <2>3. CASE W[l].t # "call" /\ W[l].t # "each"
    BY <2>3 DEF Due
  <2> QED BY <2>1, <2>2, <2>3
<1>12. \A j \in 1 .. Len(ListOf(P, p, k)) : ListOf(P, p, k)[j].next # 0 => NotDue(P, W, ListOf(P, p, k)[j].next)
  BY <1>9, <1>10, <1>11 DEF NotDue
<1>13. Typed(Q, V, R, C, A)
  BY DEF Typed, Added, SettledAs
<1>14. RegsOK(Q, R) /\ SlotsOK(Q, R) /\ Listed(Q, R)
  <2>1. RegsOK(Q, R)
    BY <1>3 DEF RegsOK
  <2>2. SlotsOK(Q, R)
    BY <1>2, <1>3 DEF SlotsOK
  <2>3. Listed(Q, R)
    <3>1. \A r \in 1 .. Len(R) : R[r][1] \in 1 .. Len(P)
      BY DEF RegsOK
    <3>2. \A r \in 1 .. Len(R) : ListOf(Q, R[r][1], R[r][2]) = ListOf(P, R[r][1], R[r][2]) /\ (Pending(Q, R[r][1]) => Pending(P, R[r][1]))
      BY <3>1, <1>2, <1>3
    <3> QED BY <3>2 DEF Listed
  <2> QED BY <2>1, <2>2, <2>3
<1>15. TasksOK(Q, V, R)
  <2> SUFFICES ASSUME NEW l \in DOMAIN V PROVE TaskOK(Q, V, R, l)
    BY DEF TasksOK
  <2>1. CASE l \in DOMAIN W
    <3>1. TaskOK(P, W, R, l) /\ V[l] = W[l] /\ l \in Int
      BY <1>1, <1>4, <2>1
    <3>2. l - 1 \in DOMAIN W => V[l - 1] = W[l - 1] /\ l - 1 \in DOMAIN V
      BY <1>1
    <3>3. W[l].t = "call" /\ W[l].cb.next # 0 => \E q \in 1 .. Len(Q) :
            Given(R, q, W[l].how, W[l].cb.next) /\ Matches(W[l].how, Q[q].s) /\ W[l].x = Q[q].x
      BY <3>1, <1>3 DEF TaskOK
    <3>4. W[l].t = "each" => Matches(W[l].how, Q[W[l].p].s) /\ W[l].x = Q[W[l].p].x
      BY <3>1, <1>3, <1>4, <2>1 DEF TaskOK
    <3> QED BY <3>1, <3>2, <3>3, <3>4, <1>3 DEF TaskOK
  <2>2. CASE l = a
    BY <1>1, <1>3, <2>2 DEF TaskOK, Kinds, SettledAs
  <2> QED BY <1>1, <2>1, <2>2
<1>16. EachOnce(V)
  BY <1>1, <1>4 DEF EachOnce
<1>17. DueOnce(Q, V)
  <2>1. \A j1, j2 \in 1 .. Len(ListOf(P, p, k)) : ListOf(P, p, k)[j1].next = ListOf(P, p, k)[j2].next /\ ListOf(P, p, k)[j1].next # 0
          => j1 = j2
    <3> SUFFICES ASSUME NEW j1 \in 1 .. Len(ListOf(P, p, k)), NEW j2 \in 1 .. Len(ListOf(P, p, k)), j1 < j2,
                        ListOf(P, p, k)[j1].next = ListOf(P, p, k)[j2].next, ListOf(P, p, k)[j1].next # 0
                 PROVE  FALSE
      OBVIOUS
    <3>1. PICK r \in 1 .. Len(R) : Is(R, r, p, k, ListOf(P, p, k)[j1].next)
      BY <1>9 DEF Given
    <3>2. k \in Kinds
      BY DEF Kinds
    <3> QED BY <3>1, <3>2 DEF SlotsOK, Is
  <2> QED BY <1>1, <1>5, <1>12, <2>1 DEF DueOnce, NotDue
<1>18. CalledOnce(Q, V, R, C)
  <2>1. \A c \in 1 .. Len(C) : C[c][2] # 0 /\ NotDue(P, W, C[c][2])
                                /\ \E q \in 1 .. Len(P) : q # p /\ Given(R, q, C[c][1], C[c][2]) /\ Matches(C[c][1], Q[q].s)
    BY <1>3 DEF CalledOnce
  <2>2. \A c \in 1 .. Len(C), j \in 1 .. Len(ListOf(P, p, k)) : ListOf(P, p, k)[j].next # C[c][2]
    BY <2>1, <1>9, <1>10
  <2>3. \A c \in 1 .. Len(C) : NotDue(Q, V, C[c][2])
    BY <2>1, <2>2, <1>1, <1>5 DEF NotDue
  <2> QED BY <2>1, <2>3, <1>3 DEF CalledOnce
<1>19. \A q \in 1 .. Len(P), e \in Kinds : \A j \in 1 .. Len(ListOf(P, q, e)) : ListOf(P, q, e)[j].next # 0 => ListOf(P, q, e)[j].next \in 1 .. Len(P)
  BY Registered DEF SlotsOK
<1>20. \A l \in DOMAIN W : \A j \in Due(P, W, l) : DueCb(P, W, l, j).next # 0 => DueCb(P, W, l, j).next \in 1 .. Len(P)
  BY <1>11, Registered
<1>21. WaitingOK(Q, V, A)
  <2>1. \A l \in DOMAIN V : \A j \in Due(Q, V, l) : DueCb(Q, V, l, j).next # 0 => Untouched(Q, V, A, DueCb(Q, V, l, j).next)
    <3> SUFFICES ASSUME NEW l \in DOMAIN V, NEW j \in Due(Q, V, l), DueCb(Q, V, l, j).next # 0
                 PROVE  Untouched(Q, V, A, DueCb(Q, V, l, j).next)
      OBVIOUS
    <3>1. CASE l = a
      <4>1. k \in Kinds
        BY DEF Kinds
      <4> QED BY <3>1, <4>1, <1>5, <1>8, <1>9, <1>19
    <3>2. CASE l # a
      BY <3>2, <1>1, <1>5, <1>8, <1>20 DEF WaitingOK, NotWaiting, NotDue
    <3> QED BY <3>1, <3>2
  <2>2. \A q \in 1 .. Len(Q), e \in Kinds : \A j \in 1 .. Len(ListOf(Q, q, e)) :
          Pending(Q, q) /\ ListOf(Q, q, e)[j].next # 0 => Untouched(Q, V, A, ListOf(Q, q, e)[j].next)
    BY <1>2, <1>3, <1>8, <1>19 DEF WaitingOK, NotWaiting
  <2> QED BY <2>1, <2>2 DEF WaitingOK
<1>22. UserOK(Q, V, C, A)
  <2>1. \A l \in DOMAIN W : W[l].t = "user" => W[l].cb.next # p /\ W[l].cb.next \in 1 .. Len(P)
    BY <1>4 DEF IsTask, TaskOK
  <2> QED BY <2>1, <1>1, <1>3, <1>6, <1>7 DEF UserOK
<1>23. AdoptOK(Q, V, C, A)
  <2> SUFFICES ASSUME NEW n \in 1 .. Len(P), A[n] # 0
               PROVE  /\ A[n] \in 1 .. Len(Q) /\ n > 2 /\ CalledBack(C, n) /\ ~IsTask(V, "user", n)
                      /\ Pending(Q, n) \/ Agrees(Q, Q[n].s, Q[n].x, A[n])
                      /\ \A l \in DOMAIN V : V[l].t = "settle" /\ V[l].p = n => ~Pending(Q, n) \/ Agrees(Q, V[l].how, V[l].x, A[n])
    BY <1>3 DEF AdoptOK
  <2>1. /\ A[n] \in 1 .. Len(Q) /\ n > 2 /\ CalledBack(C, n) /\ ~IsTask(V, "user", n)
        /\ Pending(P, n) \/ Agrees(P, P[n].s, P[n].x, A[n])
        /\ \A l \in DOMAIN W : W[l].t = "settle" /\ W[l].p = n => ~Pending(P, n) \/ Agrees(P, W[l].how, W[l].x, A[n])
    BY <1>3, <1>6 DEF AdoptOK
  <2>2. \A h, y : Agrees(P, h, y, A[n]) => Agrees(Q, h, y, A[n])
    BY <1>3, <2>1 DEF Agrees
  <2>3. Pending(Q, n) \/ Agrees(Q, Q[n].s, Q[n].x, A[n])
    BY <2>1, <2>2, <1>3 DEF SettledAs
  <2>4. \A l \in DOMAIN V : V[l].t = "settle" /\ V[l].p = n => ~Pending(Q, n) \/ Agrees(Q, V[l].how, V[l].x, A[n])
    BY <2>1, <2>2, <1>1, <1>3
  <2> QED BY <2>1, <2>3, <2>4
<1>24. \A m \in 1 .. Len(P) : Unsettled(P, W, m) /\ m # p => Unsettled(Q, V, m)
  BY <1>3, <1>6 DEF Unsettled
<1>25. ArgOK(Q, V, R, A)
  <2>1. \A l \in DOMAIN W : \A j \in Due(P, W, l) : DueCb(P, W, l, j).arg # 0 =>
          DueCb(P, W, l, j).arg \in 1 .. Len(P)
    <3> SUFFICES ASSUME NEW l \in DOMAIN W, NEW j \in Due(P, W, l), DueCb(P, W, l, j).arg # 0 PROVE DueCb(P, W, l, j).arg \in 1 .. Len(P)
      OBVIOUS
    <3>1. CASE W[l].t = "call"
      BY <3>1 DEF ArgOK, DueCb
    <3>2. CASE W[l].t # "call"
      <4>1. W[l].t = "each" /\ W[l].i \in Nat /\ W[l].how \in Kinds /\ W[l].i > 0
        BY <3>2, <1>4 DEF Due, TaskOK, Typed, Tasks
      <4>2. j \in 1 .. Len(ListOf(P, W[l].p, W[l].how)) /\ DueCb(P, W, l, j) = ListOf(P, W[l].p, W[l].how)[j]
        BY <4>1 DEF Due, DueCb
      <4> QED BY <4>1, <4>2, <1>4 DEF ArgOK
    <3> QED BY <3>1, <3>2
  <2>2. \A q \in 1 .. Len(Q), e \in Kinds : \A j \in 1 .. Len(ListOf(Q, q, e)) : ListOf(Q, q, e)[j].arg # 0 =>
         /\ ListOf(Q, q, e)[j].arg \in 1 .. Len(Q) /\ A[ListOf(Q, q, e)[j].arg] = q
         /\ Pending(Q, q) => Unsettled(Q, V, ListOf(Q, q, e)[j].arg)
    BY <1>2, <1>3, <1>24 DEF ArgOK, NotArgued
  <2>3. \A l \in DOMAIN V : V[l].t = "call" /\ V[l].cb.arg # 0 =>
          V[l].cb.arg \in 1 .. Len(Q) /\ Given(R, A[V[l].cb.arg], V[l].how, V[l].cb.next)
    BY <1>1, <1>3 DEF ArgOK
  <2>4. \A l \in DOMAIN V : \A j \in Due(Q, V, l) : DueCb(Q, V, l, j).arg # 0 => Unsettled(Q, V, DueCb(Q, V, l, j).arg)
    <3> SUFFICES ASSUME NEW l \in DOMAIN V, NEW j \in Due(Q, V, l), DueCb(Q, V, l, j).arg # 0 PROVE Unsettled(Q, V, DueCb(Q, V, l, j).arg)
      OBVIOUS
    <3>1. CASE l = a
      <4>1. k \in Kinds
        BY DEF Kinds
      <4> QED BY <3>1, <4>1, <1>5, <1>24 DEF ArgOK, NotArgued
    <3>2. CASE l # a
      BY <3>2, <2>1, <1>1, <1>5, <1>24 DEF ArgOK, NotArgued
    <3> QED BY <3>1, <3>2
  <2> QED BY <2>2, <2>3, <2>4 DEF ArgOK
<1>26. ArgOnce(Q, V)
  <2>1. \A n, m : Belong(P, W, n, m) => Belong(Q, V, n, m)
    BY <1>1, <1>2, <1>3 DEF Belong
  <2> QED BY <2>1, <1>3 DEF ArgOnce
<1>27. ASSUME Ordered(P, W, R, C), \A l \in DOMAIN W : a < l, a < 0 PROVE Ordered(Q, V, R, C)
  <2>1. DueOrder(Q, V, R)
    <3> SUFFICES ASSUME NEW l1 \in DOMAIN V, NEW l2 \in DOMAIN V, NEW j1 \in Due(Q, V, l1), NEW j2 \in Due(Q, V, l2),
                        NEW r1 \in 1 .. Len(R), NEW r2 \in 1 .. Len(R), R[r1][3] # 0, R[r2][3] # 0, SamePlace(R, r1, r2), r1 < r2,
                        R[r1][2] = V[l1].how, R[r1][3] = DueCb(Q, V, l1, j1).next,
                        R[r2][2] = V[l2].how, R[r2][3] = DueCb(Q, V, l2, j2).next
                 PROVE  l1 > l2 \/ (l1 = l2 /\ j1 < j2)
      BY DEF DueOrder
    <3>1. CASE l1 # a /\ l2 # a
      BY <3>1, <1>1, <1>5, <1>27 DEF DueOrder, Ordered
    <3>2. CASE l1 = a /\ l2 = a
      <4>1. /\ R[r1][2] = k /\ R[r2][2] = k /\ j1 \in 1 .. Len(ListOf(P, p, k)) /\ j2 \in 1 .. Len(ListOf(P, p, k)) /\ k \in Kinds
            /\ R[r1][3] = ListOf(P, p, k)[j1].next /\ R[r2][3] = ListOf(P, p, k)[j2].next
        BY <3>2, <1>5 DEF Kinds
      <4>2. R[r1][1] = p /\ R[r2][1] = p
        BY <4>1, <1>9, Registered
      <4>3. Is(R, r1, p, k, ListOf(P, p, k)[j1].next) /\ Is(R, r2, p, k, ListOf(P, p, k)[j2].next)
        BY <4>1, <4>2 DEF Is
      <4>4. ~(j2 < j1)
        <5> HIDE DEF k
        <5>1. /\ SlotsOK(P, R) /\ Is(R, r2, p, k, ListOf(P, p, k)[j2].next) /\ Is(R, r1, p, k, ListOf(P, p, k)[j1].next)
              /\ r1 \in 1 .. Len(R) /\ r2 \in 1 .. Len(R) /\ r1 < r2 /\ R[r1][3] # 0 /\ R[r2][3] # 0
              /\ j1 \in 1 .. Len(ListOf(P, p, k)) /\ j2 \in 1 .. Len(ListOf(P, p, k)) /\ k \in Kinds
          BY <4>1, <4>3
        <5> QED BY <5>1, SlotOrder
      <4>5. j1 # j2
        BY <4>3, <4>1 DEF RegsOK, Is
      <4> QED BY <4>1, <4>4, <4>5, <3>2
    <3>3. CASE l1 = a /\ l2 # a
      <4>1. R[r1][3] = ListOf(P, p, k)[j1].next /\ j1 \in 1 .. Len(ListOf(P, p, k))
        BY <3>3, <1>5
      <4>2. R[r1][1] = p
        BY <4>1, <1>9, Registered
      <4>3. R[r2][1] # p
        <5>1. l2 \in DOMAIN W /\ j2 \in Due(P, W, l2) /\ R[r2][3] = DueCb(P, W, l2, j2).next
          BY <3>3, <1>1, <1>5
        <5>2. PICK q \in 1 .. Len(P) : q # p /\ Given(R, q, W[l2].how, R[r2][3])
          BY <5>1, <1>11
        <5> QED BY <5>2, Registered
      <4> QED BY <4>2, <4>3 DEF SamePlace
    <3>4. CASE l1 # a /\ l2 = a
      BY <3>4, <1>1, <1>27
    <3> QED BY <3>1, <3>2, <3>3, <3>4
  <2>2. CallOrder(Q, V, R, C)
    <3>1. CallOrder(P, W, R, C)
      BY <1>27 DEF Ordered
    <3>2. ASSUME NEW c \in 1 .. Len(C), NEW l \in DOMAIN V, NEW j \in Due(Q, V, l), NEW r1 \in 1 .. Len(R), NEW r2 \in 1 .. Len(R),
                 R[r1][2] = V[l].how, R[r1][3] = DueCb(Q, V, l, j).next, R[r1][3] # 0,
                 R[r2][2] = C[c][1], R[r2][3] = C[c][2], SamePlace(R, r1, r2)
          PROVE  r2 < r1
      <4>1. CASE l = a
        <5>1. R[r1][3] = ListOf(P, p, k)[j].next /\ j \in 1 .. Len(ListOf(P, p, k))
          BY <4>1, <3>2, <1>5
        <5>2. R[r1][1] = p
          BY <5>1, <3>2, <1>9, Registered
        <5>3. R[r2][1] # p
          <6>1. PICK q \in 1 .. Len(P) : Given(R, q, C[c][1], C[c][2]) /\ Matches(C[c][1], P[q].s)
            BY <3>2 DEF CalledOnce
          <6>2. q # p /\ R[r2][3] # 0
            BY <6>1, <1>3, <3>2 DEF CalledOnce
          <6> QED BY <6>1, <6>2, <3>2, Registered
        <5> QED BY <5>2, <5>3, <3>2 DEF SamePlace
      <4>2. CASE l # a
        BY <4>2, <3>1, <3>2, <1>1, <1>5 DEF CallOrder
      <4> QED BY <4>1, <4>2
    <3> QED BY <3>1, <3>2 DEF CallOrder
  <2>3. Shallow(V)
    BY <1>1, <1>27 DEF Shallow, Ordered
  <2> QED BY <2>1, <2>2, <2>3 DEF Ordered
<1> QED BY <1>13, <1>14, <1>15, <1>16, <1>17, <1>18, <1>21, <1>22, <1>23, <1>25, <1>26, <1>27

\* The tasks are the same at other places in the same order: a tick begins.
LEMMA Moved ==
  ASSUME NEW P, NEW V, NEW W, NEW R, NEW C, NEW A, NEW f \in [DOMAIN V -> DOMAIN W], Sane(P, W, R, C, A),
         V \in [DOMAIN V -> Tasks], DOMAIN V \subseteq Int, 0 \notin DOMAIN V,
         \A l \in DOMAIN V : V[l] = W[f[l]] /\ V[l].t # "user" /\ (l < 0 => f[l] < 0),
         \A l, m \in DOMAIN V : l < m => f[l] < f[m],
         \A l, m \in DOMAIN V : l > 0 /\ m > 0 => l = m /\ l = 1
  PROVE  Sane(P, V, R, C, A) /\ (Ordered(P, W, R, C) => Ordered(P, V, R, C))
<1> USE DEF Sane
<1>1. \A l \in DOMAIN V : l \in Int /\ f[l] \in DOMAIN W /\ f[l] \in Int /\ V[l] = W[f[l]]
  BY DEF Typed
<1>2. \A l, m \in DOMAIN V : (f[l] = f[m] => l = m) /\ (f[l] > f[m] => l > m)
  BY <1>1
<1>3. \A l \in DOMAIN V : Due(P, V, l) = Due(P, W, f[l]) /\ \A j : DueCb(P, V, l, j) = DueCb(P, W, f[l], j)
  BY <1>1 DEF Due, DueCb
<1>4. \A t, n : IsTask(V, t, n) => IsTask(W, t, n)
  BY <1>1 DEF IsTask
<1>5. \A n : NoArg(P, W, n) => NoArg(P, V, n)
  BY <1>1 DEF NoArg
<1>6. \A n : Untouched(P, W, A, n) => Untouched(P, V, A, n)
  BY <1>4, <1>5 DEF Untouched
<1>7. \A n : NotDue(P, W, n) => NotDue(P, V, n)
  BY <1>1, <1>3 DEF NotDue
<1>8. Typed(P, V, R, C, A)
  BY DEF Typed
<1>9. TasksOK(P, V, R)
  <2> SUFFICES ASSUME NEW l \in DOMAIN V PROVE TaskOK(P, V, R, l)
    BY DEF TasksOK
  <2>1. TaskOK(P, W, R, f[l])
    BY <1>1 DEF TasksOK
  <2> QED BY <2>1, <1>1 DEF TaskOK
<1>10. EachOnce(V)
  BY <1>1, <1>2 DEF EachOnce
<1>11. DueOnce(P, V)
  BY <1>1, <1>2, <1>3 DEF DueOnce
<1>12. CalledOnce(P, V, R, C)
  BY <1>7 DEF CalledOnce
<1>13. WaitingOK(P, V, A)
  BY <1>1, <1>3, <1>6 DEF WaitingOK
<1>14. UserOK(P, V, C, A)
  BY DEF UserOK
<1>15. AdoptOK(P, V, C, A)
  BY <1>1, <1>4 DEF AdoptOK
<1>16. \A n : Unsettled(P, W, n) => Unsettled(P, V, n)
  BY <1>4 DEF Unsettled
<1>17. ArgOK(P, V, R, A)
  BY <1>1, <1>3, <1>16 DEF ArgOK
<1>18. ArgOnce(P, V)
  <2>1. \A n, m : Belong(P, W, n, m) => Belong(P, V, n, m)
    BY <1>1 DEF Belong
  <2> QED BY <2>1 DEF ArgOnce
<1>19. ASSUME Ordered(P, W, R, C) PROVE Ordered(P, V, R, C)
  <2>1. DueOrder(P, V, R)
    <3> SUFFICES ASSUME NEW l1 \in DOMAIN V, NEW l2 \in DOMAIN V, NEW j1 \in Due(P, V, l1), NEW j2 \in Due(P, V, l2),
                        NEW r1 \in 1 .. Len(R), NEW r2 \in 1 .. Len(R), R[r1][3] # 0, R[r2][3] # 0, SamePlace(R, r1, r2), r1 < r2,
                        R[r1][2] = V[l1].how, R[r1][3] = DueCb(P, V, l1, j1).next,
                        R[r2][2] = V[l2].how, R[r2][3] = DueCb(P, V, l2, j2).next
                 PROVE  l1 > l2 \/ (l1 = l2 /\ j1 < j2)
      BY DEF DueOrder
    <3>1. f[l1] > f[l2] \/ (f[l1] = f[l2] /\ j1 < j2)
      <4>1. DueOrder(P, W, R)
        BY <1>19 DEF Ordered
      <4>2. /\ f[l1] \in DOMAIN W /\ f[l2] \in DOMAIN W /\ j1 \in Due(P, W, f[l1]) /\ j2 \in Due(P, W, f[l2])
            /\ R[r1][2] = W[f[l1]].how /\ R[r1][3] = DueCb(P, W, f[l1], j1).next
            /\ R[r2][2] = W[f[l2]].how /\ R[r2][3] = DueCb(P, W, f[l2], j2).next
        BY <1>1, <1>3
      <4> QED BY <4>1, <4>2 DEF DueOrder
    <3> QED BY <3>1, <1>2
  <2>2. CallOrder(P, V, R, C)
    BY <1>1, <1>3, <1>19 DEF CallOrder, Ordered
  <2>3. Shallow(V)
    BY <1>1 DEF Shallow
  <2> QED BY <2>1, <2>2, <2>3 DEF Ordered
<1> QED BY <1>8, <1>9, <1>10, <1>11, <1>12, <1>13, <1>14, <1>15, <1>17, <1>18, <1>19

\* A new promise, on which nothing hangs yet.
LEMMA NewPromise ==
  ASSUME NEW P, NEW W, NEW R, NEW C, NEW A, NEW rec \in PrimRecords, Sane(P, W, R, C, A), rec.ok = <<>>, rec.fail = <<>>, Len(P) > 1
  PROVE  /\ Sane(Append(P, rec), W, R, C, Append(A, 0))
         /\ Ordered(P, W, R, C) => Ordered(Append(P, rec), W, R, C)
         /\ NotDue(Append(P, rec), W, Len(P) + 1) /\ ~CalledBack(C, Len(P) + 1)
         /\ rec.s = "pending" => Untouched(Append(P, rec), W, Append(A, 0), Len(P) + 1)
         /\ \A r \in 1 .. Len(R) : R[r][3] # Len(P) + 1
<1> USE DEF Sane
<1> DEFINE Q == Append(P, rec)
           B == Append(A, 0)
           n == Len(P) + 1
<1>1. /\ P \in Seq(PrimRecords) /\ A \in Seq(Nat) /\ Len(P) \in Nat /\ Len(A) = Len(P) /\ Len(Q) = n /\ Len(B) = n
      /\ Q \in Seq(PrimRecords) /\ B \in Seq(Nat)
      /\ \A p \in 1 .. Len(P) : Q[p] = P[p] /\ B[p] = A[p] /\ p # n
      /\ Q[n] = rec /\ B[n] = 0
  BY DEF Typed
<1>2. \A p \in 1 .. n : p \in 1 .. Len(P) \/ p = n
  BY <1>1
<1>3. /\ \A p \in 1 .. Len(P) : /\ \A k : ListOf(Q, p, k) = ListOf(P, p, k)
                                /\ (Pending(Q, p) <=> Pending(P, p)) /\ Q[p].s = P[p].s /\ Q[p].x = P[p].x
      /\ \A k : Len(ListOf(Q, n, k)) = 0
  BY <1>1 DEF ListOf, Pending
<1>4. \A l \in DOMAIN W : TaskOK(P, W, R, l) /\ W[l] \in Tasks
  BY DEF TasksOK, Typed
<1>5. \A l \in DOMAIN W : /\ W[l].t \in {"each", "settle", "try"} => W[l].p \in 1 .. Len(P)
                          /\ W[l].t = "user" => W[l].cb.next \in 1 .. Len(P)
  BY <1>4 DEF TaskOK
<1>6. \A l \in DOMAIN W : Due(Q, W, l) = Due(P, W, l) /\ \A j : j \in Due(P, W, l) => DueCb(Q, W, l, j) = DueCb(P, W, l, j)
  <2>1. \A l \in DOMAIN W : W[l].t = "each" => ListOf(Q, W[l].p, W[l].how) = ListOf(P, W[l].p, W[l].how)
    BY <1>3, <1>5
  <2> QED BY <2>1 DEF Due, DueCb
<1>7. \A t : t # "call" => ~IsTask(W, t, n)
  BY <1>1, <1>4, <1>5 DEF IsTask, Tasks
<1>8. /\ \A p \in 1 .. Len(P), k \in Kinds : \A j \in 1 .. Len(ListOf(P, p, k)) : ListOf(P, p, k)[j].arg # n /\ ListOf(P, p, k)[j].next # n
      /\ \A l \in DOMAIN W : W[l].t = "call" => W[l].cb.arg # n /\ W[l].cb.next # n
  <2>1. \A p \in 1 .. Len(P), k \in Kinds : \A j \in 1 .. Len(ListOf(P, p, k)) : ListOf(P, p, k)[j].arg # n
    <3> SUFFICES ASSUME NEW p \in 1 .. Len(P), NEW k \in Kinds, NEW j \in 1 .. Len(ListOf(P, p, k))
                 PROVE  ListOf(P, p, k)[j].arg # n
      OBVIOUS
    <3>1. ArgOK(P, W, R, A)
      OBVIOUS
    <3>2. ListOf(P, p, k)[j].arg # 0 => ListOf(P, p, k)[j].arg \in 1 .. Len(P)
      BY <3>1 DEF ArgOK
    <3>3. n # 0 /\ n \notin 1 .. Len(P)
      BY <1>1
    <3> QED BY <3>2, <3>3
  <2>2. \A p \in 1 .. Len(P), k \in Kinds : \A j \in 1 .. Len(ListOf(P, p, k)) : ListOf(P, p, k)[j].next # n
    BY <1>1, Registered DEF SlotsOK
  <2>3. \A l \in DOMAIN W : W[l].t = "call" => W[l].cb.arg # n
    BY <1>1 DEF ArgOK
  <2>4. \A l \in DOMAIN W : W[l].t = "call" => W[l].cb.next # n
    BY <1>1, <1>4, Registered DEF TaskOK
  <2> QED BY <2>1, <2>2, <2>3, <2>4
<1>9. \A m : NoArg(P, W, m) => NoArg(Q, W, m)
  BY <1>1, <1>2, <1>3 DEF NoArg
<1>10. \A m \in 1 .. Len(P) : Untouched(P, W, A, m) => Untouched(Q, W, B, m)
  BY <1>1, <1>3, <1>9 DEF Untouched
<1>11. NoArg(Q, W, n)
  BY <1>1, <1>2, <1>3, <1>8 DEF NoArg
<1>12. rec.s = "pending" => Untouched(Q, W, B, n)
  BY <1>1, <1>7, <1>11 DEF Untouched, Pending
<1>13. \A m : NotDue(P, W, m) => NotDue(Q, W, m)
  BY <1>6 DEF NotDue
<1>14. NotDue(Q, W, n)
  BY <1>1, <1>6, DueGiven DEF NotDue
<1>15. \A r \in 1 .. Len(R) : R[r][3] # n
  BY <1>1 DEF RegsOK
<1>16. ~CalledBack(C, n)
  BY <1>1, Registered DEF CalledOnce, CalledBack
<1>17. \A l \in DOMAIN W : \A j \in Due(P, W, l) : DueCb(P, W, l, j).next # 0 => DueCb(P, W, l, j).next \in 1 .. Len(P)
  BY DueGiven
<1>18. Typed(Q, W, R, C, B)
  BY <1>1 DEF Typed
<1>19. RegsOK(Q, R) /\ Listed(Q, R)
  <2>1. \A p \in 1 .. Len(P) : p \in 1 .. Len(Q)
    BY <1>1
  <2>2. RegsOK(Q, R)
    BY <2>1 DEF RegsOK
  <2>3. \A r \in 1 .. Len(R) : R[r][1] \in 1 .. Len(P)
    BY DEF RegsOK
  <2>4. Listed(Q, R)
    <3> SUFFICES ASSUME NEW r \in 1 .. Len(R), R[r][3] # 0, Pending(Q, R[r][1])
                 PROVE  \E j \in 1 .. Len(ListOf(Q, R[r][1], R[r][2])) : ListOf(Q, R[r][1], R[r][2])[j].next = R[r][3]
      BY DEF Listed
    <3>1. Pending(P, R[r][1]) /\ ListOf(Q, R[r][1], R[r][2]) = ListOf(P, R[r][1], R[r][2])
      BY <2>3, <1>3
    <3> QED BY <3>1 DEF Listed
  <2> QED BY <2>2, <2>4
<1>20. SlotsOK(Q, R)
  <2> SUFFICES ASSUME NEW p \in 1 .. Len(Q), NEW k \in Kinds
               PROVE  /\ \A j \in 1 .. Len(ListOf(Q, p, k)) : CbOK(ListOf(Q, p, k)[j], k) /\ Given(R, p, k, ListOf(Q, p, k)[j].next)
                      /\ \A j1, j2 \in 1 .. Len(ListOf(Q, p, k)), r1, r2 \in 1 .. Len(R) :
                           j1 < j2 /\ Is(R, r1, p, k, ListOf(Q, p, k)[j1].next) /\ Is(R, r2, p, k, ListOf(Q, p, k)[j2].next)
                             /\ R[r1][3] # 0 /\ R[r2][3] # 0 => r1 < r2
    BY DEF SlotsOK
  <2>1. CASE p \in 1 .. Len(P)
    <3>1. ListOf(Q, p, k) = ListOf(P, p, k)
      BY <2>1, <1>3
    <3> QED BY <2>1, <3>1 DEF SlotsOK
  <2>2. CASE p = n
    <3>1. 1 .. Len(ListOf(Q, p, k)) = {}
      BY <2>2, <1>3
    <3> QED BY <3>1
  <2> QED BY <2>1, <2>2, <1>1, <1>2
<1>21. TasksOK(Q, W, R)
  <2> SUFFICES ASSUME NEW l \in DOMAIN W PROVE TaskOK(Q, W, R, l)
    BY DEF TasksOK
  <2>1. TaskOK(P, W, R, l)
    BY <1>4
  <2> QED BY <2>1, <1>1, <1>3 DEF TaskOK
<1>22. DueOnce(Q, W)
  BY <1>6 DEF DueOnce
<1>23. CalledOnce(Q, W, R, C)
  <2>1. \A c \in 1 .. Len(C) : /\ C[c][2] # 0 /\ NotDue(Q, W, C[c][2])
                                /\ \E p \in 1 .. Len(P) : Given(R, p, C[c][1], C[c][2]) /\ Matches(C[c][1], Q[p].s)
    BY <1>3, <1>13 DEF CalledOnce
  <2>2. \A p \in 1 .. Len(P) : p \in 1 .. Len(Q)
    BY <1>1
  <2> QED BY <2>1, <2>2 DEF CalledOnce
<1>24. WaitingOK(Q, W, B)
  <2>1. \A l \in DOMAIN W : \A j \in Due(Q, W, l) :
       DueCb(Q, W, l, j).next # 0 => Untouched(Q, W, B, DueCb(Q, W, l, j).next)
    BY <1>6, <1>10, <1>17 DEF WaitingOK
  <2>2. \A p \in 1 .. Len(P), k \in Kinds : \A j \in 1 .. Len(ListOf(P, p, k)) :
          ListOf(P, p, k)[j].next # 0 => ListOf(P, p, k)[j].next \in 1 .. Len(P)
    BY Registered DEF SlotsOK
  <2>3. \A p \in 1 .. n, k \in Kinds : \A j \in 1 .. Len(ListOf(Q, p, k)) :
       Pending(Q, p) /\ ListOf(Q, p, k)[j].next # 0 => Untouched(Q, W, B, ListOf(Q, p, k)[j].next)
    BY <2>2, <1>2, <1>3, <1>10 DEF WaitingOK
  <2> QED BY <2>1, <2>3, <1>1 DEF WaitingOK
<1>25. UserOK(Q, W, C, B)
  BY <1>1, <1>3, <1>5, <1>9 DEF UserOK
<1>26. AdoptOK(Q, W, C, B)
  <2>1. \A q \in 1 .. Len(P) : \A h, x : Agrees(P, h, x, q) => Agrees(Q, h, x, q)
    BY <1>3 DEF Agrees
  <2> QED BY <2>1, <1>1, <1>2, <1>3 DEF AdoptOK
<1>27. ArgOK(Q, W, R, B)
  <2>1. \A m \in 1 .. Len(P) : Unsettled(P, W, m) => Unsettled(Q, W, m)
    BY <1>3 DEF Unsettled
  <2>2. \A l \in DOMAIN W : \A j \in Due(P, W, l) : DueCb(P, W, l, j).arg # 0 => DueCb(P, W, l, j).arg \in 1 .. Len(P)
    BY DueGiven
  <2>3. \A p \in 1 .. Len(Q), k \in Kinds : \A j \in 1 .. Len(ListOf(Q, p, k)) : ListOf(Q, p, k)[j].arg # 0 =>
          /\ ListOf(Q, p, k)[j].arg \in 1 .. Len(Q) /\ B[ListOf(Q, p, k)[j].arg] = p
          /\ Pending(Q, p) => Unsettled(Q, W, ListOf(Q, p, k)[j].arg)
    BY <2>1, <1>1, <1>2, <1>3 DEF ArgOK
  <2>4. \A l \in DOMAIN W : W[l].t = "call" /\ W[l].cb.arg # 0 =>
          W[l].cb.arg \in 1 .. Len(Q) /\ Given(R, B[W[l].cb.arg], W[l].how, W[l].cb.next)
    BY <1>1 DEF ArgOK
  <2>5. \A l \in DOMAIN W : \A j \in Due(Q, W, l) : DueCb(Q, W, l, j).arg # 0 => Unsettled(Q, W, DueCb(Q, W, l, j).arg)
    BY <2>1, <2>2, <1>6 DEF ArgOK
  <2> QED BY <2>3, <2>4, <2>5 DEF ArgOK
<1>28. ArgOnce(Q, W)
  <2>1. \A m, e : Belong(P, W, m, e) => Belong(Q, W, m, e)
    <3> SUFFICES ASSUME NEW m, NEW e, Belong(P, W, m, e) PROVE Belong(Q, W, m, e)
      OBVIOUS
    <3>1. ASSUME NEW p \in 1 .. Len(Q), NEW k \in Kinds, NEW j \in 1 .. Len(ListOf(Q, p, k)), ListOf(Q, p, k)[j].arg = m
          PROVE  ListOf(Q, p, k)[j].next = e
      <4>1. p \in 1 .. Len(P) /\ ListOf(Q, p, k) = ListOf(P, p, k)
        BY <1>1, <1>2, <1>3
      <4> QED BY <3>1, <4>1 DEF Belong
    <3> QED BY <3>1 DEF Belong
  <2>2. Belong(Q, W, n, 0)
    BY <1>11 DEF Belong, NoArg
  <2> QED BY <2>1, <2>2, <1>1, <1>2 DEF ArgOnce
<1>29. ASSUME Ordered(P, W, R, C) PROVE Ordered(Q, W, R, C)
  BY <1>6, <1>29 DEF Ordered, DueOrder, CallOrder
<1> QED BY <1>12, <1>14, <1>15, <1>16, <1>18, <1>19, <1>20, <1>21, <1>22, <1>23, <1>24, <1>25, <1>26, <1>27, <1>28, <1>29

\* Q is P, but for cb at the end of a list of p.
Grown(Q, P, p, k, cb) ==
  /\ Q \in Seq(PrimRecords) /\ Len(Q) = Len(P) /\ ListOf(Q, p, k) = Append(ListOf(P, p, k), cb)
  /\ \A q \in 1 .. Len(P), e \in Kinds : q # p \/ e # k => ListOf(Q, q, e) = ListOf(P, q, e)
  /\ \A q \in 1 .. Len(P) : Q[q].s = P[q].s /\ Q[q].x = P[q].x

\* A callback is registered, and waits in a list.
LEMMA Register ==
  ASSUME NEW P, NEW Q, NEW W, NEW R, NEW C, NEW A, NEW p \in 1 .. Len(P), NEW k \in Kinds, NEW cb \in Cbs, Sane(P, W, R, C, A),
         Grown(Q, P, p, k, cb), ~Matches(k, P[p].s), CbOK(cb, k),
         cb.next # 0 => /\ cb.next \in 1 .. Len(P) /\ p < cb.next /\ cb.next > 2
                        /\ \A r \in 1 .. Len(R) : R[r][3] = cb.next => R[r][1] = p /\ R[r][2] # k
                        /\ Pending(P, p) => Untouched(P, W, A, cb.next),
         cb.arg # 0 => /\ cb.arg \in 1 .. Len(P) /\ A[cb.arg] = p /\ Belong(P, W, cb.arg, cb.next)
                       /\ Pending(P, p) => Unsettled(P, W, cb.arg)
  PROVE  /\ Sane(Q, W, Append(R, <<p, k, cb.next>>), C, A)
         /\ Ordered(P, W, R, C) => Ordered(Q, W, Append(R, <<p, k, cb.next>>), C)
<1> USE DEF Sane
<1> DEFINE S == Append(R, <<p, k, cb.next>>)
           z == Len(R) + 1
           y == Len(ListOf(P, p, k)) + 1
<1>0. cb.next \in Nat /\ cb.arg \in Nat
  BY DEF Cbs
<1>1. /\ R \in Seq(Nat \X Kinds \X Nat) /\ S \in Seq(Nat \X Kinds \X Nat) /\ Len(S) = z /\ z \in Nat /\ Len(R) \in Nat
      /\ \A r \in 1 .. Len(R) : S[r] = R[r] /\ r # z
      /\ S[z][1] = p /\ S[z][2] = k /\ S[z][3] = cb.next
  BY <1>0 DEF Typed
<1> HIDE DEF S
<1>2. \A r \in 1 .. Len(S) : r \in 1 .. Len(R) \/ r = z
  BY <1>1
<1>3. \A q, e, m : Given(S, q, e, m) <=> Given(R, q, e, m) \/ (q = p /\ e = k /\ m = cb.next)
  <2>1. \A q, e, m : \A r \in 1 .. Len(R) : Is(S, r, q, e, m) <=> Is(R, r, q, e, m)
    BY <1>1 DEF Is
  <2>2. \A q, e, m : Is(S, z, q, e, m) <=> q = p /\ e = k /\ m = cb.next
    BY <1>1 DEF Is
  <2>3. z \in 1 .. Len(S) /\ \A r \in 1 .. Len(R) : r \in 1 .. Len(S)
    BY <1>1
  <2> QED BY <2>1, <2>2, <2>3, <1>2 DEF Given
<1>4. /\ Len(Q) = Len(P) /\ 1 .. Len(Q) = 1 .. Len(P)
      /\ \A q \in 1 .. Len(P) : (Pending(Q, q) <=> Pending(P, q)) /\ Q[q].s = P[q].s /\ Q[q].x = P[q].x
  BY DEF Grown, Pending
<1>5. /\ \A q \in 1 .. Len(P), e \in Kinds : q # p \/ e # k => ListOf(Q, q, e) = ListOf(P, q, e)
      /\ ListOf(P, p, k) \in Seq(Cbs) /\ Len(ListOf(Q, p, k)) = y /\ y \in Nat /\ Len(ListOf(P, p, k)) \in Nat
      /\ \A j \in 1 .. Len(ListOf(P, p, k)) : ListOf(Q, p, k)[j] = ListOf(P, p, k)[j] /\ j # y /\ j < y
      /\ ListOf(Q, p, k)[y] = cb
  <2>0. P[p] \in PrimRecords
    BY DEF Typed
  <2>1. ListOf(P, p, k) \in Seq(Cbs)
    BY <2>0 DEF PrimRecords, ListOf
  <2> QED BY <2>1 DEF Grown

\* A callback in a list of Q is one of P or the new one.
<1>6. \A q \in 1 .. Len(P), e \in Kinds : \A j \in 1 .. Len(ListOf(Q, q, e)) :
        \/ j \in 1 .. Len(ListOf(P, q, e)) /\ ListOf(Q, q, e)[j] = ListOf(P, q, e)[j]
        \/ q = p /\ e = k /\ j = y /\ ListOf(Q, q, e)[j] = cb
  <2>1. \A j \in 1 .. y : j \in 1 .. Len(ListOf(P, p, k)) \/ j = y
    BY <1>5
  <2> QED BY <2>1, <1>5
<1>7. \A q \in 1 .. Len(P), e \in Kinds : \A j \in 1 .. Len(ListOf(P, q, e)) :
        j \in 1 .. Len(ListOf(Q, q, e)) /\ ListOf(Q, q, e)[j] = ListOf(P, q, e)[j]
  BY <1>5
<1>8. \A l \in DOMAIN W : TaskOK(P, W, R, l)
  BY DEF TasksOK
<1>9. \A l \in DOMAIN W : W[l].t = "each" => /\ W[l].p \in 1 .. Len(P) /\ W[l].how \in Kinds
                                            /\ ListOf(Q, W[l].p, W[l].how) = ListOf(P, W[l].p, W[l].how)
  BY <1>5, <1>8 DEF TaskOK
<1>10. \A l \in DOMAIN W : Due(Q, W, l) = Due(P, W, l) /\ \A j : j \in Due(P, W, l) => DueCb(Q, W, l, j) = DueCb(P, W, l, j)
  BY <1>9 DEF Due, DueCb
<1>11. \A m : NoArg(P, W, m) /\ m # cb.arg => NoArg(Q, W, m)
  BY <1>4, <1>6 DEF NoArg
<1>12. \A m \in 1 .. Len(P) : Untouched(P, W, A, m) => Untouched(Q, W, A, m)
  <2>1. \A m \in 1 .. Len(P) : Untouched(P, W, A, m) => m # cb.arg
    BY DEF Untouched
  <2> QED BY <2>1, <1>4, <1>11 DEF Untouched
<1>13. \A m : NotDue(P, W, m) => NotDue(Q, W, m)
  BY <1>10 DEF NotDue
<1>14. Typed(Q, W, S, C, A)
  BY <1>1, <1>4 DEF Typed, Grown
<1>15. RegsOK(Q, S)
  <2>1. \A r \in 1 .. Len(S) : /\ S[r][1] \in 1 .. Len(Q)
                               /\ S[r][3] # 0 => S[r][3] \in 1 .. Len(Q) /\ S[r][1] < S[r][3] /\ S[r][3] > 2
                               /\ S[r][3] = 0 => S[r][2] = "fail"
    <3> SUFFICES ASSUME NEW r \in 1 .. Len(S)
                 PROVE  /\ S[r][1] \in 1 .. Len(P)
                        /\ S[r][3] # 0 => S[r][3] \in 1 .. Len(P) /\ S[r][1] < S[r][3] /\ S[r][3] > 2
                        /\ S[r][3] = 0 => S[r][2] = "fail"
      BY <1>4
    <3>1. CASE r \in 1 .. Len(R)
      <4>1. S[r] = R[r]
        BY <3>1, <1>1
      <4> QED BY <3>1, <4>1 DEF RegsOK
    <3>2. CASE r = z
      BY <3>2, <1>1 DEF CbOK
    <3> QED BY <3>1, <3>2, <1>2
  <2>2. ASSUME NEW r1 \in 1 .. Len(S), NEW r2 \in 1 .. Len(S), S[r1][3] = S[r2][3], S[r1][3] # 0
        PROVE  S[r1][1] = S[r2][1] /\ (S[r1][2] = S[r2][2] => r1 = r2)
    <3>1. CASE r1 \in 1 .. Len(R) /\ r2 \in 1 .. Len(R)
      <4>1. S[r1] = R[r1] /\ S[r2] = R[r2]
        BY <3>1, <1>1
      <4>2. /\ R[r1][3] = R[r2][3] /\ R[r1][3] # 0 => R[r1][1] = R[r2][1]
            /\ R[r1][3] = R[r2][3] /\ R[r1][3] # 0 /\ R[r1][2] = R[r2][2] => r1 = r2
        BY <3>1 DEF RegsOK
      <4> QED BY <2>2, <4>1, <4>2
    <3>2. CASE r1 = z /\ r2 \in 1 .. Len(R)
      BY <2>2, <3>2, <1>1
    <3>3. CASE r1 \in 1 .. Len(R) /\ r2 = z
      BY <2>2, <3>3, <1>1
    <3>4. CASE r1 = z /\ r2 = z
      BY <3>4
    <3> QED BY <3>1, <3>2, <3>3, <3>4, <1>2
  <2> QED BY <2>1, <2>2 DEF RegsOK
<1>16. SlotsOK(Q, S)
  <2> SUFFICES ASSUME NEW q \in 1 .. Len(P), NEW e \in Kinds
               PROVE  /\ \A j \in 1 .. Len(ListOf(Q, q, e)) : CbOK(ListOf(Q, q, e)[j], e) /\ Given(S, q, e, ListOf(Q, q, e)[j].next)
                      /\ \A j1, j2 \in 1 .. Len(ListOf(Q, q, e)), r1, r2 \in 1 .. Len(S) :
                           j1 < j2 /\ Is(S, r1, q, e, ListOf(Q, q, e)[j1].next) /\ Is(S, r2, q, e, ListOf(Q, q, e)[j2].next)
                             /\ S[r1][3] # 0 /\ S[r2][3] # 0 => r1 < r2
    BY <1>4 DEF SlotsOK
  <2>1. ASSUME NEW j \in 1 .. Len(ListOf(Q, q, e))
        PROVE  CbOK(ListOf(Q, q, e)[j], e) /\ Given(S, q, e, ListOf(Q, q, e)[j].next)
    <3>1. CASE j \in 1 .. Len(ListOf(P, q, e)) /\ ListOf(Q, q, e)[j] = ListOf(P, q, e)[j]
      BY <3>1, <1>3 DEF SlotsOK
    <3>2. CASE q = p /\ e = k /\ j = y /\ ListOf(Q, q, e)[j] = cb
      BY <3>2, <1>3
    <3> QED BY <3>1, <3>2, <1>6
  <2>2. ASSUME NEW j1 \in 1 .. Len(ListOf(Q, q, e)), NEW j2 \in 1 .. Len(ListOf(Q, q, e)), NEW r1 \in 1 .. Len(S), NEW r2 \in 1 .. Len(S),
               j1 < j2, Is(S, r1, q, e, ListOf(Q, q, e)[j1].next), Is(S, r2, q, e, ListOf(Q, q, e)[j2].next),
               S[r1][3] # 0, S[r2][3] # 0
        PROVE  r1 < r2
    <3>1. j1 \in 1 .. Len(ListOf(P, q, e)) /\ ListOf(Q, q, e)[j1] = ListOf(P, q, e)[j1]
      BY <2>2, <1>5, <1>6
    <3>2. r1 \in 1 .. Len(R)
      <4>1. Given(R, q, e, ListOf(P, q, e)[j1].next)
        BY <3>1 DEF SlotsOK
      <4>2. PICK r \in 1 .. Len(R) : R[r][1] = q /\ R[r][2] = e /\ R[r][3] = ListOf(P, q, e)[j1].next
        BY <4>1 DEF Given, Is
      <4>3. r1 = z => q = p /\ e = k /\ ListOf(P, q, e)[j1].next = cb.next
        BY <2>2, <3>1, <1>1 DEF Is
      <4> QED BY <4>2, <4>3, <2>2, <3>1, <1>1, <1>2 DEF Is
    <3>3. CASE r2 = z
      BY <3>2, <3>3, <1>1
    <3>4. CASE r2 \in 1 .. Len(R) /\ j2 \in 1 .. Len(ListOf(P, q, e)) /\ ListOf(Q, q, e)[j2] = ListOf(P, q, e)[j2]
      <4>1. Is(R, r1, q, e, ListOf(P, q, e)[j1].next) /\ Is(R, r2, q, e, ListOf(P, q, e)[j2].next) /\ R[r1][3] # 0 /\ R[r2][3] # 0
        BY <2>2, <3>1, <3>2, <3>4, <1>1 DEF Is
      <4> QED BY <2>2, <3>1, <3>2, <3>4, <4>1 DEF SlotsOK
    <3>5. CASE r2 \in 1 .. Len(R) /\ q = p /\ e = k /\ ListOf(Q, q, e)[j2] = cb
      BY <2>2, <3>5, <1>1 DEF Is
    <3> QED BY <3>3, <3>4, <3>5, <1>2, <1>6
  <2> QED BY <2>1, <2>2
<1>17. Listed(Q, S)
  <2> SUFFICES ASSUME NEW r \in 1 .. Len(S), S[r][3] # 0, Pending(Q, S[r][1])
               PROVE  \E j \in 1 .. Len(ListOf(Q, S[r][1], S[r][2])) : ListOf(Q, S[r][1], S[r][2])[j].next = S[r][3]
    BY DEF Listed
  <2>1. CASE r \in 1 .. Len(R)
    <3>0. R[r] \in Nat \X Kinds \X Nat
      BY <2>1 DEF Typed
    <3>1. S[r] = R[r] /\ R[r][1] \in 1 .. Len(P) /\ R[r][2] \in Kinds
      BY <2>1, <3>0, <1>1 DEF RegsOK
    <3>2. PICK j \in 1 .. Len(ListOf(P, R[r][1], R[r][2])) : ListOf(P, R[r][1], R[r][2])[j].next = R[r][3]
      BY <2>1, <3>1, <1>4 DEF Listed
    <3> QED BY <3>1, <3>2, <1>7
  <2>2. CASE r = z
    <3>1. y \in 1 .. Len(ListOf(Q, p, k))
      BY <1>5
    <3> QED BY <2>2, <3>1, <1>1, <1>5
  <2> QED BY <2>1, <2>2, <1>2
<1>18. TasksOK(Q, W, S)
  <2> SUFFICES ASSUME NEW l \in DOMAIN W PROVE TaskOK(Q, W, S, l)
    BY DEF TasksOK
  <2>1. TaskOK(P, W, R, l)
    BY <1>8
  <2> QED BY <2>1, <1>3, <1>4 DEF TaskOK
<1>19. DueOnce(Q, W)
  BY <1>10 DEF DueOnce
<1>20. CalledOnce(Q, W, S, C)
  BY <1>3, <1>4, <1>13 DEF CalledOnce
<1>21. WaitingOK(Q, W, A)
  <2>1. \A l \in DOMAIN W : \A j \in Due(Q, W, l) :
       DueCb(Q, W, l, j).next # 0 => Untouched(Q, W, A, DueCb(Q, W, l, j).next)
    BY <1>10, <1>12, DueGiven DEF WaitingOK
  <2>2. ASSUME NEW q \in 1 .. Len(P), NEW e \in Kinds, NEW j \in 1 .. Len(ListOf(Q, q, e)), Pending(Q, q), ListOf(Q, q, e)[j].next # 0
        PROVE  Untouched(Q, W, A, ListOf(Q, q, e)[j].next)
    <3>1. CASE j \in 1 .. Len(ListOf(P, q, e)) /\ ListOf(Q, q, e)[j] = ListOf(P, q, e)[j]
      <4>1. ListOf(P, q, e)[j].next \in 1 .. Len(P)
        BY <2>2, <3>1, Registered DEF SlotsOK
      <4> QED BY <2>2, <3>1, <4>1, <1>4, <1>12 DEF WaitingOK
    <3>2. CASE q = p /\ e = k /\ j = y /\ ListOf(Q, q, e)[j] = cb
      BY <2>2, <3>2, <1>4, <1>12
    <3> QED BY <3>1, <3>2, <1>6
  <2> QED BY <2>1, <2>2, <1>4 DEF WaitingOK
<1>22. UserOK(Q, W, C, A)
  <2>1. \A l \in DOMAIN W : W[l].t = "user" => W[l].cb.next \in 1 .. Len(P)
    BY <1>8 DEF TaskOK
  <2>2. \A l \in DOMAIN W : W[l].t = "user" => W[l].cb.next # cb.arg
    BY <2>1 DEF UserOK
  <2> QED BY <2>1, <2>2, <1>4, <1>11 DEF UserOK
<1>23. AdoptOK(Q, W, C, A)
  <2>1. \A q \in 1 .. Len(P) : \A h, x : Agrees(P, h, x, q) => Agrees(Q, h, x, q)
    BY <1>4 DEF Agrees
  <2> QED BY <2>1, <1>4 DEF AdoptOK
<1>24. ArgOK(Q, W, S, A)
  <2>1. \A m \in 1 .. Len(P) : Unsettled(P, W, m) => Unsettled(Q, W, m)
    BY <1>4 DEF Unsettled
  <2>2. \A q \in 1 .. Len(Q), e \in Kinds : \A j \in 1 .. Len(ListOf(Q, q, e)) : ListOf(Q, q, e)[j].arg # 0 =>
          /\ ListOf(Q, q, e)[j].arg \in 1 .. Len(Q) /\ A[ListOf(Q, q, e)[j].arg] = q
          /\ Pending(Q, q) => Unsettled(Q, W, ListOf(Q, q, e)[j].arg)
    <3> SUFFICES ASSUME NEW q \in 1 .. Len(P), NEW e \in Kinds, NEW j \in 1 .. Len(ListOf(Q, q, e)), ListOf(Q, q, e)[j].arg # 0
                 PROVE  /\ ListOf(Q, q, e)[j].arg \in 1 .. Len(P) /\ A[ListOf(Q, q, e)[j].arg] = q
                        /\ Pending(P, q) => Unsettled(Q, W, ListOf(Q, q, e)[j].arg)
      BY <1>4
    <3>1. CASE j \in 1 .. Len(ListOf(P, q, e)) /\ ListOf(Q, q, e)[j] = ListOf(P, q, e)[j]
      BY <3>1, <2>1 DEF ArgOK
    <3>2. CASE q = p /\ e = k /\ j = y /\ ListOf(Q, q, e)[j] = cb
      BY <3>2, <2>1
    <3> QED BY <3>1, <3>2, <1>6
  <2>3. \A l \in DOMAIN W : W[l].t = "call" /\ W[l].cb.arg # 0 =>
          W[l].cb.arg \in 1 .. Len(Q) /\ Given(S, A[W[l].cb.arg], W[l].how, W[l].cb.next)
    BY <1>3, <1>4 DEF ArgOK
  <2>4. \A l \in DOMAIN W : \A j \in Due(Q, W, l) : DueCb(Q, W, l, j).arg # 0 => Unsettled(Q, W, DueCb(Q, W, l, j).arg)
    BY <2>1, <1>10, DueGiven DEF ArgOK
  <2> QED BY <2>2, <2>3, <2>4 DEF ArgOK
<1>25. ArgOnce(Q, W)
  <2> SUFFICES ASSUME NEW n \in 1 .. Len(P) PROVE \E m \in Nat : Belong(Q, W, n, m)
    BY <1>4 DEF ArgOnce
  <2>1. PICK m \in Nat : Belong(P, W, n, m) /\ (n = cb.arg => m = cb.next)
    <3>1. CASE n = cb.arg
      BY <3>1, <1>0
    <3>2. CASE n # cb.arg
      BY <3>2 DEF ArgOnce
    <3> QED BY <3>1, <3>2
  <2>2. ASSUME NEW q \in 1 .. Len(P), NEW e \in Kinds, NEW j \in 1 .. Len(ListOf(Q, q, e)), ListOf(Q, q, e)[j].arg = n
        PROVE  ListOf(Q, q, e)[j].next = m
    <3>1. CASE j \in 1 .. Len(ListOf(P, q, e)) /\ ListOf(Q, q, e)[j] = ListOf(P, q, e)[j]
      BY <3>1, <2>1, <2>2 DEF Belong
    <3>2. CASE q = p /\ e = k /\ j = y /\ ListOf(Q, q, e)[j] = cb
      BY <3>2, <2>1, <2>2
    <3> QED BY <3>1, <3>2, <1>6
  <2>3. Belong(Q, W, n, m)
    BY <2>1, <2>2, <1>4 DEF Belong
  <2> QED BY <2>3
<1>26. ASSUME Ordered(P, W, R, C) PROVE Ordered(Q, W, S, C)
  <2>1. \A l \in DOMAIN W : \A j \in Due(P, W, l), r \in 1 .. Len(S) :
          S[r][3] # 0 /\ S[r][2] = W[l].how /\ S[r][3] = DueCb(P, W, l, j).next => r \in 1 .. Len(R)
    <3> SUFFICES ASSUME NEW l \in DOMAIN W, NEW j \in Due(P, W, l), cb.next # 0, k = W[l].how, cb.next = DueCb(P, W, l, j).next PROVE FALSE
      BY <1>1, <1>2
    <3>1. PICK q \in 1 .. Len(P) : Given(R, q, k, cb.next)
      BY DueGiven
    <3> QED BY <3>1 DEF Given, Is
  <2>2. \A c \in 1 .. Len(C), r \in 1 .. Len(S) : S[r][2] = C[c][1] /\ S[r][3] = C[c][2] => r \in 1 .. Len(R)
    <3> SUFFICES ASSUME NEW c \in 1 .. Len(C), cb.next # 0, k = C[c][1], cb.next = C[c][2] PROVE FALSE
      BY <1>1, <1>2 DEF CalledOnce
    <3>1. PICK q \in 1 .. Len(P) : Given(R, q, k, cb.next)
      BY DEF CalledOnce
    <3> QED BY <3>1 DEF Given, Is
  <2>3. \A r1, r2 \in 1 .. Len(R) : SamePlace(S, r1, r2) <=> SamePlace(R, r1, r2)
    BY <1>1 DEF SamePlace
  <2>4. DueOrder(Q, W, S)
    <3> SUFFICES ASSUME NEW l1 \in DOMAIN W, NEW l2 \in DOMAIN W, NEW j1 \in Due(P, W, l1), NEW j2 \in Due(P, W, l2),
                        NEW r1 \in 1 .. Len(S), NEW r2 \in 1 .. Len(S), S[r1][3] # 0, S[r2][3] # 0, SamePlace(S, r1, r2), r1 < r2,
                        S[r1][2] = W[l1].how, S[r1][3] = DueCb(P, W, l1, j1).next,
                        S[r2][2] = W[l2].how, S[r2][3] = DueCb(P, W, l2, j2).next
                 PROVE  l1 > l2 \/ (l1 = l2 /\ j1 < j2)
      BY <1>10 DEF DueOrder
    <3>1. r1 \in 1 .. Len(R) /\ r2 \in 1 .. Len(R)
      BY <2>1
    <3>2. S[r1] = R[r1] /\ S[r2] = R[r2] /\ SamePlace(R, r1, r2)
      BY <3>1, <2>3, <1>1
    <3>3. /\ R[r1][3] # 0 /\ R[r2][3] # 0 /\ R[r1][2] = W[l1].how /\ R[r1][3] = DueCb(P, W, l1, j1).next
          /\ R[r2][2] = W[l2].how /\ R[r2][3] = DueCb(P, W, l2, j2).next
      BY <3>2
    <3>4. DueOrder(P, W, R)
      BY <1>26 DEF Ordered
    <3> QED BY <3>1, <3>2, <3>3, <3>4 DEF DueOrder
  <2>5. CallOrder(Q, W, S, C)
    <3>1. ASSUME NEW c \in 1 .. Len(C), NEW l \in DOMAIN W, NEW j \in Due(P, W, l), NEW r1 \in 1 .. Len(S), NEW r2 \in 1 .. Len(S),
                 S[r1][2] = W[l].how, S[r1][3] = DueCb(P, W, l, j).next, S[r1][3] # 0,
                 S[r2][2] = C[c][1], S[r2][3] = C[c][2], SamePlace(S, r1, r2)
          PROVE  r2 < r1
      <4>1. r1 \in 1 .. Len(R) /\ r2 \in 1 .. Len(R)
        BY <2>1, <2>2, <3>1
      <4>2. S[r1] = R[r1] /\ S[r2] = R[r2] /\ SamePlace(R, r1, r2)
        BY <3>1, <4>1, <2>3, <1>1
      <4>3. /\ R[r1][2] = W[l].how /\ R[r1][3] = DueCb(P, W, l, j).next /\ R[r1][3] # 0
            /\ R[r2][2] = C[c][1] /\ R[r2][3] = C[c][2]
        BY <3>1, <4>2
      <4>4. CallOrder(P, W, R, C)
        BY <1>26 DEF Ordered
      <4> QED BY <4>1, <4>2, <4>3, <4>4 DEF CallOrder
    <3>2. ASSUME NEW c1 \in 1 .. Len(C), NEW c2 \in 1 .. Len(C), NEW r1 \in 1 .. Len(S), NEW r2 \in 1 .. Len(S),
                 c1 < c2, S[r1][2] = C[c1][1], S[r1][3] = C[c1][2], S[r2][2] = C[c2][1], S[r2][3] = C[c2][2], SamePlace(S, r1, r2)
          PROVE  r1 < r2
      <4>1. r1 \in 1 .. Len(R) /\ r2 \in 1 .. Len(R)
        BY <2>2, <3>2
      <4>2. S[r1] = R[r1] /\ S[r2] = R[r2] /\ SamePlace(R, r1, r2)
        BY <3>2, <4>1, <2>3, <1>1
      <4>3. R[r1][2] = C[c1][1] /\ R[r1][3] = C[c1][2] /\ R[r2][2] = C[c2][1] /\ R[r2][3] = C[c2][2] /\ c1 < c2
        BY <3>2, <4>2
      <4>4. CallOrder(P, W, R, C)
        BY <1>26 DEF Ordered
      <4> QED BY <4>1, <4>2, <4>3, <4>4 DEF CallOrder
    <3> QED BY <3>1, <3>2, <1>10 DEF CallOrder
  <2> QED BY <2>4, <2>5, <1>26 DEF Ordered
<1> QED BY <1>14, <1>15, <1>16, <1>17, <1>18, <1>19, <1>20, <1>21, <1>22, <1>23, <1>24, <1>25, <1>26 DEF S

\* A callback is registered for a promise that is settled: it is to be called, not listed.
LEMMA Noted ==
  ASSUME NEW P, NEW W, NEW R, NEW C, NEW A, NEW p \in 1 .. Len(P), NEW k \in Kinds, NEW n \in Nat, Sane(P, W, R, C, A),
         ~Pending(P, p), n = 0 => k = "fail",
         n # 0 => /\ n \in 1 .. Len(P) /\ p < n /\ n > 2
                  /\ \A r \in 1 .. Len(R) : R[r][3] = n => R[r][1] = p /\ R[r][2] # k
  PROVE  /\ Sane(P, W, Append(R, <<p, k, n>>), C, A) /\ Given(Append(R, <<p, k, n>>), p, k, n)
         /\ Ordered(P, W, R, C) => Ordered(P, W, Append(R, <<p, k, n>>), C)
         /\ \A r \in 1 .. Len(R) : Append(R, <<p, k, n>>)[r] = R[r]
         /\ Len(Append(R, <<p, k, n>>)) = Len(R) + 1 /\ Is(Append(R, <<p, k, n>>), Len(R) + 1, p, k, n)
<1> USE DEF Sane
<1> DEFINE S == Append(R, <<p, k, n>>)
           z == Len(R) + 1
<1>1. /\ R \in Seq(Nat \X Kinds \X Nat) /\ S \in Seq(Nat \X Kinds \X Nat) /\ Len(S) = z /\ z \in Nat /\ Len(R) \in Nat
      /\ \A r \in 1 .. Len(R) : S[r] = R[r] /\ r # z
      /\ S[z][1] = p /\ S[z][2] = k /\ S[z][3] = n
  BY DEF Typed
<1> HIDE DEF S
<1>2. \A r \in 1 .. Len(S) : r \in 1 .. Len(R) \/ r = z
  BY <1>1
<1>3. \A q, e, m : Given(S, q, e, m) <=> Given(R, q, e, m) \/ (q = p /\ e = k /\ m = n)
  <2>1. \A q, e, m : \A r \in 1 .. Len(R) : Is(S, r, q, e, m) <=> Is(R, r, q, e, m)
    BY <1>1 DEF Is
  <2>2. \A q, e, m : Is(S, z, q, e, m) <=> q = p /\ e = k /\ m = n
    BY <1>1 DEF Is
  <2>3. z \in 1 .. Len(S) /\ \A r \in 1 .. Len(R) : r \in 1 .. Len(S)
    BY <1>1
  <2> QED BY <2>1, <2>2, <2>3, <1>2 DEF Given
<1>4. Typed(P, W, S, C, A)
  BY <1>1 DEF Typed
<1>5. RegsOK(P, S)
  <2>1. ASSUME NEW r \in 1 .. Len(S)
        PROVE  /\ S[r][1] \in 1 .. Len(P)
               /\ S[r][3] # 0 => S[r][3] \in 1 .. Len(P) /\ S[r][1] < S[r][3] /\ S[r][3] > 2
               /\ S[r][3] = 0 => S[r][2] = "fail"
    <3>1. CASE r \in 1 .. Len(R)
      <4>1. S[r] = R[r]
        BY <3>1, <1>1
      <4> QED BY <3>1, <4>1 DEF RegsOK
    <3>2. CASE r = z
      BY <3>2, <1>1
    <3> QED BY <3>1, <3>2, <1>2
  <2>2. ASSUME NEW r1 \in 1 .. Len(S), NEW r2 \in 1 .. Len(S), S[r1][3] = S[r2][3], S[r1][3] # 0
        PROVE  S[r1][1] = S[r2][1] /\ (S[r1][2] = S[r2][2] => r1 = r2)
    <3>1. CASE r1 \in 1 .. Len(R) /\ r2 \in 1 .. Len(R)
      <4>1. S[r1] = R[r1] /\ S[r2] = R[r2]
        BY <3>1, <1>1
      <4> QED BY <2>2, <3>1, <4>1 DEF RegsOK
    <3>2. CASE r1 = z /\ r2 \in 1 .. Len(R)
      BY <2>2, <3>2, <1>1
    <3>3. CASE r1 \in 1 .. Len(R) /\ r2 = z
      BY <2>2, <3>3, <1>1
    <3>4. CASE r1 = z /\ r2 = z
      BY <3>4
    <3> QED BY <3>1, <3>2, <3>3, <3>4, <1>2
  <2> QED BY <2>1, <2>2 DEF RegsOK
<1>6. SlotsOK(P, S)
  <2> SUFFICES ASSUME NEW q \in 1 .. Len(P), NEW e \in Kinds
               PROVE  /\ \A j \in 1 .. Len(ListOf(P, q, e)) : CbOK(ListOf(P, q, e)[j], e) /\ Given(S, q, e, ListOf(P, q, e)[j].next)
                      /\ \A j1, j2 \in 1 .. Len(ListOf(P, q, e)), r1, r2 \in 1 .. Len(S) :
                           j1 < j2 /\ Is(S, r1, q, e, ListOf(P, q, e)[j1].next) /\ Is(S, r2, q, e, ListOf(P, q, e)[j2].next)
                             /\ S[r1][3] # 0 /\ S[r2][3] # 0 => r1 < r2
    BY DEF SlotsOK
  <2>1. \A j \in 1 .. Len(ListOf(P, q, e)) : CbOK(ListOf(P, q, e)[j], e) /\ Given(R, q, e, ListOf(P, q, e)[j].next)
    BY DEF SlotsOK
  <2>2. ASSUME NEW j \in 1 .. Len(ListOf(P, q, e)), NEW r \in 1 .. Len(S), Is(S, r, q, e, ListOf(P, q, e)[j].next), S[r][3] # 0
        PROVE  r \in 1 .. Len(R) /\ Is(R, r, q, e, ListOf(P, q, e)[j].next) /\ R[r][3] # 0
    <3>1. CASE r = z
      <4>1. Given(R, p, k, n) /\ n # 0
        BY <2>1, <2>2, <3>1, <1>1 DEF Is
      <4> QED BY <4>1 DEF Given, Is
    <3>2. CASE r \in 1 .. Len(R)
      BY <2>2, <3>2, <1>1 DEF Is
    <3> QED BY <3>1, <3>2, <1>2
  <2> QED BY <2>1, <2>2, <1>3 DEF SlotsOK
<1>7. Listed(P, S)
  <2> SUFFICES ASSUME NEW r \in 1 .. Len(S), S[r][3] # 0, Pending(P, S[r][1])
               PROVE  \E j \in 1 .. Len(ListOf(P, S[r][1], S[r][2])) : ListOf(P, S[r][1], S[r][2])[j].next = S[r][3]
    BY DEF Listed
  <2>1. r \in 1 .. Len(R) /\ S[r] = R[r]
    BY <1>1, <1>2
  <2> QED BY <2>1 DEF Listed
<1>8. TasksOK(P, W, S)
  <2> SUFFICES ASSUME NEW l \in DOMAIN W PROVE TaskOK(P, W, S, l)
    BY DEF TasksOK
  <2>1. TaskOK(P, W, R, l)
    BY DEF TasksOK
  <2> QED BY <2>1, <1>3 DEF TaskOK
<1>9. CalledOnce(P, W, S, C)
  BY <1>3 DEF CalledOnce
<1>10. ArgOK(P, W, S, A)
  BY <1>3 DEF ArgOK
<1>11. ASSUME Ordered(P, W, R, C) PROVE Ordered(P, W, S, C)
  <2>1. \A l \in DOMAIN W : \A j \in Due(P, W, l), r \in 1 .. Len(S) :
          S[r][3] # 0 /\ S[r][2] = W[l].how /\ S[r][3] = DueCb(P, W, l, j).next => r \in 1 .. Len(R)
    <3> SUFFICES ASSUME NEW l \in DOMAIN W, NEW j \in Due(P, W, l), n # 0, k = W[l].how, n = DueCb(P, W, l, j).next PROVE FALSE
      BY <1>1, <1>2
    <3>1. PICK q \in 1 .. Len(P) : Given(R, q, k, n)
      BY DueGiven
    <3> QED BY <3>1 DEF Given, Is
  <2>2. \A c \in 1 .. Len(C), r \in 1 .. Len(S) : S[r][2] = C[c][1] /\ S[r][3] = C[c][2] => r \in 1 .. Len(R)
    <3> SUFFICES ASSUME NEW c \in 1 .. Len(C), n # 0, k = C[c][1], n = C[c][2] PROVE FALSE
      BY <1>1, <1>2 DEF CalledOnce
    <3>1. PICK q \in 1 .. Len(P) : Given(R, q, k, n)
      BY DEF CalledOnce
    <3> QED BY <3>1 DEF Given, Is
  <2>3. \A r1, r2 \in 1 .. Len(R) : SamePlace(S, r1, r2) <=> SamePlace(R, r1, r2)
    BY <1>1 DEF SamePlace
  <2>4. DueOrder(P, W, S)
    <3> SUFFICES ASSUME NEW l1 \in DOMAIN W, NEW l2 \in DOMAIN W, NEW j1 \in Due(P, W, l1), NEW j2 \in Due(P, W, l2),
                        NEW r1 \in 1 .. Len(S), NEW r2 \in 1 .. Len(S), S[r1][3] # 0, S[r2][3] # 0, SamePlace(S, r1, r2), r1 < r2,
                        S[r1][2] = W[l1].how, S[r1][3] = DueCb(P, W, l1, j1).next,
                        S[r2][2] = W[l2].how, S[r2][3] = DueCb(P, W, l2, j2).next
                 PROVE  l1 > l2 \/ (l1 = l2 /\ j1 < j2)
      BY DEF DueOrder
    <3>1. r1 \in 1 .. Len(R) /\ r2 \in 1 .. Len(R)
      BY <2>1
    <3>2. S[r1] = R[r1] /\ S[r2] = R[r2] /\ SamePlace(R, r1, r2)
      BY <3>1, <2>3, <1>1
    <3>3. /\ R[r1][3] # 0 /\ R[r2][3] # 0 /\ R[r1][2] = W[l1].how /\ R[r1][3] = DueCb(P, W, l1, j1).next
          /\ R[r2][2] = W[l2].how /\ R[r2][3] = DueCb(P, W, l2, j2).next
      BY <3>2
    <3>4. DueOrder(P, W, R)
      BY <1>11 DEF Ordered
    <3> QED BY <3>1, <3>2, <3>3, <3>4 DEF DueOrder
  <2>5. CallOrder(P, W, S, C)
    <3>1. ASSUME NEW c \in 1 .. Len(C), NEW l \in DOMAIN W, NEW j \in Due(P, W, l), NEW r1 \in 1 .. Len(S), NEW r2 \in 1 .. Len(S),
                 S[r1][2] = W[l].how, S[r1][3] = DueCb(P, W, l, j).next, S[r1][3] # 0,
                 S[r2][2] = C[c][1], S[r2][3] = C[c][2], SamePlace(S, r1, r2)
          PROVE  r2 < r1
      <4>1. r1 \in 1 .. Len(R) /\ r2 \in 1 .. Len(R)
        BY <2>1, <2>2, <3>1
      <4>2. S[r1] = R[r1] /\ S[r2] = R[r2] /\ SamePlace(R, r1, r2)
        BY <3>1, <4>1, <2>3, <1>1
      <4> QED BY <3>1, <4>1, <4>2, <1>11 DEF Ordered, CallOrder
    <3>2. ASSUME NEW c1 \in 1 .. Len(C), NEW c2 \in 1 .. Len(C), NEW r1 \in 1 .. Len(S), NEW r2 \in 1 .. Len(S),
                 c1 < c2, S[r1][2] = C[c1][1], S[r1][3] = C[c1][2], S[r2][2] = C[c2][1], S[r2][3] = C[c2][2], SamePlace(S, r1, r2)
          PROVE  r1 < r2
      <4>1. r1 \in 1 .. Len(R) /\ r2 \in 1 .. Len(R)
        BY <2>2, <3>2
      <4>2. S[r1] = R[r1] /\ S[r2] = R[r2] /\ SamePlace(R, r1, r2)
        BY <3>2, <4>1, <2>3, <1>1
      <4> QED BY <3>2, <4>1, <4>2, <1>11 DEF Ordered, CallOrder
    <3> QED BY <3>1, <3>2 DEF CallOrder
  <2> QED BY <2>4, <2>5, <1>11 DEF Ordered
<1>12. Given(S, p, k, n) /\ Is(S, z, p, k, n)
  BY <1>1, <1>3 DEF Is
<1>13. Sane(P, W, S, C, A)
  BY <1>4, <1>5, <1>6, <1>7, <1>8, <1>9, <1>10
<1> QED BY <1>1, <1>11, <1>12, <1>13 DEF S

\* A function is called whose callback was the next.
LEMMA Logged ==
  ASSUME NEW P, NEW W, NEW R, NEW C, NEW A, NEW k \in Kinds, NEW n \in Nat, Sane(P, W, R, C, A), n # 0,
         NotDue(P, W, n), ~CalledBack(C, n), \E p \in 1 .. Len(P) : Given(R, p, k, n) /\ Matches(k, P[p].s)
  PROVE  /\ Sane(P, W, R, Append(C, <<k, n>>), A) /\ CalledBack(Append(C, <<k, n>>), n)
         /\ Ordered(P, W, R, C) /\ (\E a \in Int : (\A l \in DOMAIN W : l < a) /\ InPlace(P, W, R, C, a, k, n))
              => Ordered(P, W, R, Append(C, <<k, n>>))
<1> USE DEF Sane
<1> DEFINE D == Append(C, <<k, n>>)
           z == Len(C) + 1
<1>1. /\ C \in Seq(Kinds \X Nat) /\ D \in Seq(Kinds \X Nat) /\ Len(D) = z /\ z \in Nat /\ Len(C) \in Nat
      /\ \A c \in 1 .. Len(C) : D[c] = C[c] /\ c # z
      /\ D[z][1] = k /\ D[z][2] = n /\ z \in 1 .. Len(D)
  BY DEF Typed
<1> HIDE DEF D
<1>2. \A c \in 1 .. Len(D) : c \in 1 .. Len(C) \/ c = z
  BY <1>1
<1>3. CalledBack(D, n) /\ \A m : CalledBack(C, m) => CalledBack(D, m)
  <2>1. CalledBack(D, n)
    BY <1>1 DEF CalledBack
  <2>2. \A c \in 1 .. Len(C) : c \in 1 .. Len(D) /\ D[c] = C[c]
    BY <1>1
  <2>3. \A m : CalledBack(C, m) => CalledBack(D, m)
    BY <2>2 DEF CalledBack
  <2> QED BY <2>1, <2>3
<1>4. Typed(P, W, R, D, A)
  BY <1>1 DEF Typed
<1>5. CalledOnce(P, W, R, D)
  <2>1. \A c1, c2 \in 1 .. Len(D) : D[c1][2] = D[c2][2] => c1 = c2
    BY <1>1, <1>2 DEF CalledOnce, CalledBack
  <2>2. \A c \in 1 .. Len(D) : D[c][2] # 0 /\ NotDue(P, W, D[c][2])
    BY <1>1, <1>2 DEF CalledOnce
  <2>3. \A c \in 1 .. Len(D) : \E p \in 1 .. Len(P) : Given(R, p, D[c][1], D[c][2]) /\ Matches(D[c][1], P[p].s)
    BY <1>1, <1>2 DEF CalledOnce
  <2> QED BY <2>1, <2>2, <2>3 DEF CalledOnce
<1>6. UserOK(P, W, D, A)
  BY <1>3 DEF UserOK
<1>7. AdoptOK(P, W, D, A)
  BY <1>3 DEF AdoptOK
<1>8. ASSUME Ordered(P, W, R, C), NEW a \in Int, \A l \in DOMAIN W : l < a, InPlace(P, W, R, C, a, k, n)
      PROVE  Ordered(P, W, R, D)
  <2>1. ASSUME NEW c \in 1 .. Len(D), NEW l \in DOMAIN W, NEW j \in Due(P, W, l), NEW r1 \in 1 .. Len(R), NEW r2 \in 1 .. Len(R),
               R[r1][2] = W[l].how, R[r1][3] = DueCb(P, W, l, j).next, R[r1][3] # 0,
               R[r2][2] = D[c][1], R[r2][3] = D[c][2], SamePlace(R, r1, r2)
        PROVE  r2 < r1
    <3>1. CASE c = z
      <4>1. ~(r1 < r2)
        <5>1. l < a /\ l \in Int
          BY <1>8 DEF Typed
        <5>2. n # 0 /\ R[r2][2] = k /\ R[r2][3] = n
          BY <2>1, <3>1, <1>1
        <5>3. r1 < r2 => l > a
          BY <2>1, <5>2, <1>8 DEF InPlace
        <5> QED BY <5>1, <5>3
      <4>2. r1 # r2
        BY <2>1, <3>1, <1>1 DEF NotDue
      <4> QED BY <4>1, <4>2
    <3>2. CASE c \in 1 .. Len(C)
      <4>1. D[c] = C[c]
        BY <3>2, <1>1
      <4> QED BY <2>1, <3>2, <4>1, <1>8 DEF Ordered, CallOrder
    <3> QED BY <3>1, <3>2, <1>2
  <2>2. ASSUME NEW c1 \in 1 .. Len(D), NEW c2 \in 1 .. Len(D), NEW r1 \in 1 .. Len(R), NEW r2 \in 1 .. Len(R),
               c1 < c2, R[r1][2] = D[c1][1], R[r1][3] = D[c1][2], R[r2][2] = D[c2][1], R[r2][3] = D[c2][2], SamePlace(R, r1, r2)
        PROVE  r1 < r2
    <3>0. c1 # z
      BY <2>2, <1>1
    <3>1. c1 \in 1 .. Len(C) /\ D[c1] = C[c1]
      BY <3>0, <1>1, <1>2
    <3>2. CASE c2 = z
      BY <2>2, <3>1, <3>2, <1>1, <1>8 DEF InPlace
    <3>3. CASE c2 \in 1 .. Len(C)
      <4>1. D[c2] = C[c2]
        BY <3>3, <1>1
      <4> QED BY <2>2, <3>1, <3>3, <4>1, <1>8 DEF Ordered, CallOrder
    <3> QED BY <3>2, <3>3, <1>2
  <2> QED BY <2>1, <2>2, <1>8 DEF Ordered, CallOrder
<1>9. Sane(P, W, R, D, A)
  BY <1>4, <1>5, <1>6, <1>7
<1> QED BY <1>3, <1>8, <1>9 DEF D

\* A function has returned promise q, which decides n from now on.
LEMMA Adopts ==
  ASSUME NEW P, NEW W, NEW R, NEW C, NEW A, NEW n \in 1 .. Len(P), NEW q \in 1 .. Len(P), Sane(P, W, R, C, A),
         Pending(P, n), n > 2, CalledBack(C, n), ~IsTask(W, "user", n), ~IsTask(W, "settle", n), NoArg(P, W, n), NotWaiting(P, W, n)
  PROVE  /\ Sane(P, W, R, C, [A EXCEPT ![n] = q]) /\ [A EXCEPT ![n] = q][n] = q
         /\ \A m \in 1 .. Len(P) : m # n => [A EXCEPT ![n] = q][m] = A[m]
<1> USE DEF Sane
<1> DEFINE B == [A EXCEPT ![n] = q]
<1>1. Len(B) = Len(P) /\ B \in Seq(Nat) /\ B[n] = q /\ \A m \in 1 .. Len(P) : m # n => B[m] = A[m]
  BY DEF Typed
<1> HIDE DEF B
<1>2. \A m \in 1 .. Len(P) : m # n /\ Untouched(P, W, A, m) => Untouched(P, W, B, m)
  BY <1>1 DEF Untouched
<1>3. Typed(P, W, R, C, B)
  BY <1>1 DEF Typed
<1>4. WaitingOK(P, W, B)
  <2>1. \A l \in DOMAIN W : \A j \in Due(P, W, l) : DueCb(P, W, l, j).next # 0 =>
          DueCb(P, W, l, j).next \in 1 .. Len(P) /\ DueCb(P, W, l, j).next # n
    BY DueGiven DEF NotWaiting, NotDue
  <2>2. \A p \in 1 .. Len(P), k \in Kinds : \A j \in 1 .. Len(ListOf(P, p, k)) : ListOf(P, p, k)[j].next # 0 =>
          ListOf(P, p, k)[j].next \in 1 .. Len(P) /\ (Pending(P, p) => ListOf(P, p, k)[j].next # n)
    BY Registered DEF SlotsOK, NotWaiting
  <2> QED BY <2>1, <2>2, <1>2 DEF WaitingOK
<1>5. UserOK(P, W, C, B)
  <2>1. \A l \in DOMAIN W : W[l].t = "user" => W[l].cb.next \in 1 .. Len(P) /\ W[l].cb.next # n
    BY DEF TasksOK, TaskOK, IsTask
  <2> QED BY <2>1, <1>1 DEF UserOK
<1>6. AdoptOK(P, W, C, B)
  <2> SUFFICES ASSUME NEW m \in 1 .. Len(P), B[m] # 0
               PROVE  /\ B[m] \in 1 .. Len(P) /\ m > 2 /\ CalledBack(C, m) /\ ~IsTask(W, "user", m)
                      /\ Pending(P, m) \/ Agrees(P, P[m].s, P[m].x, B[m])
                      /\ \A l \in DOMAIN W : W[l].t = "settle" /\ W[l].p = m => ~Pending(P, m) \/ Agrees(P, W[l].how, W[l].x, B[m])
    BY DEF AdoptOK
  <2>1. CASE m = n
    <3>1. \A l \in DOMAIN W : ~(W[l].t = "settle" /\ W[l].p = n)
      BY DEF IsTask
    <3> QED BY <2>1, <3>1, <1>1
  <2>2. CASE m # n
    BY <2>2, <1>1 DEF AdoptOK
  <2> QED BY <2>1, <2>2
<1>7. ArgOK(P, W, R, B)
  <2>1. \A p \in 1 .. Len(P), k \in Kinds : \A j \in 1 .. Len(ListOf(P, p, k)) : ListOf(P, p, k)[j].arg # n
    BY DEF NoArg
  <2>2. \A l \in DOMAIN W : W[l].t = "call" => W[l].cb.arg # n
    BY DEF NoArg
  <2>3. \A p \in 1 .. Len(P), k \in Kinds : \A j \in 1 .. Len(ListOf(P, p, k)) : ListOf(P, p, k)[j].arg # 0 =>
          /\ ListOf(P, p, k)[j].arg \in 1 .. Len(P) /\ B[ListOf(P, p, k)[j].arg] = p
          /\ Pending(P, p) => Unsettled(P, W, ListOf(P, p, k)[j].arg)
    <3>1. \A p \in 1 .. Len(P), k \in Kinds : \A j \in 1 .. Len(ListOf(P, p, k)) : ListOf(P, p, k)[j].arg # 0 =>
            /\ ListOf(P, p, k)[j].arg \in 1 .. Len(P) /\ A[ListOf(P, p, k)[j].arg] = p
            /\ Pending(P, p) => Unsettled(P, W, ListOf(P, p, k)[j].arg)
      BY DEF ArgOK
    <3>2. ASSUME NEW p \in 1 .. Len(P), NEW k \in Kinds, NEW j \in 1 .. Len(ListOf(P, p, k)), ListOf(P, p, k)[j].arg # 0
          PROVE  B[ListOf(P, p, k)[j].arg] = p
      <4>1. PICK m : m = ListOf(P, p, k)[j].arg
        OBVIOUS
      <4>2. m \in 1 .. Len(P) /\ A[m] = p /\ m # n
        BY <2>1, <3>1, <3>2, <4>1
      <4> QED BY <4>1, <4>2, <1>1
    <3> QED BY <3>1, <3>2
  <2>4. \A l \in DOMAIN W : W[l].t = "call" /\ W[l].cb.arg # 0 =>
          W[l].cb.arg \in 1 .. Len(P) /\ Given(R, B[W[l].cb.arg], W[l].how, W[l].cb.next)
    BY <2>2, <1>1 DEF ArgOK
  <2> QED BY <2>3, <2>4 DEF ArgOK
<1>8. Sane(P, W, R, C, B)
  BY <1>3, <1>4, <1>5, <1>6, <1>7
<1> QED BY <1>1, <1>8 DEF B

\* What is to be done is what is on the stack and in the ticks, each task at its place.
LEMMA WorkIs ==
  ASSUME NEW s \in Seq(Tasks), NEW t \in Seq(Tasks)
  PROVE  /\ \A l : l \in DOMAIN Work(s, t) <=> l \in Int /\ l # 0 /\ 0 - Len(t) <= l /\ l <= Len(s)
         /\ \A l \in 1 .. Len(s) : Work(s, t)[l] = s[l]
         /\ \A l \in 1 .. Len(t) : Work(s, t)[0 - l] = t[l]
         /\ Work(s, t) \in [DOMAIN Work(s, t) -> Tasks]
<1>1. /\ Len(s) \in Nat /\ Len(t) \in Nat /\ \A l \in 1 .. Len(s) : s[l] \in Tasks
      /\ \A l \in 1 .. Len(t) : t[l] \in Tasks
  OBVIOUS
<1>2. \A l : l \in DOMAIN Work(s, t) <=> l \in Int /\ l # 0 /\ 0 - Len(t) <= l /\ l <= Len(s)
  BY <1>1 DEF Work
<1>3. \A l \in 1 .. Len(s) : Work(s, t)[l] = s[l]
  BY <1>1 DEF Work
<1>4. \A l \in 1 .. Len(t) : Work(s, t)[0 - l] = t[l]
  BY <1>1 DEF Work
<1>5. \A l \in DOMAIN Work(s, t) : Work(s, t)[l] \in Tasks
  <2> SUFFICES ASSUME NEW l \in DOMAIN Work(s, t) PROVE Work(s, t)[l] \in Tasks
    OBVIOUS
  <2>1. CASE l > 0
    BY <2>1, <1>1, <1>2, <1>3
  <2>2. CASE l < 0
    <3>1. 0 - l \in 1 .. Len(t) /\ 0 - (0 - l) = l
      BY <2>2, <1>1, <1>2
    <3>2. Work(s, t)[l] = t[0 - l]
      BY <3>1, <1>4
    <3> QED BY <3>1, <3>2, <1>1
  <2> QED BY <2>1, <2>2, <1>2
<1>6. Work(s, t) = [l \in DOMAIN Work(s, t) |-> Work(s, t)[l]]
  BY DEF Work
<1> HIDE DEF Work
<1> QED BY <1>2, <1>3, <1>4, <1>5, <1>6

\* A task that is pushed comes before all others.
LEMMA WorkPush ==
  ASSUME NEW s \in Seq(Tasks), NEW t \in Seq(Tasks), NEW task \in Tasks
  PROVE  /\ Added(Work(Append(s, task), t), Work(s, t), Len(s) + 1) /\ Work(Append(s, task), t)[Len(s) + 1] = task
         /\ Len(s) + 1 > 0 /\ \A l \in DOMAIN Work(s, t) : l < Len(s) + 1
<1> DEFINE u == Append(s, task)
<1>1. u \in Seq(Tasks) /\ Len(u) = Len(s) + 1 /\ u[Len(s) + 1] = task /\ Len(s) \in Nat /\ Len(t) \in Nat
      /\ \A l \in 1 .. Len(s) : u[l] = s[l] /\ l \in 1 .. Len(u)
  OBVIOUS
<1> HIDE DEF u
<1>2. \A l \in DOMAIN Work(s, t) : l \in DOMAIN Work(u, t) /\ Work(u, t)[l] = Work(s, t)[l]
  <2> SUFFICES ASSUME NEW l \in DOMAIN Work(s, t) PROVE l \in DOMAIN Work(u, t) /\ Work(u, t)[l] = Work(s, t)[l]
    OBVIOUS
  <2>1. CASE l > 0
    BY <2>1, <1>1, WorkIs
  <2>2. CASE l < 0
    <3>1. 0 - l \in 1 .. Len(t) /\ 0 - (0 - l) = l
      BY <2>2, <1>1, WorkIs
    <3> QED BY <3>1, <1>1, WorkIs
  <2> QED BY <2>1, <2>2, WorkIs
<1>3. \A l : l \in DOMAIN Work(u, t) <=> l \in DOMAIN Work(s, t) \/ l = Len(s) + 1
  BY <1>1, WorkIs
<1>4. Len(s) + 1 \notin DOMAIN Work(s, t)
  BY <1>1, WorkIs
<1>5. Work(u, t)[Len(s) + 1] = task /\ Work(u, t) \in [DOMAIN Work(u, t) -> Tasks]
  BY <1>1, WorkIs
<1>6. \A l \in DOMAIN Work(s, t) : l < Len(s) + 1
  BY <1>1, WorkIs
<1>7. DOMAIN Work(u, t) = DOMAIN Work(s, t) \cup {Len(s) + 1}
  BY <1>3
<1> QED BY <1>1, <1>2, <1>4, <1>5, <1>6, <1>7 DEF Added, u

\* A task that nextTick puts behind the ticks comes after all others (2883-2887).
LEMMA WorkTick ==
  ASSUME NEW s \in Seq(Tasks), NEW t \in Seq(Tasks), NEW task \in Tasks
  PROVE  /\ Added(Work(s, Append(t, task)), Work(s, t), 0 - (Len(t) + 1)) /\ Work(s, Append(t, task))[0 - (Len(t) + 1)] = task
         /\ 0 - (Len(t) + 1) < 0 /\ \A l \in DOMAIN Work(s, t) : 0 - (Len(t) + 1) < l
<1> DEFINE u == Append(t, task)
<1>1. u \in Seq(Tasks) /\ Len(u) = Len(t) + 1 /\ u[Len(t) + 1] = task /\ Len(s) \in Nat /\ Len(t) \in Nat
      /\ \A l \in 1 .. Len(t) : u[l] = t[l] /\ l \in 1 .. Len(u)
  OBVIOUS
<1> HIDE DEF u
<1>2. \A l \in DOMAIN Work(s, t) : l \in DOMAIN Work(s, u) /\ Work(s, u)[l] = Work(s, t)[l]
  <2> SUFFICES ASSUME NEW l \in DOMAIN Work(s, t) PROVE l \in DOMAIN Work(s, u) /\ Work(s, u)[l] = Work(s, t)[l]
    OBVIOUS
  <2>1. CASE l > 0
    BY <2>1, <1>1, WorkIs
  <2>2. CASE l < 0
    <3>1. 0 - l \in 1 .. Len(t) /\ 0 - (0 - l) = l
      BY <2>2, <1>1, WorkIs
    <3>2. l \in DOMAIN Work(s, u)
      BY <1>1, WorkIs
    <3>3. Work(s, t)[l] = t[0 - l]
      BY <3>1, WorkIs
    <3>4. Work(s, u)[l] = u[0 - l]
      BY <3>1, <1>1, WorkIs
    <3> QED BY <3>1, <3>2, <3>3, <3>4, <1>1
  <2> QED BY <2>1, <2>2, WorkIs
<1>3. \A l : l \in DOMAIN Work(s, u) <=> l \in DOMAIN Work(s, t) \/ l = 0 - (Len(t) + 1)
  BY <1>1, WorkIs
<1>4. 0 - (Len(t) + 1) \notin DOMAIN Work(s, t) /\ \A l \in DOMAIN Work(s, t) : 0 - (Len(t) + 1) < l
  BY <1>1, WorkIs
<1>5. Work(s, u)[0 - (Len(t) + 1)] = task /\ Work(s, u) \in [DOMAIN Work(s, u) -> Tasks]
  <2>1. Len(t) + 1 \in 1 .. Len(u)
    BY <1>1
  <2> QED BY <2>1, <1>1, WorkIs
<1>6. DOMAIN Work(s, u) = DOMAIN Work(s, t) \cup {0 - (Len(t) + 1)}
  BY <1>3
<1> QED BY <1>1, <1>2, <1>4, <1>5, <1>6 DEF Added, u

\* The innermost task is the first to be done; without it the others keep their places.
LEMMA WorkPop ==
  ASSUME NEW s \in Seq(Tasks), NEW t \in Seq(Tasks), s # <<>>
  PROVE  /\ Front(s) \in Seq(Tasks) /\ Len(Front(s)) = Len(s) - 1 /\ Len(s) \in Nat \ {0}
         /\ \A l \in 1 .. Len(s) - 1 : Front(s)[l] = s[l]
         /\ Last(s) = s[Len(s)] /\ Len(s) \in DOMAIN Work(s, t) /\ Work(s, t)[Len(s)] = Last(s) /\ Last(s) \in Tasks
         /\ DOMAIN Work(Front(s), t) = DOMAIN Work(s, t) \ {Len(s)}
         /\ \A l \in DOMAIN Work(Front(s), t) : Work(Front(s), t)[l] = Work(s, t)[l]
         /\ Work(Front(s), t) \in [DOMAIN Work(Front(s), t) -> Tasks]
         /\ \A l \in DOMAIN Work(s, t) : l <= Len(s)
<1> DEFINE u == Front(s)
<1>1. /\ Len(s) \in Nat /\ Len(s) > 0 /\ Len(t) \in Nat
      /\ u = [l \in 1 .. Len(s) - 1 |-> s[l]]
  BY DEF Front
<1>2. u \in Seq(Tasks) /\ Len(u) = Len(s) - 1 /\ \A l \in 1 .. Len(s) - 1 : u[l] = s[l]
  BY <1>1
<1> HIDE DEF u
<1>9. /\ \A l : l \in DOMAIN Work(u, t) <=> l \in Int /\ l # 0 /\ 0 - Len(t) <= l /\ l <= Len(u)
      /\ \A l \in 1 .. Len(u) : Work(u, t)[l] = u[l]
      /\ \A l \in 1 .. Len(t) : Work(u, t)[0 - l] = t[l]
  BY <1>2, WorkIs
<1>10. /\ \A l : l \in DOMAIN Work(s, t) <=> l \in Int /\ l # 0 /\ 0 - Len(t) <= l /\ l <= Len(s)
       /\ \A l \in 1 .. Len(s) : Work(s, t)[l] = s[l]
       /\ \A l \in 1 .. Len(t) : Work(s, t)[0 - l] = t[l]
  BY WorkIs
<1>3. \A l : l \in DOMAIN Work(u, t) <=> l \in DOMAIN Work(s, t) /\ l # Len(s)
  BY <1>1, <1>2, <1>9, <1>10
<1>4. \A l \in DOMAIN Work(u, t) : Work(u, t)[l] = Work(s, t)[l]
  <2> SUFFICES ASSUME NEW l \in DOMAIN Work(u, t) PROVE Work(u, t)[l] = Work(s, t)[l]
    OBVIOUS
  <2>1. CASE l > 0
    <3>1. l \in 1 .. Len(u) /\ l \in 1 .. Len(s) /\ l \in 1 .. Len(s) - 1
      BY <2>1, <1>1, <1>2, <1>9
    <3> QED BY <3>1, <1>2, <1>9, <1>10
  <2>2. CASE l < 0
    <3>1. 0 - l \in 1 .. Len(t) /\ 0 - (0 - l) = l
      BY <2>2, <1>1, <1>2, <1>9
    <3>2. Work(u, t)[0 - (0 - l)] = t[0 - l] /\ Work(s, t)[0 - (0 - l)] = t[0 - l]
      BY <3>1, <1>9, <1>10
    <3> QED BY <3>1, <3>2
  <2> QED BY <2>1, <2>2, <1>9
<1>5. Work(u, t) \in [DOMAIN Work(u, t) -> Tasks]
  BY <1>2, WorkIs
<1>6. Last(s) = s[Len(s)] /\ Len(s) \in DOMAIN Work(s, t) /\ Work(s, t)[Len(s)] = Last(s) /\ Last(s) \in Tasks
  <2>1. Last(s) = s[Len(s)] /\ Len(s) \in 1 .. Len(s)
    BY <1>1 DEF Last
  <2>2. Len(s) \in DOMAIN Work(s, t)
    BY <1>1, WorkIs
  <2>3. Work(s, t)[Len(s)] = s[Len(s)]
    BY <2>1, WorkIs
  <2> QED BY <2>1, <2>2, <2>3
<1>7. \A l \in DOMAIN Work(s, t) : l <= Len(s)
  BY WorkIs
<1>8. DOMAIN Work(u, t) = DOMAIN Work(s, t) \ {Len(s)}
  BY <1>3
<1> QED BY <1>1, <1>2, <1>4, <1>5, <1>6, <1>7, <1>8 DEF u

-----------------------------------------------------------------------------
(* The stack and the ticks of an action.                                   *)

OK(P, s, t, R, C, A) ==
  /\ s \in Seq(Tasks) /\ t \in Seq(Tasks) /\ Len(P) > 1 /\ Sane(P, Work(s, t), R, C, A)
  /\ ~sync => Ordered(P, Work(s, t), R, C)

\* With less to do, what was still open is still open.
LEMMA Fewer ==
  ASSUME NEW P, NEW V, NEW W, DOMAIN V \subseteq DOMAIN W, \A l \in DOMAIN V : V[l] = W[l]
  PROVE  \A n : /\ NotDue(P, W, n) => NotDue(P, V, n)
                /\ NoArg(P, W, n) => NoArg(P, V, n)
                /\ NotWaiting(P, W, n) => NotWaiting(P, V, n)
                /\ NotArgued(P, W, n) => NotArgued(P, V, n)
                /\ Unsettled(P, W, n) => Unsettled(P, V, n)
                /\ \A k : IsTask(V, k, n) => IsTask(W, k, n)
                /\ \A m : Belong(P, W, n, m) => Belong(P, V, n, m)
                /\ \A A : Untouched(P, W, A, n) => Untouched(P, V, A, n)
<1>1. \A l \in DOMAIN V : l \in DOMAIN W /\ V[l] = W[l] /\ Due(P, V, l) = Due(P, W, l) /\ \A j : DueCb(P, V, l, j) = DueCb(P, W, l, j)
  BY SameTask
<1>2. \A n : NotDue(P, W, n) => NotDue(P, V, n)
  BY <1>1 DEF NotDue
<1>3. \A n : NoArg(P, W, n) => NoArg(P, V, n)
  BY <1>1 DEF NoArg
<1>4. \A n, k : IsTask(V, k, n) => IsTask(W, k, n)
  BY <1>1 DEF IsTask
<1>5. \A n : NotArgued(P, W, n) => NotArgued(P, V, n)
  BY <1>1 DEF NotArgued
<1>6. \A n, m : Belong(P, W, n, m) => Belong(P, V, n, m)
  BY <1>1 DEF Belong
<1>7. \A n : NotWaiting(P, W, n) => NotWaiting(P, V, n)
  BY <1>2 DEF NotWaiting
<1>8. \A n : Unsettled(P, W, n) => Unsettled(P, V, n)
  BY <1>4 DEF Unsettled
<1>9. \A n, A : Untouched(P, W, A, n) => Untouched(P, V, A, n)
  BY <1>3, <1>4 DEF Untouched
<1> QED BY <1>2, <1>3, <1>4, <1>5, <1>6, <1>7, <1>8, <1>9

\* A task that has no callbacks to call leaves them as they are.
LEMMA Quieter ==
  ASSUME NEW P, NEW V, NEW W, NEW a, Added(V, W, a), V[a].t \in {"settle", "try", "user"}
  PROVE  \A n : /\ NotDue(P, W, n) => NotDue(P, V, n)
                /\ NoArg(P, W, n) => NoArg(P, V, n)
                /\ NotWaiting(P, W, n) => NotWaiting(P, V, n)
                /\ NotArgued(P, W, n) => NotArgued(P, V, n)
                /\ \A k : k # V[a].t /\ IsTask(V, k, n) => IsTask(W, k, n)
                /\ \A m : Belong(P, W, n, m) => Belong(P, V, n, m)
<1>1. /\ \A l \in DOMAIN V : l = a \/ (l \in DOMAIN W /\ V[l] = W[l])
      /\ \A l \in DOMAIN W : Due(P, V, l) = Due(P, W, l) /\ \A j : DueCb(P, V, l, j) = DueCb(P, W, l, j)
      /\ Due(P, V, a) = {}
  BY SameTask DEF Added, Due
<1>2. \A n : NotDue(P, W, n) => NotDue(P, V, n)
  BY <1>1 DEF NotDue
<1>3. \A n : NoArg(P, W, n) => NoArg(P, V, n)
  BY <1>1 DEF NoArg
<1>4. \A n, k : k # V[a].t /\ IsTask(V, k, n) => IsTask(W, k, n)
  BY <1>1 DEF IsTask
<1>5. \A n : NotArgued(P, W, n) => NotArgued(P, V, n)
  BY <1>1 DEF NotArgued
<1>6. \A n, m : Belong(P, W, n, m) => Belong(P, V, n, m)
  BY <1>1 DEF Belong
<1>7. \A n : NotWaiting(P, W, n) => NotWaiting(P, V, n)
  BY <1>2 DEF NotWaiting
<1> QED BY <1>2, <1>3, <1>4, <1>5, <1>6, <1>7

\* The innermost task is left.
LEMMA Left ==
  ASSUME NEW P, NEW s, NEW t, NEW R, NEW C, NEW A, OK(P, s, t, R, C, A), s # <<>>
  PROVE  OK(P, Front(s), t, R, C, A)
<1> DEFINE V == Work(Front(s), t)
           W == Work(s, t)
<1>1. /\ Front(s) \in Seq(Tasks) /\ DOMAIN V = DOMAIN W \ {Len(s)} /\ \A l \in DOMAIN V : V[l] = W[l]
      /\ V \in [DOMAIN V -> Tasks] /\ \A l \in DOMAIN W : l <= Len(s)
      /\ Len(s) \in Nat
  BY WorkPop DEF OK
<1>2. Sane(P, W, R, C, A) /\ TasksOK(P, W, R) /\ DOMAIN W \subseteq Int /\ W \in [DOMAIN W -> Tasks]
  BY DEF OK, Sane, Typed
<1> HIDE DEF V, W
<1>3. \A l \in DOMAIN V : W[l] \in Tasks /\ V[l] = W[l] /\ V[l].i >= W[l].i
  <2>1. \A l \in DOMAIN V : V[l] = W[l] /\ W[l] \in Tasks
    BY <1>1, <1>2
  <2>2. \A task \in Tasks : task.i \in Nat
    BY DEF Tasks
  <2> QED BY <2>1, <2>2
<1>4. \A l \in DOMAIN V : V[l].t = "user" => l - 1 \in DOMAIN V
  <2> SUFFICES ASSUME NEW l \in DOMAIN V, V[l].t = "user" PROVE l - 1 \in DOMAIN V
    OBVIOUS
  <2>1. l \in DOMAIN W /\ W[l].t = "user" /\ l \in Int /\ l <= Len(s)
    BY <1>1, <1>2
  <2>2. l - 1 \in DOMAIN W
    BY <2>1, <1>2 DEF TasksOK, TaskOK
  <2> QED BY <2>1, <2>2, <1>1
<1>5. Sane(P, V, R, C, A) /\ (Ordered(P, W, R, C) => Ordered(P, V, R, C))
  <2>1. DOMAIN V \subseteq DOMAIN W
    BY <1>1
  <2> QED BY <2>1, <1>1, <1>2, <1>3, <1>4, Less
<1> QED BY <1>1, <1>5 DEF OK, V, W

\* A task that calls no callbacks is begun.
LEMMA Begun ==
  ASSUME NEW P, NEW s, NEW t, NEW R, NEW C, NEW A, NEW task \in Tasks, NEW n \in 1 .. Len(P), OK(P, s, t, R, C, A),
         task.t \in {"settle", "try", "user"}, n = IF task.t = "user" THEN task.cb.next ELSE task.p,
         NotWaiting(P, Work(s, t), n),
         task.t = "settle" => /\ task.how \in {"v", "e"} /\ ~IsTask(Work(s, t), "user", n) /\ NotArgued(P, Work(s, t), n)
                              /\ A[n] # 0 => ~Pending(P, n) \/ Agrees(P, task.how, task.x, A[n]),
         task.t = "user" => /\ s # <<>> /\ s[Len(s)].t = "try" /\ s[Len(s)].p = n
                            /\ Pending(P, n) /\ A[n] = 0 /\ NoArg(P, Work(s, t), n) /\ CalledBack(C, n)
                            /\ ~IsTask(Work(s, t), "settle", n) /\ ~IsTask(Work(s, t), "user", n)
  PROVE  OK(P, Append(s, task), t, R, C, A)
<1> DEFINE V == Work(Append(s, task), t)
           W == Work(s, t)
           a == Len(s) + 1
<1>1. /\ Added(V, W, a) /\ V[a] = task /\ a > 0 /\ \A l \in DOMAIN W : l < a
      /\ s \in Seq(Tasks) /\ t \in Seq(Tasks) /\ Append(s, task) \in Seq(Tasks)
  BY WorkPush DEF OK
<1>2. Sane(P, W, R, C, A)
  BY DEF OK
<1>3. task.t = "user" => a > 1 /\ a - 1 \in DOMAIN W /\ W[a - 1].t = "try" /\ W[a - 1].p = n
  <2> SUFFICES ASSUME task.t = "user" PROVE a > 1 /\ a - 1 \in DOMAIN W /\ W[a - 1].t = "try" /\ W[a - 1].p = n
    OBVIOUS
  <2>1. Len(s) \in Nat \ {0} /\ Len(s) \in DOMAIN W /\ W[Len(s)] = s[Len(s)] /\ a - 1 = Len(s)
    <3>1. s # <<>>
      OBVIOUS
    <3>2. Len(s) \in Nat \ {0} /\ Len(s) \in DOMAIN W /\ W[Len(s)] = s[Len(s)]
      BY <1>1, <3>1, WorkPop
    <3> QED BY <3>2
  <2> QED BY <2>1
<1> HIDE DEF V, W, a
<1>4. Sane(P, V, R, C, A) /\ (Ordered(P, W, R, C) => Ordered(P, V, R, C))
  <2>1. /\ V[a].t \in {"settle", "try", "user"} /\ n = IF V[a].t = "user" THEN V[a].cb.next ELSE V[a].p
        /\ NotWaiting(P, W, n)
        /\ V[a].t = "settle" => /\ V[a].how \in {"v", "e"} /\ ~IsTask(W, "user", n) /\ NotArgued(P, W, n)
                                /\ A[n] # 0 => ~Pending(P, n) \/ Agrees(P, V[a].how, V[a].x, A[n])
        /\ V[a].t = "user" => /\ a > 1 /\ a - 1 \in DOMAIN W /\ W[a - 1].t = "try" /\ W[a - 1].p = n
                              /\ Pending(P, n) /\ A[n] = 0 /\ NoArg(P, W, n) /\ CalledBack(C, n)
                              /\ ~IsTask(W, "settle", n) /\ ~IsTask(W, "user", n)
    BY <1>1, <1>3 DEF W
  <2> QED BY <2>1, <1>1, <1>2, AddQuiet
<1> QED BY <1>1, <1>4 DEF OK, V, W

\* While a promise has a task, or has adopted another, no callback that decides it is to come.
LEMMA TaskFacts ==
  ASSUME NEW P, NEW W, NEW R, NEW C, NEW A, Sane(P, W, R, C, A), NEW n \in 1 .. Len(P)
  PROVE  /\ IsTask(W, "settle", n) \/ IsTask(W, "try", n) \/ IsTask(W, "user", n) \/ A[n] # 0 => NotWaiting(P, W, n)
         /\ IsTask(W, "settle", n) \/ A[n] = 0 \/ ~Pending(P, n) => NotArgued(P, W, n)
         /\ IsTask(W, "settle", n) \/ A[n] # 0 => ~IsTask(W, "user", n)
         /\ CalledBack(C, n) => n > 2
         /\ n <= 2 => NotWaiting(P, W, n) /\ ~IsTask(W, "user", n)
<1> USE DEF Sane
<1>1. IsTask(W, "settle", n) \/ IsTask(W, "try", n) \/ IsTask(W, "user", n) \/ A[n] # 0 => ~Untouched(P, W, A, n)
  BY DEF Untouched
<1>2. ~Untouched(P, W, A, n) => NotWaiting(P, W, n)
  BY DEF WaitingOK, NotWaiting, NotDue
<1>3. IsTask(W, "settle", n) \/ ~Pending(P, n) => NotArgued(P, W, n)
  BY DEF NotArgued, ArgOK, Unsettled
<1>4. A[n] = 0 => NotArgued(P, W, n)
  <2>1. \A q, k, m : Given(R, q, k, m) => q # 0
    BY DEF Given, Is, RegsOK
  <2>2. \A l \in DOMAIN W : \A j \in Due(P, W, l) : DueCb(P, W, l, j).arg # 0 => A[DueCb(P, W, l, j).arg] # 0
    BY <2>1, DueGiven
  <2>3. \A p \in 1 .. Len(P), k \in Kinds : \A j \in 1 .. Len(ListOf(P, p, k)) : ListOf(P, p, k)[j].arg # 0 =>
          A[ListOf(P, p, k)[j].arg] # 0
    BY DEF ArgOK
  <2> QED BY <2>2, <2>3 DEF NotArgued
<1>5. IsTask(W, "user", n) => ~IsTask(W, "settle", n) /\ A[n] = 0 /\ CalledBack(C, n)
  BY DEF IsTask, UserOK
<1>6. CalledBack(C, n) => n > 2
  BY Registered DEF CalledBack, CalledOnce
<1>7. n <= 2 => NotWaiting(P, W, n)
  <2>1. \A l \in DOMAIN W : \A j \in Due(P, W, l) : DueCb(P, W, l, j).next # 0 => DueCb(P, W, l, j).next > 2
    BY DueGiven
  <2>2. \A p \in 1 .. Len(P), k \in Kinds : \A j \in 1 .. Len(ListOf(P, p, k)) : ListOf(P, p, k)[j].next # 0 => ListOf(P, p, k)[j].next > 2
    BY Registered DEF SlotsOK
  <2> QED BY <2>1, <2>2 DEF NotWaiting, NotDue
<1> QED BY <1>1, <1>2, <1>3, <1>4, <1>5, <1>6, <1>7

\* V is W without task l.
Without(V, W, l) == DOMAIN V = DOMAIN W \ {l} /\ \A m \in DOMAIN V : V[m] = W[m]

\* A call that begins: nothing has happened to the promise of its then, and what it adopts
\* is as this call will settle it.
LEMMA CallFacts ==
  ASSUME NEW P, NEW V, NEW W, NEW R, NEW C, NEW A, Sane(P, W, R, C, A), NEW l \in DOMAIN W, W[l].t = "call", Without(V, W, l)
  PROVE  /\ W[l].how \in Kinds /\ CbOK(W[l].cb, W[l].how)
         /\ W[l].cb.next # 0 =>
              /\ W[l].cb.next \in 1 .. Len(P) /\ W[l].cb.next > 2
              /\ NotDue(P, V, W[l].cb.next) /\ NotWaiting(P, V, W[l].cb.next) /\ NotArgued(P, V, W[l].cb.next)
              /\ Untouched(P, W, A, W[l].cb.next) /\ Untouched(P, V, A, W[l].cb.next) /\ ~CalledBack(C, W[l].cb.next)
              /\ \E p \in 1 .. Len(P) : Given(R, p, W[l].how, W[l].cb.next) /\ Matches(W[l].how, P[p].s) /\ W[l].x = P[p].x
         /\ W[l].cb.arg # 0 =>
              /\ W[l].cb.arg \in 1 .. Len(P) /\ NotWaiting(P, V, W[l].cb.arg) /\ NotArgued(P, V, W[l].cb.arg)
              /\ ~IsTask(V, "user", W[l].cb.arg) /\ Unsettled(P, W, W[l].cb.arg)
              /\ Agrees(P, IF W[l].how = "ok" THEN "v" ELSE "e", W[l].x, A[W[l].cb.arg])
         /\ Ordered(P, W, R, C) /\ (\A m \in DOMAIN W : m <= l) => InPlace(P, V, R, C, l, W[l].how, W[l].cb.next)
<1> USE DEF Sane
<1> DEFINE n == W[l].cb.next
           g == W[l].cb.arg
           k == W[l].how
<1>1. /\ DOMAIN V \subseteq DOMAIN W /\ \A m \in DOMAIN V : V[m] = W[m] /\ m # l
      /\ \A m \in DOMAIN V : Due(P, V, m) = Due(P, W, m) /\ \A j : DueCb(P, V, m, j) = DueCb(P, W, m, j)
      /\ Due(P, W, l) = {0} /\ DueCb(P, W, l, 0) = W[l].cb
  BY SameTask DEF Without, Due, DueCb
<1>2. TaskOK(P, W, R, l) /\ l \in Int
  BY DEF TasksOK, Typed
<1>3. k \in Kinds /\ CbOK(W[l].cb, k)
  BY <1>2 DEF TaskOK
<1>4. ASSUME n # 0
      PROVE  /\ n \in 1 .. Len(P) /\ n > 2
             /\ NotDue(P, V, n) /\ NotWaiting(P, V, n) /\ NotArgued(P, V, n)
             /\ Untouched(P, W, A, n) /\ Untouched(P, V, A, n) /\ ~CalledBack(C, n)
             /\ \E p \in 1 .. Len(P) : Given(R, p, k, n) /\ Matches(k, P[p].s) /\ W[l].x = P[p].x
  <2>1. PICK p \in 1 .. Len(P) : Given(R, p, k, n) /\ Matches(k, P[p].s) /\ W[l].x = P[p].x
    BY <1>2, <1>4 DEF TaskOK
  <2>2. n \in 1 .. Len(P) /\ n > 2
    BY <1>4, <2>1, Registered
  <2>3. NotDue(P, V, n)
    BY <1>1, <1>4 DEF NotDue, DueOnce
  <2>4. NotWaiting(P, V, n)
    <3>1. ASSUME NEW q \in 1 .. Len(P), NEW e \in Kinds, NEW j \in 1 .. Len(ListOf(P, q, e)), Pending(P, q), ListOf(P, q, e)[j].next = n
          PROVE  FALSE
      <4>1. Given(R, q, e, n)
        BY <3>1 DEF SlotsOK
      <4>2. q = p
        BY <4>1, <2>1, <1>4, Registered
      <4> QED BY <4>2, <3>1, <2>1 DEF Pending, Matches
    <3> QED BY <2>3, <3>1 DEF NotWaiting
  <2>5. Untouched(P, W, A, n)
    BY <1>1, <1>4 DEF WaitingOK
  <2>6. Untouched(P, V, A, n)
    BY <2>5, <1>1, Fewer
  <2>7. ~CalledBack(C, n)
    BY <1>1 DEF CalledOnce, CalledBack, NotDue
  <2>8. NotArgued(P, V, n)
    <3>1. NotArgued(P, W, n)
      BY <2>2, <2>5, TaskFacts DEF Untouched
    <3> QED BY <3>1, <1>1, Fewer
  <2> QED BY <2>1, <2>2, <2>3, <2>4, <2>5, <2>6, <2>7, <2>8
<1>5. ASSUME g # 0
      PROVE  /\ g \in 1 .. Len(P) /\ NotWaiting(P, V, g) /\ NotArgued(P, V, g)
             /\ ~IsTask(V, "user", g) /\ Unsettled(P, W, g)
             /\ Agrees(P, IF k = "ok" THEN "v" ELSE "e", W[l].x, A[g])
  <2>1. g \in 1 .. Len(P) /\ Given(R, A[g], k, n)
    BY <1>5 DEF ArgOK
  <2>2. A[g] # 0
    BY <2>1 DEF RegsOK, Given, Is
  <2>3. NotWaiting(P, V, g) /\ ~IsTask(V, "user", g)
    <3>1. NotWaiting(P, W, g) /\ ~IsTask(W, "user", g)
      BY <2>1, <2>2, TaskFacts
    <3> QED BY <3>1, <1>1, Fewer
  <2>4. Unsettled(P, W, g)
    BY <1>1, <1>5 DEF ArgOK
  <2>5. n # 0
    BY <1>3, <1>5 DEF CbOK
  <2>6. NotArgued(P, V, g)
    <3>1. PICK m : Belong(P, W, g, m)
      BY <2>1 DEF ArgOnce
    <3>2. m = n
      BY <3>1 DEF Belong
    <3>3. ASSUME NEW m1 \in DOMAIN V, NEW j \in Due(P, V, m1), DueCb(P, V, m1, j).arg = g PROVE FALSE
      <4>1. m1 \in DOMAIN W /\ j \in Due(P, W, m1) /\ DueCb(P, W, m1, j).arg = g
        BY <3>3, <1>1
      <4>2. DueCb(P, W, m1, j).next = n
        BY <4>1, <3>1, <3>2, DueIs DEF Belong
      <4> QED BY <4>2, <3>3, <1>1, <1>4, <2>5 DEF NotDue
    <3>4. \A p \in 1 .. Len(P), e \in Kinds : \A j \in 1 .. Len(ListOf(P, p, e)) : Pending(P, p) => ListOf(P, p, e)[j].arg # g
      BY <3>1, <3>2, <1>4, <2>5 DEF Belong, NotWaiting
    <3> QED BY <3>3, <3>4 DEF NotArgued
  <2>7. Agrees(P, IF k = "ok" THEN "v" ELSE "e", W[l].x, A[g])
    <3>1. PICK p \in 1 .. Len(P) : Given(R, p, k, n) /\ Matches(k, P[p].s) /\ W[l].x = P[p].x
      BY <1>4, <2>5
    <3>2. p = A[g]
      BY <2>1, <2>5, <3>1, Registered
    <3> QED BY <3>1, <3>2 DEF Agrees, Matches, Pending
  <2> QED BY <2>1, <2>3, <2>4, <2>6, <2>7
<1>6. ASSUME Ordered(P, W, R, C), \A m \in DOMAIN W : m <= l PROVE InPlace(P, V, R, C, l, k, n)
  <2>1. ASSUME NEW m \in DOMAIN V, NEW j \in Due(P, V, m), NEW r1 \in 1 .. Len(R), NEW r2 \in 1 .. Len(R),
               n # 0, R[r1][3] # 0, SamePlace(R, r1, r2), R[r1][2] = V[m].how, R[r1][3] = DueCb(P, V, m, j).next,
               R[r2][2] = k, R[r2][3] = n
        PROVE  (r1 < r2 => m > l) /\ (r2 < r1 => l > m)
    <3>1. m \in DOMAIN W /\ j \in Due(P, W, m) /\ V[m].how = W[m].how /\ DueCb(P, V, m, j) = DueCb(P, W, m, j) /\ m # l
      BY <1>1
    <3>2. m < l
      <4>1. m <= l /\ m \in Int
        BY <3>1, <1>6 DEF Typed
      <4> QED BY <4>1, <3>1, <1>2
    <3>3. ~(r1 < r2)
      <4>1. 0 \in Due(P, W, l) /\ DueCb(P, W, l, 0).next = n
        BY <1>1
      <4>2. r1 < r2 => m > l \/ (m = l /\ j < 0)
        BY <4>1, <3>1, <2>1, <1>6 DEF Ordered, DueOrder
      <4>3. m \in Int
        BY <3>1 DEF Typed
      <4> QED BY <4>2, <4>3, <3>1, <3>2, <1>2
    <3> QED BY <3>2, <3>3
  <2>2. ASSUME NEW c \in 1 .. Len(C), NEW r1 \in 1 .. Len(R), NEW r2 \in 1 .. Len(R),
               n # 0, R[r1][2] = C[c][1], R[r1][3] = C[c][2], R[r2][2] = k, R[r2][3] = n, SamePlace(R, r1, r2)
        PROVE  r1 < r2
    <3>1. 0 \in Due(P, W, l) /\ DueCb(P, W, l, 0).next = n /\ SamePlace(R, r2, r1)
      BY <2>2, <1>1 DEF SamePlace
    <3> QED BY <2>2, <3>1, <1>6 DEF Ordered, CallOrder
  <2> QED BY <2>1, <2>2 DEF InPlace
<1> QED BY <1>3, <1>4, <1>5, <1>6

\* A function that runs decides its promise.
LEMMA UserFacts ==
  ASSUME NEW P, NEW V, NEW W, NEW R, NEW C, NEW A, Sane(P, W, R, C, A), NEW l \in DOMAIN W, W[l].t = "user", Without(V, W, l)
  PROVE  /\ W[l].cb.next \in 1 .. Len(P) /\ W[l].cb.next > 2 /\ Pending(P, W[l].cb.next) /\ A[W[l].cb.next] = 0
         /\ NotWaiting(P, V, W[l].cb.next) /\ NotArgued(P, V, W[l].cb.next) /\ NoArg(P, V, W[l].cb.next)
         /\ ~IsTask(V, "user", W[l].cb.next) /\ ~IsTask(V, "settle", W[l].cb.next) /\ CalledBack(C, W[l].cb.next)
         /\ l > 1 /\ l - 1 \in DOMAIN W /\ W[l - 1].t = "try" /\ W[l - 1].p = W[l].cb.next
<1> USE DEF Sane
<1> DEFINE n == W[l].cb.next
<1>1. /\ n \in 1 .. Len(P) /\ Pending(P, n) /\ A[n] = 0 /\ NoArg(P, W, n) /\ ~IsTask(W, "settle", n) /\ CalledBack(C, n)
      /\ \A m \in DOMAIN W : W[m].t = "user" /\ W[m].cb.next = n => m = l
      /\ l > 1 /\ l - 1 \in DOMAIN W /\ W[l - 1].t = "try" /\ W[l - 1].p = n
  BY DEF UserOK, TasksOK, TaskOK
<1>2. IsTask(W, "user", n)
  BY DEF IsTask
<1>3. NotWaiting(P, W, n) /\ NotArgued(P, W, n) /\ n > 2
  BY <1>1, <1>2, TaskFacts
<1>4. DOMAIN V \subseteq DOMAIN W /\ \A m \in DOMAIN V : V[m] = W[m] /\ m # l
  BY DEF Without
<1>5. NotWaiting(P, V, n) /\ NotArgued(P, V, n) /\ NoArg(P, V, n) /\ ~IsTask(V, "settle", n)
  BY <1>1, <1>3, <1>4, Fewer
<1>6. ~IsTask(V, "user", n)
  BY <1>1, <1>4 DEF IsTask
<1> QED BY <1>1, <1>3, <1>5, <1>6

\* A callback is called: at once, or in a tick.
LEMMA Calling ==
  ASSUME NEW P, NEW s, NEW t, NEW R, NEW C, NEW A, NEW task \in Tasks, OK(P, s, t, R, C, A),
         task.t = "call", task.how \in Kinds, CbOK(task.cb, task.how),
         task.cb.next # 0 => /\ NotDue(P, Work(s, t), task.cb.next) /\ ~CalledBack(C, task.cb.next)
                             /\ Untouched(P, Work(s, t), A, task.cb.next)
                             /\ \E p \in 1 .. Len(P) : /\ Given(R, p, task.how, task.cb.next)
                                                       /\ Matches(task.how, P[p].s) /\ task.x = P[p].x,
         task.cb.arg # 0 => /\ task.cb.arg \in 1 .. Len(P) /\ A[task.cb.arg] # 0
                            /\ Given(R, A[task.cb.arg], task.how, task.cb.next)
                            /\ Unsettled(P, Work(s, t), task.cb.arg) /\ Belong(P, Work(s, t), task.cb.arg, task.cb.next)
  PROVE  /\ (~sync => /\ InPlace(P, Work(s, t), R, C, Len(s) + 1, task.how, task.cb.next)
                      /\ \A m \in DOMAIN Work(s, t) : m > 0 => Work(s, t)[m].t = "each") => OK(P, Append(s, task), t, R, C, A)
         /\ (~sync => InPlace(P, Work(s, t), R, C, 0 - (Len(t) + 1), task.how, task.cb.next)) => OK(P, s, Append(t, task), R, C, A)
<1> DEFINE W == Work(s, t)
<1>1. Sane(P, W, R, C, A) /\ s \in Seq(Tasks) /\ t \in Seq(Tasks)
  BY DEF OK
<1>2. ASSUME ~sync => InPlace(P, W, R, C, Len(s) + 1, task.how, task.cb.next) /\ \A m \in DOMAIN W : m > 0 => W[m].t = "each"
      PROVE  OK(P, Append(s, task), t, R, C, A)
  <2> DEFINE V == Work(Append(s, task), t)
             a == Len(s) + 1
  <2>1. /\ Added(V, W, a) /\ V[a] = task /\ a > 0 /\ (\A l \in DOMAIN W : l < a) /\ Append(s, task) \in Seq(Tasks)
    BY <1>1, WorkPush
  <2> HIDE DEF V, W, a
  <2>2. /\ Sane(P, V, R, C, A)
        /\ Ordered(P, W, R, C) /\ InPlace(P, W, R, C, a, V[a].how, V[a].cb.next)
              /\ (\A m \in DOMAIN W : a > 0 /\ m > 0 => W[m].t = "each") => Ordered(P, V, R, C)
    BY <1>1, <2>1, AddCall DEF W
  <2>3. ~sync => Ordered(P, V, R, C)
    BY <1>2, <2>1, <2>2 DEF OK, W, a
  <2> QED BY <1>1, <2>1, <2>2, <2>3 DEF OK, V
<1>3. ASSUME ~sync => InPlace(P, W, R, C, 0 - (Len(t) + 1), task.how, task.cb.next)
      PROVE  OK(P, s, Append(t, task), R, C, A)
  <2> DEFINE V == Work(s, Append(t, task))
             a == 0 - (Len(t) + 1)
  <2>1. /\ Added(V, W, a) /\ V[a] = task /\ a < 0 /\ (\A l \in DOMAIN W : a < l) /\ Append(t, task) \in Seq(Tasks)
    BY <1>1, WorkTick
  <2>4. a \in Int
    BY <1>1
  <2> HIDE DEF V, W, a
  <2>2. /\ Sane(P, V, R, C, A)
        /\ Ordered(P, W, R, C) /\ InPlace(P, W, R, C, a, V[a].how, V[a].cb.next)
              /\ (\A m \in DOMAIN W : a > 0 /\ m > 0 => W[m].t = "each") => Ordered(P, V, R, C)
    BY <1>1, <2>1, AddCall DEF W
  <2>3. ~sync => Ordered(P, V, R, C)
    BY <1>3, <2>1, <2>2, <2>4 DEF OK, W, a
  <2> QED BY <1>1, <2>1, <2>2, <2>3 DEF OK, V
<1> QED BY <1>2, <1>3

\* resolve or reject, of a promise that was pending.
LEMMA Settling ==
  ASSUME NEW P, NEW Q, NEW s, NEW t, NEW R, NEW C, NEW A, NEW task \in Tasks, NEW p \in 1 .. Len(P), NEW how \in {"v", "e"},
         OK(P, s, t, R, C, A), SettledAs(Q, P, p, how, task.x), Pending(P, p),
         task.t = "each", task.p = p, task.how = (IF how = "v" THEN "ok" ELSE "fail"), task.i = 1,
         ~IsTask(Work(s, t), "user", p), NotWaiting(P, Work(s, t), p), NotArgued(P, Work(s, t), p), A[p] # 0 => Agrees(P, how, task.x, A[p])
  PROVE  /\ sync => OK(Q, Append(s, task), t, R, C, A)
         /\ ~sync => OK(Q, s, Append(t, task), R, C, A)
<1> DEFINE W == Work(s, t)
<1>1. Sane(P, W, R, C, A) /\ s \in Seq(Tasks) /\ t \in Seq(Tasks) /\ Len(Q) = Len(P) /\ Len(P) > 1
  BY DEF OK, SettledAs
<1>2. ASSUME sync PROVE OK(Q, Append(s, task), t, R, C, A)
  <2> DEFINE V == Work(Append(s, task), t)
             a == Len(s) + 1
  <2>1. Added(V, W, a) /\ V[a] = task /\ a > 0 /\ (\A l \in DOMAIN W : l < a) /\ Append(s, task) \in Seq(Tasks)
    BY <1>1, WorkPush
  <2> HIDE DEF V, W, a
  <2>2. Sane(Q, V, R, C, A)
    BY <1>1, <2>1, SettleEach DEF W
  <2> QED BY <1>1, <1>2, <2>1, <2>2 DEF OK, V
<1>3. ASSUME ~sync PROVE OK(Q, s, Append(t, task), R, C, A)
  <2> DEFINE V == Work(s, Append(t, task))
             a == 0 - (Len(t) + 1)
  <2>1. Added(V, W, a) /\ V[a] = task /\ a < 0 /\ (\A l \in DOMAIN W : a < l) /\ Append(t, task) \in Seq(Tasks)
    BY <1>1, WorkTick
  <2> HIDE DEF V, W, a
  <2>2. Sane(Q, V, R, C, A) /\ (Ordered(P, W, R, C) /\ (\A l \in DOMAIN W : a < l) /\ a < 0 => Ordered(Q, V, R, C))
    <3>1. /\ V[a].t = "each" /\ V[a].p = p /\ V[a].how = (IF how = "v" THEN "ok" ELSE "fail") /\ V[a].i = 1 /\ V[a].x = task.x
          /\ ~IsTask(W, "user", p) /\ NotWaiting(P, W, p) /\ NotArgued(P, W, p)
      BY <2>1 DEF W
    <3> QED BY <1>1, <2>1, <3>1, SettleEach
  <2>3. Ordered(P, W, R, C)
    BY <1>3 DEF OK, W
  <2> QED BY <1>1, <2>1, <2>2, <2>3 DEF OK, V
<1> QED BY <1>2, <1>3

\* Callbacks belong to the same then when fewer of them are to be called.
LEMMA BelongLess ==
  ASSUME NEW P, NEW V, NEW W, NEW n, NEW m, Belong(P, W, n, m),
         \A l \in DOMAIN V : l \in DOMAIN W /\ V[l].t = W[l].t /\ V[l].cb = W[l].cb
  PROVE  Belong(P, V, n, m)
BY DEF Belong

\* A notification calls the next callback of its list.
LEMMA Notifying ==
  ASSUME NEW P, NEW s, NEW t, NEW R, NEW C, NEW A, NEW on \in Tasks, NEW task \in Tasks, NEW cb, OK(P, s, t, R, C, A), s # <<>>,
         s[Len(s)].t = "each", s[Len(s)].i <= Len(ListOf(P, s[Len(s)].p, s[Len(s)].how)),
         cb = ListOf(P, s[Len(s)].p, s[Len(s)].how)[s[Len(s)].i],
         on = [s[Len(s)] EXCEPT !.i = @ + 1], task.t = "call", task.how = s[Len(s)].how, task.cb = cb, task.x = s[Len(s)].x
  PROVE  OK(P, Append([s EXCEPT ![Len(s)] = on], task), t, R, C, A)
<1> DEFINE u == [s EXCEPT ![Len(s)] = on]
           W == Work(s, t)
           V == Work(u, t)
           h == Len(s)
           p == s[h].p
           k == s[h].how
           i == s[h].i
<1>1. /\ s \in Seq(Tasks) /\ t \in Seq(Tasks) /\ h \in Nat \ {0} /\ s[h] \in Tasks /\ u \in Seq(Tasks) /\ Len(u) = h /\ u[h] = on
      /\ (\A l \in 1 .. h : l # h => u[l] = s[l]) /\ Sane(P, W, R, C, A)
  BY DEF OK
<1>2. on.t = "each" /\ on.p = p /\ on.how = k /\ on.cb = s[h].cb /\ on.x = s[h].x /\ on.i = i + 1 /\ i \in Nat
  BY <1>1 DEF Tasks
<1> HIDE DEF u
<1>3. /\ DOMAIN V = DOMAIN W /\ h \in DOMAIN W /\ W[h] = s[h] /\ V[h] = on /\ \A l \in DOMAIN W : l # h => V[l] = W[l]
      /\ V \in [DOMAIN V -> Tasks] /\ W \in [DOMAIN W -> Tasks] /\ \A l \in DOMAIN W : l <= h /\ l \in Int
  <2>1. /\ \A l : l \in DOMAIN W <=> l \in Int /\ l # 0 /\ 0 - Len(t) <= l /\ l <= h
        /\ (\A l \in 1 .. h : W[l] = s[l]) /\ (\A l \in 1 .. Len(t) : W[0 - l] = t[l]) /\ W \in [DOMAIN W -> Tasks]
    BY <1>1, WorkIs
  <2>2. /\ \A l : l \in DOMAIN V <=> l \in Int /\ l # 0 /\ 0 - Len(t) <= l /\ l <= h
        /\ (\A l \in 1 .. h : V[l] = u[l]) /\ (\A l \in 1 .. Len(t) : V[0 - l] = t[l]) /\ V \in [DOMAIN V -> Tasks]
    BY <1>1, WorkIs
  <2> HIDE DEF V, W
  <2>3. DOMAIN V = DOMAIN W
    BY <2>1, <2>2
  <2>4. ASSUME NEW l \in DOMAIN W, l # h PROVE V[l] = W[l]
    <3>1. CASE l > 0
      <4>1. l \in 1 .. h
        BY <3>1, <2>1, <1>1
      <4>2. V[l] = u[l] /\ W[l] = s[l]
        BY <4>1, <2>1, <2>2
      <4> QED BY <4>1, <4>2, <2>4, <1>1
    <3>2. CASE l < 0
      <4>1. 0 - l \in 1 .. Len(t) /\ 0 - (0 - l) = l
        BY <3>2, <2>1, <1>1
      <4>2. V[0 - (0 - l)] = t[0 - l] /\ W[0 - (0 - l)] = t[0 - l]
        BY <4>1, <2>1, <2>2
      <4> QED BY <4>1, <4>2
    <3> QED BY <3>1, <3>2, <2>1
  <2>5. h \in DOMAIN W /\ W[h] = s[h] /\ V[h] = on
    <3>1. Len(t) \in Nat /\ h \in 1 .. h /\ h \in Int /\ h # 0 /\ 0 - Len(t) <= h /\ h <= h
      BY <1>1
    <3> QED BY <3>1, <2>1, <2>2, <1>1
  <2>6. \A l \in DOMAIN W : l <= h /\ l \in Int
    BY <2>1
  <2> QED BY <2>1, <2>2, <2>3, <2>4, <2>5, <2>6
<1> HIDE DEF V, W
<1>20. \A l \in DOMAIN V : l \in DOMAIN W /\ V[l].t = W[l].t /\ V[l].p = W[l].p /\ V[l].how = W[l].how /\ V[l].cb = W[l].cb /\ V[l].x = W[l].x
  BY <1>2, <1>3
<1>4. TaskOK(P, W, R, h) /\ p \in 1 .. Len(P) /\ k \in Kinds /\ i > 0 /\ Matches(k, P[p].s) /\ s[h].x = P[p].x
  BY <1>1, <1>3 DEF Sane, TasksOK, TaskOK
<1>5. i \in 1 .. Len(ListOf(P, p, k)) /\ i \in Due(P, W, h) /\ DueCb(P, W, h, i) = cb
  BY <1>2, <1>3, <1>4 DEF Due, DueCb
<1>6. /\ \A l \in DOMAIN V : /\ Due(P, V, l) \subseteq Due(P, W, l) /\ V[l].how = W[l].how /\ V[l].t = W[l].t
                            /\ \A j : DueCb(P, V, l, j) = DueCb(P, W, l, j)
      /\ Due(P, V, h) = (i + 1) .. Len(ListOf(P, p, k))
  <2>1. Due(P, V, h) = (i + 1) .. Len(ListOf(P, p, k)) /\ Due(P, W, h) = i .. Len(ListOf(P, p, k))
    BY <1>2, <1>3 DEF Due
  <2>2. Due(P, V, h) \subseteq Due(P, W, h) /\ \A j : DueCb(P, V, h, j) = DueCb(P, W, h, j)
    BY <2>1, <1>2, <1>3 DEF DueCb
  <2>3. \A l \in DOMAIN V : l # h => Due(P, V, l) = Due(P, W, l) /\ \A j : DueCb(P, V, l, j) = DueCb(P, W, l, j)
    BY <1>3, SameTask
  <2>4. \A l \in DOMAIN V : V[l].how = W[l].how /\ V[l].t = W[l].t
    BY <1>2, <1>3
  <2> QED BY <2>1, <2>2, <2>3, <2>4
<1>7. Sane(P, V, R, C, A) /\ (Ordered(P, W, R, C) => Ordered(P, V, R, C))
  <2>1. \A l \in DOMAIN V : /\ V[l].t = W[l].t /\ V[l].p = W[l].p /\ V[l].how = W[l].how /\ V[l].cb = W[l].cb
                            /\ V[l].x = W[l].x /\ V[l].i >= W[l].i
    <3>1. \A x \in Tasks : x.i \in Nat
      BY DEF Tasks
    <3>2. \A l \in DOMAIN V : W[l].i \in Nat
      BY <3>1, <1>3
    <3>3. \A l \in DOMAIN V : V[l].i >= W[l].i
      <4>1. V[h].i >= W[h].i
        BY <1>2, <1>3
      <4>2. \A l \in DOMAIN V : l # h => V[l].i = W[l].i
        BY <1>3
      <4> QED BY <4>1, <4>2, <3>2
    <3> QED BY <3>3, <1>20
  <2>2. \A l \in DOMAIN V : V[l].t = "user" => l - 1 \in DOMAIN V
    <3>1. TasksOK(P, W, R)
      BY <1>1 DEF Sane
    <3> QED BY <3>1, <1>3, <1>20 DEF TasksOK, TaskOK
  <2> QED BY <2>1, <2>2, <1>1, <1>3, Less
<1>8. OK(P, u, t, R, C, A)
  BY <1>1, <1>7 DEF OK, V, W
<1>9. CbOK(cb, k) /\ Given(R, p, k, cb.next)
  BY <1>1, <1>4, <1>5 DEF Sane, SlotsOK
<1>10. cb.next # 0 => /\ NotDue(P, V, cb.next) /\ ~CalledBack(C, cb.next) /\ Untouched(P, V, A, cb.next)
                      /\ \E q \in 1 .. Len(P) : Given(R, q, k, cb.next) /\ Matches(k, P[q].s) /\ s[h].x = P[q].x
  <2> SUFFICES ASSUME cb.next # 0
               PROVE  NotDue(P, V, cb.next) /\ ~CalledBack(C, cb.next) /\ Untouched(P, V, A, cb.next)
    BY <1>4, <1>9
  <2>1. NotDue(P, V, cb.next)
    <3> SUFFICES ASSUME NEW l \in DOMAIN V, NEW j \in Due(P, V, l), DueCb(P, V, l, j).next = cb.next PROVE FALSE
      BY DEF NotDue
    <3>1. l \in DOMAIN W /\ j \in Due(P, W, l) /\ DueCb(P, W, l, j).next = DueCb(P, W, h, i).next
      BY <1>3, <1>5, <1>6
    <3>2. l = h /\ j = i
      BY <3>1, <1>1, <1>3, <1>5 DEF Sane, DueOnce
    <3> QED BY <3>2, <1>2, <1>6
  <2>2. ~CalledBack(C, cb.next)
    BY <1>1, <1>3, <1>5 DEF Sane, CalledOnce, CalledBack, NotDue
  <2>3. Untouched(P, V, A, cb.next)
    <3>1. Untouched(P, W, A, cb.next)
      BY <1>1, <1>3, <1>5 DEF Sane, WaitingOK
    <3>2. \A k1, n : IsTask(V, k1, n) => IsTask(W, k1, n)
      BY <1>20 DEF IsTask
    <3>3. \A n : NoArg(P, W, n) => NoArg(P, V, n)
      BY <1>20 DEF NoArg
    <3> QED BY <3>1, <3>2, <3>3 DEF Untouched
  <2> QED BY <2>1, <2>2, <2>3
<1>11. cb.arg # 0 => /\ cb.arg \in 1 .. Len(P) /\ A[cb.arg] # 0
                     /\ Given(R, A[cb.arg], k, cb.next)
                     /\ Unsettled(P, V, cb.arg) /\ Belong(P, V, cb.arg, cb.next)
  <2> SUFFICES ASSUME cb.arg # 0
               PROVE  /\ cb.arg \in 1 .. Len(P) /\ A[cb.arg] # 0 /\ Given(R, A[cb.arg], k, cb.next)
                      /\ Unsettled(P, V, cb.arg) /\ Belong(P, V, cb.arg, cb.next)
    OBVIOUS
  <2>1. cb.arg \in 1 .. Len(P) /\ A[cb.arg] = p
    BY <1>1, <1>4, <1>5 DEF Sane, ArgOK
  <2>2. Unsettled(P, V, cb.arg)
    <3>1. Unsettled(P, W, cb.arg)
      BY <1>1, <1>3, <1>5 DEF Sane, ArgOK
    <3>2. IsTask(V, "settle", cb.arg) => IsTask(W, "settle", cb.arg)
      BY <1>20 DEF IsTask
    <3> QED BY <3>1, <3>2 DEF Unsettled
  <2>3. Belong(P, V, cb.arg, cb.next)
    <3>1. PICK m : Belong(P, W, cb.arg, m)
      BY <1>1, <2>1 DEF Sane, ArgOnce
    <3>2. m = cb.next
      BY <3>1, <1>4, <1>5 DEF Belong
    <3>3. \A l \in DOMAIN V : l \in DOMAIN W /\ V[l].t = W[l].t /\ V[l].cb = W[l].cb
      BY <1>20
    <3>4. PICK e : e = cb.arg
      OBVIOUS
    <3>5. Belong(P, W, e, m)
      BY <3>1, <3>4
    <3>6. Belong(P, V, e, m)
      BY <3>3, <3>5, BelongLess
    <3> QED BY <3>2, <3>4, <3>6
  <2>4. A[cb.arg] # 0 /\ Given(R, A[cb.arg], k, cb.next)
    <3>1. p \in 1 .. Len(P) /\ p # 0
      BY <1>4
    <3>2. Given(R, p, k, cb.next)
      BY <1>9
    <3> QED BY <2>1, <3>1, <3>2
  <2> QED BY <2>1, <2>2, <2>3, <2>4
<1>21. cb.next = DueCb(P, W, h, i).next /\ k = W[h].how /\ h \in DOMAIN W /\ i \in Due(P, W, h) /\ i \in Nat /\ h \in Nat \ {0}
       /\ W[h].t = "each"
  BY <1>1, <1>2, <1>3, <1>5
<1> HIDE DEF h, i, p, k
<1>12. ~sync => InPlace(P, V, R, C, h + 1, k, cb.next) /\ \A m \in DOMAIN V : m > 0 => V[m].t = "each"
  <2> SUFFICES ASSUME ~sync PROVE InPlace(P, V, R, C, h + 1, k, cb.next) /\ \A m \in DOMAIN V : m > 0 => V[m].t = "each"
    OBVIOUS
  <2>1. Ordered(P, W, R, C)
    BY DEF OK, W
  <2>2. ASSUME NEW m \in DOMAIN V, NEW j \in Due(P, V, m), NEW r1 \in 1 .. Len(R), NEW r2 \in 1 .. Len(R),
               cb.next # 0, R[r1][3] # 0, SamePlace(R, r1, r2), R[r1][2] = V[m].how, R[r1][3] = DueCb(P, V, m, j).next,
               R[r2][2] = k, R[r2][3] = cb.next
        PROVE  (r1 < r2 => m > h + 1) /\ (r2 < r1 => h + 1 > m)
    <3>1. m \in DOMAIN W /\ j \in Due(P, W, m) /\ V[m].how = W[m].how /\ DueCb(P, V, m, j) = DueCb(P, W, m, j) /\ m <= h /\ m \in Int
      BY <1>3, <1>6
    <3>2. r1 < r2 => m > h \/ (m = h /\ j < i)
      <4>1. DueOrder(P, W, R)
        BY <2>1 DEF Ordered
      <4>2. R[r2][2] = W[h].how /\ R[r2][3] = DueCb(P, W, h, i).next /\ R[r1][2] = W[m].how /\ R[r1][3] = DueCb(P, W, m, j).next
        BY <3>1, <2>2, <1>21
      <4> QED BY <3>1, <4>1, <4>2, <2>2, <1>21 DEF DueOrder
    <3>3. m = h => j > i /\ j \in Int
      <4>1. m = h => j \in (i + 1) .. Len(ListOf(P, p, k))
        BY <1>6
      <4> QED BY <4>1, <1>2
    <3>4. m < h + 1 /\ ~(m > h + 1)
      BY <3>1, <1>1
    <3>5. ~(r1 < r2)
      <4>1. i \in Nat /\ h \in Nat
        BY <1>1, <1>2
      <4> QED BY <4>1, <3>1, <3>2, <3>3
    <3> QED BY <3>4, <3>5
  <2>3. ASSUME NEW c \in 1 .. Len(C), NEW r1 \in 1 .. Len(R), NEW r2 \in 1 .. Len(R),
               cb.next # 0, R[r1][2] = C[c][1], R[r1][3] = C[c][2], R[r2][2] = k, R[r2][3] = cb.next, SamePlace(R, r1, r2)
        PROVE  r1 < r2
    <3>1. SamePlace(R, r2, r1)
      BY <2>3 DEF SamePlace
    <3>2. R[r2][2] = W[h].how /\ R[r2][3] = DueCb(P, W, h, i).next /\ CallOrder(P, W, R, C)
      BY <2>1, <2>3, <1>21 DEF Ordered
    <3> QED BY <3>1, <3>2, <2>3, <1>21 DEF CallOrder
  <2>4. h = 1
    BY <2>1, <1>21 DEF Ordered, Shallow
  <2>5. \A m \in DOMAIN V : m > 0 => V[m].t = "each"
    <3>1. \A m \in DOMAIN V : m > 0 => m = h
      BY <2>4, <1>3
    <3> QED BY <3>1, <1>2, <1>3
  <2> QED BY <2>2, <2>3, <2>5 DEF InPlace
<1>13. OK(P, Append(u, task), t, R, C, A)
  <2>1. task.cb = cb /\ task.how = k /\ task.x = s[h].x /\ k \in Kinds /\ Len(u) = h
    BY <1>1, <1>4 DEF h, k
  <2> QED BY <2>1, <1>8, <1>9, <1>10, <1>11, <1>12, Calling DEF V
<1> QED BY <1>13 DEF u

\* What a list gains does not matter to what is being done.
LEMMA GrownKeeps ==
  ASSUME NEW P, NEW Q, NEW W, NEW R, NEW C, NEW A, NEW p \in 1 .. Len(P), NEW k \in Kinds, NEW cb \in Cbs, Sane(P, W, R, C, A),
         Grown(Q, P, p, k, cb), ~Matches(k, P[p].s)
  PROVE  /\ \A m : NotDue(P, W, m) => NotDue(Q, W, m)
         /\ \A m \in 1 .. Len(P) : Untouched(P, W, A, m) /\ m # cb.arg => Untouched(Q, W, A, m)
         /\ \A m \in 1 .. Len(P) : Unsettled(P, W, m) => Unsettled(Q, W, m)
         /\ \A m, e : Belong(P, W, m, e) /\ (m = cb.arg => e = cb.next) => Belong(Q, W, m, e)
<1> USE DEF Sane
<1>1. /\ Len(Q) = Len(P) /\ 1 .. Len(Q) = 1 .. Len(P)
      /\ \A q \in 1 .. Len(P) : Pending(Q, q) <=> Pending(P, q)
  BY DEF Grown, Pending
<1>2. \A q \in 1 .. Len(P), e \in Kinds : \A j \in 1 .. Len(ListOf(Q, q, e)) :
        \/ j \in 1 .. Len(ListOf(P, q, e)) /\ ListOf(Q, q, e)[j] = ListOf(P, q, e)[j]
        \/ q = p /\ e = k /\ ListOf(Q, q, e)[j] = cb
  <2>1. P[p] \in PrimRecords
    BY DEF Typed
  <2>2. ListOf(P, p, k) \in Seq(Cbs)
    BY <2>1 DEF PrimRecords, ListOf
  <2>3. \A j \in 1 .. Len(ListOf(Q, p, k)) :
          \/ j \in 1 .. Len(ListOf(P, p, k)) /\ ListOf(Q, p, k)[j] = ListOf(P, p, k)[j]
          \/ ListOf(Q, p, k)[j] = cb
    BY <2>2 DEF Grown
  <2> QED BY <2>3 DEF Grown
<1>3. \A l \in DOMAIN W : W[l].t = "each" => ListOf(Q, W[l].p, W[l].how) = ListOf(P, W[l].p, W[l].how)
  BY DEF TasksOK, TaskOK, Grown
<1>4. \A l \in DOMAIN W : Due(Q, W, l) = Due(P, W, l) /\ \A j : j \in Due(P, W, l) => DueCb(Q, W, l, j) = DueCb(P, W, l, j)
  BY <1>3 DEF Due, DueCb
<1>5. \A m : NotDue(P, W, m) => NotDue(Q, W, m)
  BY <1>4 DEF NotDue
<1>6. \A m : NoArg(P, W, m) /\ m # cb.arg => NoArg(Q, W, m)
  BY <1>1, <1>2 DEF NoArg
<1>7. \A m \in 1 .. Len(P) : Untouched(P, W, A, m) /\ m # cb.arg => Untouched(Q, W, A, m)
  BY <1>1, <1>6 DEF Untouched
<1>8. \A m \in 1 .. Len(P) : Unsettled(P, W, m) => Unsettled(Q, W, m)
  BY <1>1 DEF Unsettled
<1>9. ASSUME NEW m, NEW e, Belong(P, W, m, e), m = cb.arg => e = cb.next PROVE Belong(Q, W, m, e)
  <2>1. ASSUME NEW q \in 1 .. Len(P), NEW h \in Kinds, NEW j \in 1 .. Len(ListOf(Q, q, h)), ListOf(Q, q, h)[j].arg = m
        PROVE  ListOf(Q, q, h)[j].next = e
    <3>1. CASE j \in 1 .. Len(ListOf(P, q, h)) /\ ListOf(Q, q, h)[j] = ListOf(P, q, h)[j]
      BY <1>9, <2>1, <3>1 DEF Belong
    <3>2. CASE q = p /\ h = k /\ ListOf(Q, q, h)[j] = cb
      BY <1>9, <2>1, <3>2
    <3> QED BY <3>1, <3>2, <1>2
  <2> QED BY <1>9, <2>1, <1>1 DEF Belong
<1> QED BY <1>5, <1>7, <1>8, <1>9

\* The task that calls a callback is a task, with that callback and its value.
LEMMA CallTasks ==
  ASSUME NEW k \in Kinds, NEW cb \in Cbs, NEW x \in Values
  PROVE  /\ CallTask(k, cb, x) \in Tasks /\ CallTask(k, cb, x).t = "call" /\ CallTask(k, cb, x).how = k
         /\ CallTask(k, cb, x).cb = cb /\ CallTask(k, cb, x).x = x
BY DEF CallTask, Task, Tasks, Kinds, Ways

\* A callback may be registered for p.
Free(P, W, R, C, A, p, k, cb) ==
  /\ cb \in Cbs /\ CbOK(cb, k)
  /\ cb.next # 0 =>
       /\ cb.next \in 1 .. Len(P) /\ p < cb.next /\ cb.next > 2
       /\ \A r \in 1 .. Len(R) : R[r][3] = cb.next => R[r][1] = p /\ R[r][2] # k
       /\ Pending(P, p) \/ Matches(k, P[p].s) => Untouched(P, W, A, cb.next)
       /\ Matches(k, P[p].s) => NotDue(P, W, cb.next) /\ ~CalledBack(C, cb.next)
  /\ cb.arg # 0 => cb.arg \in 1 .. Len(P) /\ A[cb.arg] = p /\ Belong(P, W, cb.arg, cb.next) /\ Unsettled(P, W, cb.arg)

\* callback or errback, and what it leaves for the other kind.
LEMMA Registering ==
  ASSUME NEW P, NEW s, NEW t, NEW R, NEW C, NEW A, NEW p \in 1 .. Len(P), NEW k \in Kinds, NEW cb, OK(P, s, t, R, C, A),
         Free(P, Work(s, t), R, C, A, p, k, cb), NEW Q, NEW u, NEW v,
         ~Matches(k, P[p].s) => Grown(Q, P, p, k, cb) /\ u = s /\ v = t,
         Matches(k, P[p].s) => /\ Q = P
                               /\ sync => u = Append(s, CallTask(k, cb, P[p].x)) /\ v = t
                               /\ ~sync => u = s /\ v = Append(t, CallTask(k, cb, P[p].x))
  PROVE  /\ OK(Q, u, v, Append(R, <<p, k, cb.next>>), C, A) /\ Len(Q) = Len(P) /\ Q[p].s = P[p].s
         /\ \A e \in Kinds : \A other : /\ e # k /\ other.next = cb.next /\ other.arg = cb.arg
                                         /\ Free(P, Work(s, t), R, C, A, p, e, other)
               => Free(Q, Work(u, v), Append(R, <<p, k, cb.next>>), C, A, p, e, other)
<1> DEFINE W == Work(s, t)
           V == Work(u, v)
           S == Append(R, <<p, k, cb.next>>)
<1>1. /\ Sane(P, W, R, C, A) /\ s \in Seq(Tasks) /\ t \in Seq(Tasks) /\ Len(P) > 1 /\ cb \in Cbs /\ CbOK(cb, k) /\ cb.next \in Nat
      /\ cb.next = 0 => k = "fail"
  BY DEF OK, Free, Cbs, CbOK
<1>2. cb.next # 0 => /\ cb.next \in 1 .. Len(P) /\ p < cb.next /\ cb.next > 2
                     /\ \A r \in 1 .. Len(R) : R[r][3] = cb.next => R[r][1] = p /\ R[r][2] # k
                     /\ Pending(P, p) \/ Matches(k, P[p].s) => Untouched(P, W, A, cb.next)
                     /\ Matches(k, P[p].s) => NotDue(P, W, cb.next) /\ ~CalledBack(C, cb.next)
  BY DEF Free
<1>3. cb.arg # 0 => cb.arg \in 1 .. Len(P) /\ A[cb.arg] = p /\ Belong(P, W, cb.arg, cb.next) /\ Unsettled(P, W, cb.arg)
  BY DEF Free
<1>4. /\ R \in Seq(Nat \X Kinds \X Nat) /\ Len(S) = Len(R) + 1 /\ Len(R) \in Nat
      /\ (\A r \in 1 .. Len(R) : S[r] = R[r]) /\ S[Len(R) + 1] = <<p, k, cb.next>>
  BY <1>1 DEF Sane, Typed
<1> HIDE DEF S
<1>5. ASSUME ~Matches(k, P[p].s)
      PROVE  /\ OK(Q, u, v, S, C, A) /\ Len(Q) = Len(P) /\ Q[p].s = P[p].s
             /\ (Pending(Q, p) <=> Pending(P, p))
             /\ \A m \in 1 .. Len(P) : Untouched(P, W, A, m) /\ m # cb.arg => Untouched(Q, V, A, m)
             /\ \A m \in 1 .. Len(P) : Unsettled(P, W, m) => Unsettled(Q, V, m)
             /\ \A m : NotDue(P, W, m) => NotDue(Q, V, m)
             /\ \A m, e : Belong(P, W, m, e) /\ (m = cb.arg => e = cb.next) => Belong(Q, V, m, e)
  <2>1. Grown(Q, P, p, k, cb) /\ u = s /\ v = t /\ V = W
    BY <1>5
  <2> HIDE DEF V, W
  <2>2. Sane(Q, W, S, C, A) /\ (Ordered(P, W, R, C) => Ordered(Q, W, S, C))
    BY <2>1, <1>1, <1>2, <1>3, <1>5, Register DEF S
  <2>3. Len(Q) = Len(P) /\ Q[p].s = P[p].s
    BY <2>1 DEF Grown
  <2>4. OK(Q, u, v, S, C, A)
    BY <2>1, <2>2, <2>3, <1>1 DEF OK, V, W
  <2>5. /\ \A m : NotDue(P, W, m) => NotDue(Q, W, m)
        /\ \A m \in 1 .. Len(P) : Untouched(P, W, A, m) /\ m # cb.arg => Untouched(Q, W, A, m)
        /\ \A m \in 1 .. Len(P) : Unsettled(P, W, m) => Unsettled(Q, W, m)
        /\ \A m, e : Belong(P, W, m, e) /\ (m = cb.arg => e = cb.next) => Belong(Q, W, m, e)
    BY <2>1, <1>1, <1>5, GrownKeeps
  <2> QED BY <2>1, <2>3, <2>4, <2>5 DEF Pending
<1>6. ASSUME Matches(k, P[p].s)
      PROVE  /\ OK(Q, u, v, S, C, A) /\ Q = P
             /\ \A m \in 1 .. Len(P) : Unsettled(P, W, m) => Unsettled(Q, V, m)
             /\ \A m, e : Belong(P, W, m, e) /\ (m = cb.arg => e = cb.next) => Belong(Q, V, m, e)
  <2> DEFINE task == CallTask(k, cb, P[p].x)
  <2>0. P[p] \in PrimRecords
    BY <1>1 DEF Sane, Typed
  <2>1. P[p].x \in Values
    BY <2>0 DEF PrimRecords
  <2>21. cb \in Cbs
    BY DEF Free
  <2>22. \A x \in Values : /\ CallTask(k, cb, x) \in Tasks /\ CallTask(k, cb, x).t = "call" /\ CallTask(k, cb, x).how = k
                            /\ CallTask(k, cb, x).cb = cb /\ CallTask(k, cb, x).x = x
    BY <2>21, CallTasks
  <2>2. task \in Tasks /\ task.t = "call" /\ task.how = k /\ task.cb = cb /\ task.x = P[p].x
    BY <2>1, <2>22
  <2>3. Q = P /\ (sync => u = Append(s, task) /\ v = t) /\ (~sync => u = s /\ v = Append(t, task))
    BY <1>6
  <2> HIDE DEF task, V, W
  <2>4. ~Pending(P, p)
    BY <1>6 DEF Matches, Pending
  <2>5. /\ Sane(P, W, S, C, A) /\ Given(S, p, k, cb.next) /\ (Ordered(P, W, R, C) => Ordered(P, W, S, C))
    BY <2>4, <1>1, <1>2, Noted DEF S
  <2>6. OK(P, s, t, S, C, A)
    BY <2>5, <1>1 DEF OK, W
  <2>7. InPlace(P, W, S, C, 0 - (Len(t) + 1), k, cb.next)
    <3> SUFFICES ASSUME cb.next # 0 PROVE InPlace(P, W, S, C, 0 - (Len(t) + 1), k, cb.next)
      BY DEF InPlace
    <3>1. \A r \in 1 .. Len(S) : S[r][2] = k /\ S[r][3] = cb.next => r = Len(R) + 1
      <4>1. \A r \in 1 .. Len(R) : ~(S[r][2] = k /\ S[r][3] = cb.next)
        BY <1>2, <1>4
      <4>2. \A r \in 1 .. Len(S) : r \in 1 .. Len(R) \/ r = Len(R) + 1
        BY <1>4
      <4> QED BY <4>1, <4>2
    <3>2. \A l \in DOMAIN W : 0 - (Len(t) + 1) < l /\ l \in Int
      BY <1>1, WorkTick, <2>2, WorkIs DEF W
    <3>3. ASSUME NEW l \in DOMAIN W, NEW j \in Due(P, W, l), NEW r1 \in 1 .. Len(S), NEW r2 \in 1 .. Len(S),
                 S[r2][2] = k, S[r2][3] = cb.next
          PROVE  (r1 < r2 => l > 0 - (Len(t) + 1)) /\ (r2 < r1 => 0 - (Len(t) + 1) > l)
      <4>1. r2 = Len(R) + 1 /\ ~(r2 < r1)
        BY <3>1, <3>3, <1>4
      <4>2. l > 0 - (Len(t) + 1)
        BY <3>2, <1>1
      <4> QED BY <4>1, <4>2
    <3>4. ASSUME NEW c \in 1 .. Len(C), NEW r1 \in 1 .. Len(S), NEW r2 \in 1 .. Len(S),
                 S[r1][2] = C[c][1], S[r1][3] = C[c][2], S[r2][2] = k, S[r2][3] = cb.next
          PROVE  r1 < r2
      <4>1. C[c][2] # cb.next
        BY <1>2, <1>6 DEF CalledBack
      <4>2. r2 = Len(R) + 1 /\ r1 # r2
        BY <3>1, <3>4, <4>1
      <4> QED BY <4>2, <1>4
    <3> QED BY <3>3, <3>4 DEF InPlace
  <2>8. /\ cb.next # 0 => /\ NotDue(P, W, cb.next) /\ ~CalledBack(C, cb.next) /\ Untouched(P, W, A, cb.next)
                          /\ \E q \in 1 .. Len(P) : Given(S, q, k, cb.next) /\ Matches(k, P[q].s) /\ P[p].x = P[q].x
        /\ cb.arg # 0 => /\ cb.arg \in 1 .. Len(P) /\ A[cb.arg] # 0 /\ Given(S, A[cb.arg], k, cb.next)
                         /\ Unsettled(P, W, cb.arg) /\ Belong(P, W, cb.arg, cb.next)
    BY <2>5, <1>2, <1>3, <1>6
  <2>9. /\ sync => OK(P, Append(s, task), t, S, C, A)
        /\ ~sync => OK(P, s, Append(t, task), S, C, A)
    BY <2>2, <2>6, <2>7, <2>8, <1>1, Calling DEF W
  <2>10. OK(Q, u, v, S, C, A)
    BY <2>3, <2>9
  <2>11. PICK a : Added(V, W, a) /\ V[a] = task
    <3>1. CASE sync
      <4>1. u = Append(s, task) /\ v = t
        BY <2>3, <3>1
      <4>2. Added(V, W, Len(s) + 1) /\ V[Len(s) + 1] = task
        BY <4>1, <2>2, <1>1, WorkPush DEF V, W
      <4> QED BY <4>2
    <3>2. CASE ~sync
      <4>1. u = s /\ v = Append(t, task)
        BY <2>3, <3>2
      <4>2. Added(V, W, 0 - (Len(t) + 1)) /\ V[0 - (Len(t) + 1)] = task
        BY <4>1, <2>2, <1>1, WorkTick DEF V, W
      <4> QED BY <4>2
    <3> QED BY <3>1, <3>2
  <2>12. \A l \in DOMAIN V : l = a \/ (l \in DOMAIN W /\ V[l] = W[l])
    BY <2>11 DEF Added
  <2>13. \A m \in 1 .. Len(P) : Unsettled(P, W, m) => Unsettled(P, V, m)
    BY <2>2, <2>11, <2>12 DEF Unsettled, IsTask
  <2>14. \A m, e : Belong(P, W, m, e) /\ (m = cb.arg => e = cb.next) => Belong(P, V, m, e)
    BY <2>2, <2>11, <2>12 DEF Belong
  <2> QED BY <2>3, <2>10, <2>13, <2>14
<1>7. OK(Q, u, v, S, C, A) /\ Len(Q) = Len(P) /\ Q[p].s = P[p].s
  BY <1>5, <1>6
<1>8. ASSUME NEW e \in Kinds, NEW other, e # k, other.next = cb.next, other.arg = cb.arg, Free(P, W, R, C, A, p, e, other)
      PROVE  Free(Q, V, S, C, A, p, e, other)
  <2> HIDE DEF V, W
  <2>1. /\ other \in Cbs /\ CbOK(other, e)
        /\ cb.next # 0 => /\ cb.next \in 1 .. Len(P) /\ p < cb.next /\ cb.next > 2
                          /\ \A r \in 1 .. Len(R) : R[r][3] = cb.next => R[r][1] = p /\ R[r][2] # e
                          /\ Pending(P, p) \/ Matches(e, P[p].s) => Untouched(P, W, A, cb.next)
                          /\ Matches(e, P[p].s) => NotDue(P, W, cb.next) /\ ~CalledBack(C, cb.next)
        /\ cb.arg # 0 => cb.arg \in 1 .. Len(P) /\ A[cb.arg] = p /\ Belong(P, W, cb.arg, cb.next) /\ Unsettled(P, W, cb.arg)
    BY <1>8 DEF Free
  <2>2. cb.next # 0 => \A r \in 1 .. Len(S) : S[r][3] = cb.next => S[r][1] = p /\ S[r][2] # e
    <3> SUFFICES ASSUME cb.next # 0, NEW r \in 1 .. Len(S), S[r][3] = cb.next PROVE S[r][1] = p /\ S[r][2] # e
      OBVIOUS
    <3>1. CASE r \in 1 .. Len(R)
      BY <2>1, <3>1, <1>4
    <3>2. CASE r = Len(R) + 1
      BY <3>2, <1>4, <1>8
    <3> QED BY <3>1, <3>2, <1>4
  <2>3. cb.arg # 0 => Belong(Q, V, cb.arg, cb.next) /\ Unsettled(Q, V, cb.arg)
    BY <2>1, <1>5, <1>6
  <2>4. Matches(e, P[p].s) => ~Matches(k, P[p].s)
    BY <1>8 DEF Matches
  <2>5. cb.next # 0 /\ (Pending(Q, p) \/ Matches(e, Q[p].s)) => Untouched(Q, V, A, cb.next)
    <3> SUFFICES ASSUME cb.next # 0, Pending(Q, p) \/ Matches(e, Q[p].s) PROVE Untouched(Q, V, A, cb.next)
      OBVIOUS
    <3>1. Pending(P, p) \/ Matches(e, P[p].s)
      BY <1>7 DEF Pending
    <3>2. ~Matches(k, P[p].s)
      BY <3>1, <2>4 DEF Pending, Matches
    <3>3. Untouched(P, W, A, cb.next)
      BY <2>1, <3>1
    <3>4. cb.next # cb.arg
      <4>1. A[cb.next] = 0
        BY <3>3 DEF Untouched
      <4> QED BY <4>1, <2>1
    <3> QED BY <3>2, <3>3, <3>4, <2>1, <1>5
  <2>6. cb.next # 0 /\ Matches(e, Q[p].s) => NotDue(Q, V, cb.next) /\ ~CalledBack(C, cb.next)
    BY <2>1, <2>4, <1>5, <1>7
  <2> QED BY <2>1, <2>2, <2>3, <2>5, <2>6, <1>7, <1>8 DEF Free
<1> QED BY <1>7, <1>8 DEF S, V, W

-----------------------------------------------------------------------------
(* The actions.                                                            *)

St(P, s, t, X, R, C, A) == [prims |-> P, stack |-> s, ticks |-> t, exc |-> X, regs |-> R, calls |-> C, adopts |-> A]

\* What callback and errback do to the state.
LEMMA AddIs ==
  ASSUME NEW P \in Seq(PrimRecords), NEW s, NEW t, NEW X, NEW R, NEW C, NEW A, NEW p \in 1 .. Len(P), NEW k \in Kinds, NEW cb \in Cbs
  PROVE  \E Q, u, v :
           /\ addCallback(St(P, s, t, X, R, C, A), p, k, cb) = St(Q, u, v, X, Append(R, <<p, k, cb.next>>), C, A)
           /\ ~Matches(k, P[p].s) => Grown(Q, P, p, k, cb) /\ u = s /\ v = t
           /\ Matches(k, P[p].s) => /\ Q = P
                                    /\ sync => u = Append(s, CallTask(k, cb, P[p].x)) /\ v = t
                                    /\ ~sync => u = s /\ v = Append(t, CallTask(k, cb, P[p].x))
<1> DEFINE S == Append(R, <<p, k, cb.next>>)
<1>0. P[p] \in PrimRecords
  OBVIOUS
<1>1. P[p] \in PrimRecords /\ Append(P[p].ok, cb) \in Seq(Cbs) /\ Append(P[p].fail, cb) \in Seq(Cbs)
  BY <1>0 DEF PrimRecords
<1>2. CASE Matches(k, P[p].s)
  <2>1. (k = "ok" /\ P[p].s = "v") \/ (k = "fail" /\ P[p].s = "e" /\ k # "ok")
    BY <1>2 DEF Matches
  <2>2. CASE sync
    <3>1. addCallback(St(P, s, t, X, R, C, A), p, k, cb) = St(P, Append(s, CallTask(k, cb, P[p].x)), t, X, S, C, A)
      <4>1. CASE k = "ok" /\ P[p].s = "v"
        BY <2>2, <4>1 DEF addCallback, nextTick, Push, St
      <4>2. CASE k = "fail" /\ P[p].s = "e" /\ k # "ok"
        BY <2>2, <4>2 DEF addCallback, nextTick, Push, St
      <4> QED BY <2>1, <4>1, <4>2
    <3> QED BY <3>1, <2>2, <1>2
  <2>3. CASE ~sync
    <3>1. addCallback(St(P, s, t, X, R, C, A), p, k, cb) = St(P, s, Append(t, CallTask(k, cb, P[p].x)), X, S, C, A)
      <4>1. CASE k = "ok" /\ P[p].s = "v"
        BY <2>3, <4>1 DEF addCallback, nextTick, Push, St
      <4>2. CASE k = "fail" /\ P[p].s = "e" /\ k # "ok"
        BY <2>3, <4>2 DEF addCallback, nextTick, Push, St
      <4> QED BY <2>1, <4>1, <4>2
    <3> QED BY <3>1, <2>3, <1>2
  <2> QED BY <2>2, <2>3
<1>3. CASE ~Matches(k, P[p].s)
  <2> DEFINE z == IF k = "ok" THEN [P[p] EXCEPT !.ok = Append(@, cb)] ELSE [P[p] EXCEPT !.fail = Append(@, cb)]
             Q == [P EXCEPT ![p] = z]
  <2>1. CASE k = "ok"
    <3>1. P[p].s # "v"
      BY <1>3, <2>1 DEF Matches
    <3>2. addCallback(St(P, s, t, X, R, C, A), p, k, cb) = St([P EXCEPT ![p].ok = Append(@, cb)], s, t, X, S, C, A)
      BY <3>1, <2>1 DEF addCallback, St
    <3>3. z \in PrimRecords /\ z.ok = Append(P[p].ok, cb) /\ z.fail = P[p].fail /\ z.s = P[p].s /\ z.x = P[p].x
      BY <2>1, <1>1 DEF PrimRecords
    <3>4. [P EXCEPT ![p].ok = Append(@, cb)] = Q
      BY <2>1
    <3>5. Grown(Q, P, p, k, cb)
      <4> HIDE DEF z
      <4>1. Q \in Seq(PrimRecords) /\ Len(Q) = Len(P) /\ Q[p] = z /\ \A q \in 1 .. Len(P) : q # p => Q[q] = P[q]
        BY <3>3
      <4> HIDE DEF Q
      <4> QED BY <4>1, <3>3, <2>1 DEF Grown, ListOf, Kinds
    <3> QED BY <3>2, <3>4, <3>5, <1>3
  <2>2. CASE k = "fail"
    <3>1. P[p].s # "e" /\ k # "ok"
      BY <1>3, <2>2 DEF Matches
    <3>2. addCallback(St(P, s, t, X, R, C, A), p, k, cb) = St([P EXCEPT ![p].fail = Append(@, cb)], s, t, X, S, C, A)
      BY <3>1, <2>2 DEF addCallback, St
    <3>3. z \in PrimRecords /\ z.fail = Append(P[p].fail, cb) /\ z.ok = P[p].ok /\ z.s = P[p].s /\ z.x = P[p].x
      BY <2>2, <1>1 DEF PrimRecords
    <3>4. [P EXCEPT ![p].fail = Append(@, cb)] = Q
      BY <2>2
    <3>5. Grown(Q, P, p, k, cb)
      <4> HIDE DEF z
      <4>1. Q \in Seq(PrimRecords) /\ Len(Q) = Len(P) /\ Q[p] = z /\ \A q \in 1 .. Len(P) : q # p => Q[q] = P[q]
        BY <3>3
      <4> HIDE DEF Q
      <4> QED BY <4>1, <3>3, <2>2 DEF Grown, ListOf, Kinds
    <3> QED BY <3>2, <3>4, <3>5, <1>3
  <2> QED BY <2>1, <2>2 DEF Kinds
<1> QED BY <1>2, <1>3

\* The tasks of an action.
LEMMA TaskTypes ==
  /\ \A p \in Nat, how \in {"v", "e"}, x \in Values :
       /\ SettleTask(p, how, x) \in Tasks /\ SettleTask(p, how, x).t = "settle" /\ SettleTask(p, how, x).p = p
       /\ SettleTask(p, how, x).how = how /\ SettleTask(p, how, x).x = x
  /\ \A p \in Nat, k \in Kinds, x \in Values :
       /\ EachTask(p, k, x) \in Tasks /\ EachTask(p, k, x).t = "each" /\ EachTask(p, k, x).p = p
       /\ EachTask(p, k, x).how = k /\ EachTask(p, k, x).i = 1 /\ EachTask(p, k, x).x = x
  /\ \A p \in Nat : TryTask(p) \in Tasks /\ TryTask(p).t = "try" /\ TryTask(p).p = p
  /\ \A k \in Kinds, cb \in Cbs, x \in Values :
       UserTask(k, cb, x) \in Tasks /\ UserTask(k, cb, x).t = "user" /\ UserTask(k, cb, x).cb = cb
<1>1. NoCb \in Cbs
  BY DEF NoCb, Cb, Cbs, Handlers
<1>2. ASSUME NEW p \in Nat, NEW how \in {"v", "e"}, NEW x \in Values
      PROVE  /\ SettleTask(p, how, x) \in Tasks /\ SettleTask(p, how, x).t = "settle" /\ SettleTask(p, how, x).p = p
             /\ SettleTask(p, how, x).how = how /\ SettleTask(p, how, x).x = x
  <2>1. SettleTask(p, how, x) \in Tasks
    BY <1>1 DEF SettleTask, Task, Tasks, Ways
  <2> QED BY <2>1 DEF SettleTask, Task
<1>3. ASSUME NEW p \in Nat, NEW k \in Kinds, NEW x \in Values
      PROVE  /\ EachTask(p, k, x) \in Tasks /\ EachTask(p, k, x).t = "each" /\ EachTask(p, k, x).p = p
             /\ EachTask(p, k, x).how = k /\ EachTask(p, k, x).i = 1 /\ EachTask(p, k, x).x = x
  <2>1. EachTask(p, k, x) \in Tasks
    BY <1>1 DEF EachTask, Task, Tasks, Kinds, Ways
  <2> QED BY <2>1 DEF EachTask, Task
<1>4. ASSUME NEW p \in Nat PROVE TryTask(p) \in Tasks /\ TryTask(p).t = "try" /\ TryTask(p).p = p
  <2>1. TryTask(p) \in Tasks
    BY <1>1 DEF TryTask, Task, Tasks, Values, Ways
  <2> QED BY <2>1 DEF TryTask, Task
<1>5. ASSUME NEW k \in Kinds, NEW cb \in Cbs, NEW x \in Values
      PROVE  UserTask(k, cb, x) \in Tasks /\ UserTask(k, cb, x).t = "user" /\ UserTask(k, cb, x).cb = cb
  <2>1. UserTask(k, cb, x) \in Tasks
    BY DEF UserTask, Task, Tasks, Kinds, Ways
  <2> QED BY <2>1 DEF UserTask, Task
<1> QED BY <1>2, <1>3, <1>4, <1>5

\* The parts of a state that is pushed, popped or put in place.
LEMMA StateIs ==
  /\ Here = St(prims, stack, ticks, exc, regs, calls, adopts)
  /\ Pop(Here) = St(prims, Front(stack), ticks, exc, regs, calls, adopts)
  /\ \A P, s, t, X, R, C, A, task : Push(St(P, s, t, X, R, C, A), task) = St(P, Append(s, task), t, X, R, C, A)
  /\ \A P, s, t, X, R, C, A : Become(St(P, s, t, X, R, C, A)) =>
       prims' = P /\ stack' = s /\ ticks' = t /\ exc' = X /\ regs' = R /\ calls' = C /\ adopts' = A
<1>1. Here = St(prims, stack, ticks, exc, regs, calls, adopts)
  BY DEF Here, St
<1>2. Pop(Here) = St(prims, Front(stack), ticks, exc, regs, calls, adopts)
  BY DEF Here, St, Pop
<1>3. ASSUME NEW P, NEW s, NEW t, NEW X, NEW R, NEW C, NEW A
      PROVE  /\ \A task : Push(St(P, s, t, X, R, C, A), task) = St(P, Append(s, task), t, X, R, C, A)
             /\ Become(St(P, s, t, X, R, C, A)) =>
                  prims' = P /\ stack' = s /\ ticks' = t /\ exc' = X /\ regs' = R /\ calls' = C /\ adopts' = A
  <2>1. ASSUME NEW task PROVE Push(St(P, s, t, X, R, C, A), task) = St(P, Append(s, task), t, X, R, C, A)
    BY DEF St, Push
  <2>2. Become(St(P, s, t, X, R, C, A)) =>
          prims' = P /\ stack' = s /\ ticks' = t /\ exc' = X /\ regs' = R /\ calls' = C /\ adopts' = A
    BY DEF St, Become
  <2> QED BY <2>1, <2>2
<1> QED BY <1>1, <1>2, <1>3

\* No function runs in two tries at once, and a try whose promise has adopted another one
\* does nothing more but pass on how that was settled.
OneTry(s) == \A l, m \in 1 .. Len(s) : s[l].t = "try" /\ s[m].t = "try" /\ s[l].p = s[m].p => l = m
Done(P, A, n) == A[n] = 0 \/ ~Pending(P, n)
Held(P, s, A, n) == \A l \in 1 .. Len(s) : s[l].t = "try" /\ s[l].p # n => Done(P, A, s[l].p)
Deciding(s, n) == 
  /\ s # <<>>
  /\ \/ s[Len(s)].t = "try" /\ s[Len(s)].p = n
     \/ s[Len(s)].t = "call" /\ s[Len(s)].cb.arg = n
     \/ s[Len(s)].t = "settle" /\ s[Len(s)].p = n
Fails(X) == X # ""
TriesOK(P, s, X, A) == OneTry(s) /\ \E n \in Nat : Held(P, s, A, n) /\ (n # 0 => ~Fails(X) /\ Deciding(s, n))

\* No try begins.
LEMMA SameTries ==
  ASSUME NEW P, NEW Q, NEW s, NEW u, NEW A, NEW B, OneTry(s), NEW n, Held(P, s, A, n), NEW m,
         \A l \in 1 .. Len(u) : u[l].t = "try" => l \in 1 .. Len(s) /\ s[l].t = "try" /\ u[l].p = s[l].p,
         \A l \in 1 .. Len(u) : u[l].t = "try" /\ u[l].p # m /\ Done(P, A, u[l].p) => Done(Q, B, u[l].p),
         \A l \in 1 .. Len(u) : u[l].t = "try" /\ u[l].p = n => n = m \/ Done(Q, B, u[l].p)
  PROVE  OneTry(u) /\ Held(Q, u, B, m)
<1>1. OneTry(u)
  BY DEF OneTry
<1>2. Held(Q, u, B, m)
  BY DEF Held
<1> QED BY <1>1, <1>2

\* A try may be pushed for a promise that no other try is for.
LEMMA NewTry ==
  ASSUME NEW P, NEW s \in Seq(Tasks), NEW A, OneTry(s), NEW n, Held(P, s, A, n), NEW task, task.t = "try", 
         \A l \in 1 .. Len(s) : s[l].t = "try" => s[l].p # task.p, task.p # n => Done(P, A, task.p)
  PROVE  OneTry(Append(s, task)) /\ Held(P, Append(s, task), A, n)
<1>1. /\ Len(Append(s, task)) = Len(s) + 1 /\ Append(s, task)[Len(s) + 1] = task /\ Len(s) \in Nat
      /\ \A l \in 1 .. Len(s) : Append(s, task)[l] = s[l]
  OBVIOUS
<1> DEFINE u == Append(s, task)
<1> HIDE DEF u
<1>2. \A l \in 1 .. Len(u) : (l \in 1 .. Len(s) /\ u[l] = s[l]) \/ (l = Len(s) + 1 /\ u[l] = task)
  BY <1>1 DEF u
<1>3. OneTry(u)
  BY <1>2 DEF OneTry
<1>4. Held(P, u, A, n)
  BY <1>2 DEF Held
<1> QED BY <1>3, <1>4 DEF u

\* A task that is no try is begun, and one is left.
LEMMA TriesPush ==
  ASSUME NEW P, NEW s \in Seq(Tasks), NEW A, OneTry(s), NEW n, Held(P, s, A, n), NEW task, task.t # "try"
  PROVE  OneTry(Append(s, task)) /\ Held(P, Append(s, task), A, n)
<1>1. /\ Len(Append(s, task)) = Len(s) + 1 /\ Append(s, task)[Len(s) + 1] = task /\ Len(s) \in Nat
      /\ \A l \in 1 .. Len(s) : Append(s, task)[l] = s[l]
  OBVIOUS
<1> DEFINE u == Append(s, task)
<1> HIDE DEF u
<1>2. \A l \in 1 .. Len(u) : (l \in 1 .. Len(s) /\ u[l] = s[l]) \/ (l = Len(s) + 1 /\ u[l] = task)
  BY <1>1 DEF u
<1>3. OneTry(u)
  BY <1>2 DEF OneTry
<1>4. Held(P, u, A, n)
  BY <1>2 DEF Held
<1> QED BY <1>3, <1>4 DEF u

\* Taking a task off the stack leaves one try for each promise, and none for the one it was for.
LEMMA TriesPop ==
  ASSUME NEW P, NEW s \in Seq(Tasks), s # <<>>, NEW A, OneTry(s), NEW n, Held(P, s, A, n)
  PROVE  /\ OneTry(Front(s)) /\ Held(P, Front(s), A, n) /\ Front(s) \in Seq(Tasks)
         /\ s[Len(s)].t = "try" => /\ \A l \in 1 .. Len(Front(s)) : Front(s)[l].t = "try" => Front(s)[l].p # s[Len(s)].p
                                   /\ s[Len(s)].p = n => Held(P, Front(s), A, 0)
<1>1. /\ Front(s) \in Seq(Tasks) /\ Len(Front(s)) = Len(s) - 1 /\ Len(s) \in Nat \ {0}
      /\ \A l \in 1 .. Len(s) - 1 : Front(s)[l] = s[l]
  <2>1. <<>> \in Seq(Tasks)
    OBVIOUS
  <2> QED BY <2>1, WorkPop
<1> DEFINE u == Front(s)
<1> HIDE DEF u
<1>2. \A l \in 1 .. Len(u) : l \in 1 .. Len(s) /\ u[l] = s[l] /\ l # Len(s)
  BY <1>1 DEF u
<1>3. OneTry(u)
  BY <1>2 DEF OneTry
<1>4. Held(P, u, A, n)
  BY <1>2 DEF Held
<1>5. ASSUME s[Len(s)].t = "try" PROVE \A l \in 1 .. Len(u) : u[l].t = "try" => u[l].p # s[Len(s)].p
  <2>1. Len(s) \in 1 .. Len(s)
    BY <1>1
  <2> QED BY <2>1, <1>2, <1>5 DEF OneTry
<1>6. ASSUME s[Len(s)].t = "try", s[Len(s)].p = n PROVE Held(P, u, A, 0)
  BY <1>4, <1>5, <1>6 DEF Held
<1> QED BY <1>1, <1>3, <1>4, <1>5, <1>6 DEF u

-----------------------------------------------------------------------------
Consistent == OK(prims, stack, ticks, regs, calls, adopts) /\ exc \in Values /\ TriesOK(prims, stack, exc, adopts)

\* An action that leads to a state as it should be keeps the invariant.
LEMMA Becomes ==
  ASSUME NEW P, NEW s, NEW t, NEW X \in Values, NEW R, NEW C, NEW A, Become(St(P, s, t, X, R, C, A)), sync' = sync,
         OK(P, s, t, R, C, A), TriesOK(P, s, X, A)
  PROVE  Consistent'
<1>1. prims' = P /\ stack' = s /\ ticks' = t /\ exc' = X /\ regs' = R /\ calls' = C /\ adopts' = A
  BY StateIs
<1>2. OK(prims, stack, ticks, regs, calls, adopts)'
  BY <1>1 DEF OK
<1>3. TriesOK(prims, stack, exc, adopts)'
  BY <1>1 DEF TriesOK
<1> QED BY <1>1, <1>2, <1>3 DEF Consistent

\* The task in progress, and what there is without it.
LEMMA TopIs ==
  ASSUME Consistent, Running
  PROVE  LET W == Work(stack, ticks)
             V == Work(Front(stack), ticks)
             l == Len(stack) IN
         /\ stack \in Seq(Tasks) /\ stack # <<>> /\ Front(stack) \in Seq(Tasks) /\ l \in Nat \ {0} /\ l \in DOMAIN W
         /\ Top = stack[l] /\ W[l] = Top /\ Top \in Tasks
         /\ Without(V, W, l) /\ DOMAIN V \subseteq DOMAIN W /\ (\A m \in DOMAIN V : V[m] = W[m])
         /\ DOMAIN W \subseteq Int /\ (\A m \in DOMAIN W : m <= l) /\ (\A m \in DOMAIN V : m < l)
         /\ Sane(prims, W, regs, calls, adopts) /\ TaskOK(prims, W, regs, l)
         /\ OK(prims, Front(stack), ticks, regs, calls, adopts)
<1> DEFINE W == Work(stack, ticks)
           V == Work(Front(stack), ticks)
           l == Len(stack)
<1>1. stack \in Seq(Tasks) /\ ticks \in Seq(Tasks) /\ stack # <<>> /\ Sane(prims, W, regs, calls, adopts)
  BY DEF Consistent, OK, Running
<1>2. /\ Front(stack) \in Seq(Tasks) /\ l \in Nat \ {0} /\ Top = stack[l] /\ l \in DOMAIN W /\ W[l] = Top /\ Top \in Tasks
      /\ DOMAIN V = DOMAIN W \ {l} /\ (\A m \in DOMAIN V : V[m] = W[m]) /\ \A m \in DOMAIN W : m <= l
  BY <1>1, WorkPop DEF Top
<1>3. OK(prims, Front(stack), ticks, regs, calls, adopts)
  BY <1>1, Left DEF Consistent
<1>4. TaskOK(prims, W, regs, l) /\ DOMAIN W \subseteq Int
  BY <1>1, <1>2 DEF Sane, TasksOK, Typed
<1> HIDE DEF W, V
<1>5. Without(V, W, l) /\ DOMAIN V \subseteq DOMAIN W /\ \A m \in DOMAIN V : m < l
  BY <1>2, <1>4 DEF Without
<1> QED BY <1>1, <1>2, <1>3, <1>4, <1>5 DEF W, V

\* What a task is about is among the promises.
LEMMA TopTask ==
  ASSUME Consistent, Running
  PROVE  /\ Top.p \in Nat /\ Top.x \in Values /\ Top.cb \in Cbs /\ Top.cb.next \in Nat /\ Top.cb.arg \in Nat
         /\ Top.t \in {"settle", "each", "call", "try", "user"}
         /\ Top.t \in {"settle", "each", "try"} => Top.p \in 1 .. Len(prims)
         /\ Top.t = "settle" => Top.how \in {"v", "e"}
         /\ Top.t \in {"each", "call"} => Top.how \in Kinds
<1>1. Top \in Tasks /\ TaskOK(prims, Work(stack, ticks), regs, Len(stack)) /\ Work(stack, ticks)[Len(stack)] = Top
  BY TopIs
<1>2. Top.p \in Nat /\ Top.x \in Values /\ Top.cb \in Cbs /\ Top.t \in {"settle", "each", "call", "try", "user"}
  BY <1>1 DEF Tasks
<1>3. Top.cb.next \in Nat /\ Top.cb.arg \in Nat
  BY <1>2 DEF Cbs
<1>4. /\ Top.t \in {"settle", "each", "try"} => Top.p \in 1 .. Len(prims)
      /\ Top.t = "settle" => Top.how \in {"v", "e"}
      /\ Top.t \in {"each", "call"} => Top.how \in Kinds
  BY <1>1 DEF TaskOK
<1> QED BY <1>2, <1>3, <1>4

\* A try on the stack is for a promise that exists.
LEMMA TriesTyped ==
  ASSUME NEW P, NEW s, NEW t, NEW R, NEW C, NEW A, OK(P, s, t, R, C, A)
  PROVE  \A m \in 1 .. Len(s) : s[m].t = "try" => s[m].p \in 1 .. Len(P)
<1> SUFFICES ASSUME NEW m \in 1 .. Len(s), s[m].t = "try" PROVE s[m].p \in 1 .. Len(P)
  OBVIOUS
<1>1. s \in Seq(Tasks) /\ t \in Seq(Tasks) /\ TasksOK(P, Work(s, t), R)
  BY DEF OK, Sane
<1>2. m \in DOMAIN Work(s, t) /\ Work(s, t)[m] = s[m]
  BY <1>1, WorkIs
<1> QED BY <1>1, <1>2 DEF TasksOK, TaskOK

KindOf(how) == IF how = "v" THEN "ok" ELSE "fail"

\* What settle does: it settles a pending promise and has it notify, at once or by a
\* tick, and throws for a settled one (2741-2749, 2797-2810).
LEMMA SettleIs ==
  ASSUME NEW P \in Seq(PrimRecords), NEW s, NEW t, NEW X, NEW R, NEW C, NEW A, NEW p \in 1 .. Len(P),
         NEW how \in {"v", "e"}, NEW x \in Values
  PROVE  /\ Pending(P, p) => \E Q : 
              /\ SettledAs(Q, P, p, how, x)
              /\ sync => settle(St(P, s, t, X, R, C, A), p, how, x) = St(Q, Append(s, EachTask(p, KindOf(how), x)), t, X, R, C, A)
              /\ ~sync => settle(St(P, s, t, X, R, C, A), p, how, x) = St(Q, s, Append(t, EachTask(p, KindOf(how), x)), X, R, C, A)
         /\ ~Pending(P, p) => settle(St(P, s, t, X, R, C, A), p, how, x) = St(P, s, t, "nope", R, C, A)
<1> DEFINE z == [P[p] EXCEPT !.s = how, !.x = x]
           Q == [P EXCEPT ![p] = z]
<1>0. P[p] \in PrimRecords
  OBVIOUS
<1>1. z \in PrimRecords /\ z.ok = P[p].ok /\ z.fail = P[p].fail /\ z.s = how /\ z.x = x
  BY <1>0 DEF PrimRecords
<1>2. SettledAs(Q, P, p, how, x)
  <2> HIDE DEF z
  <2>1. Q \in Seq(PrimRecords) /\ Len(Q) = Len(P) /\ Q[p] = z /\ \A q \in 1 .. Len(P) : q # p => Q[q] = P[q]
    BY <1>1
  <2> HIDE DEF Q
  <2> QED BY <1>1, <2>1 DEF SettledAs
<1>3. ASSUME Pending(P, p)
      PROVE  /\ sync => settle(St(P, s, t, X, R, C, A), p, how, x) = St(Q, Append(s, EachTask(p, KindOf(how), x)), t, X, R, C, A)
             /\ ~sync => settle(St(P, s, t, X, R, C, A), p, how, x) = St(Q, s, Append(t, EachTask(p, KindOf(how), x)), X, R, C, A)
  <2>1. [St(P, s, t, X, R, C, A) EXCEPT !.prims[p].s = how, !.prims[p].x = x] = St(Q, s, t, X, R, C, A)
    <3>1. [[P EXCEPT ![p].s = how] EXCEPT ![p].x = x] = Q
      OBVIOUS
    <3>2. \A Z : /\ [St(Z, s, t, X, R, C, A) EXCEPT !.prims[p].s = how] = St([Z EXCEPT ![p].s = how], s, t, X, R, C, A)
                 /\ [St(Z, s, t, X, R, C, A) EXCEPT !.prims[p].x = x] = St([Z EXCEPT ![p].x = x], s, t, X, R, C, A)
      <4> TAKE Z
      <4> DEFINE Y1 == [Z EXCEPT ![p].s = how]
                 Y2 == [Z EXCEPT ![p].x = x]
      <4>1. /\ [St(Z, s, t, X, R, C, A) EXCEPT !.prims[p].s = how] = [St(Z, s, t, X, R, C, A) EXCEPT !.prims = Y1]
            /\ [St(Z, s, t, X, R, C, A) EXCEPT !.prims[p].x = x] = [St(Z, s, t, X, R, C, A) EXCEPT !.prims = Y2]
        <5>1. St(Z, s, t, X, R, C, A).prims = Z
          BY DEF St
        <5> QED BY <5>1
      <4> HIDE DEF Y1, Y2
      <4>2. \A Y : [St(Z, s, t, X, R, C, A) EXCEPT !.prims = Y] = St(Y, s, t, X, R, C, A)
        BY DEF St
      <4> QED BY <4>1, <4>2 DEF Y1, Y2
    <3> QED BY <3>1, <3>2
  <2>2. check(St(P, s, t, X, R, C, A), p)
    BY <1>3 DEF check, St, Pending
  <2> HIDE DEF Q
  <2>3. settle(St(P, s, t, X, R, C, A), p, how, x) = notify(St(Q, s, t, X, R, C, A), p, how, x)
    BY <2>1, <2>2 DEF settle
  <2>4. CASE sync
    BY <2>3, <2>4, StateIs DEF notify, nextTick, KindOf
  <2>5. CASE ~sync
    <3>1. \A e : [St(Q, s, t, X, R, C, A) EXCEPT !.ticks = e] = St(Q, s, e, X, R, C, A)
      BY DEF St
    <3>2. St(Q, s, t, X, R, C, A).ticks = t
      BY DEF St
    <3> QED BY <2>3, <2>5, <3>1, <3>2 DEF notify, nextTick, KindOf
  <2> QED BY <2>4, <2>5
<1>4. ASSUME ~Pending(P, p) PROVE settle(St(P, s, t, X, R, C, A), p, how, x) = St(P, s, t, "nope", R, C, A)
  <2>1. ~check(St(P, s, t, X, R, C, A), p)
    BY <1>4 DEF check, St, Pending
  <2>2. [St(P, s, t, X, R, C, A) EXCEPT !.exc = "nope"] = St(P, s, t, "nope", R, C, A)
    BY DEF St
  <2> QED BY <2>1, <2>2 DEF settle
<1> QED BY <1>2, <1>3, <1>4

\* resolve and reject.
LEMMA SettleStep ==
  ASSUME Consistent, Running, ~Fails(exc), Top.t = "settle", Become(settle(Pop(Here), Top.p, Top.how, Top.x)), sync' = sync
  PROVE  Consistent'
<1> DEFINE W == Work(stack, ticks)
           V == Work(Front(stack), ticks)
           l == Len(stack)
           p == Top.p
           how == Top.how
           x == Top.x
           k == KindOf(how)
<1>1. p \in 1 .. Len(prims) /\ p \in Nat /\ how \in {"v", "e"} /\ x \in Values /\ k \in Kinds
  BY TopTask DEF Kinds, KindOf
<1>2. /\ l \in DOMAIN W /\ W[l] = Top /\ Sane(prims, W, regs, calls, adopts) /\ OK(prims, Front(stack), ticks, regs, calls, adopts)
      /\ DOMAIN V \subseteq DOMAIN W /\ (\A m \in DOMAIN V : V[m] = W[m]) /\ stack \in Seq(Tasks) /\ stack # <<>>
      /\ Top = stack[l] /\ Front(stack) \in Seq(Tasks)
  BY TopIs
<1>13. prims \in Seq(PrimRecords) /\ Pop(Here) = St(prims, Front(stack), ticks, exc, regs, calls, adopts)
  BY <1>2, StateIs DEF Sane, Typed
<1>0. Top.p = p /\ Top.how = how /\ Top.x = x
  OBVIOUS
<1>12. Become(settle(Pop(Here), p, how, x))
  OBVIOUS
<1> HIDE DEF W, V, p, how, x, k
<1>3. IsTask(W, "settle", p)
  BY <1>0, <1>2 DEF IsTask
<1>4. NotWaiting(prims, W, p) /\ NotArgued(prims, W, p) /\ ~IsTask(W, "user", p)
  BY <1>1, <1>2, <1>3, TaskFacts
<1>5. NotWaiting(prims, V, p) /\ NotArgued(prims, V, p) /\ ~IsTask(V, "user", p)
  BY <1>2, <1>4, Fewer
<1>6. adopts[p] # 0 => ~Pending(prims, p) \/ Agrees(prims, how, x, adopts[p])
  BY <1>0, <1>1, <1>2 DEF Sane, AdoptOK
<1>7. PICK n \in Nat : OneTry(stack) /\ Held(prims, stack, adopts, n) /\ (n # 0 => Deciding(stack, n))
  BY DEF Consistent, TriesOK
<1>8. n # 0 => n = p
  BY <1>0, <1>2, <1>7 DEF Deciding
<1>9. OneTry(Front(stack)) /\ Held(prims, Front(stack), adopts, n)
  BY <1>2, <1>7, TriesPop
<1>10. CASE Pending(prims, p)
  <2> DEFINE task == EachTask(p, k, x)
             s == Front(stack)
  <2>3. PICK Q : /\ SettledAs(Q, prims, p, how, x)
                 /\ sync => settle(Pop(Here), p, how, x) = St(Q, Append(s, task), ticks, exc, regs, calls, adopts)
                 /\ ~sync => settle(Pop(Here), p, how, x) = St(Q, s, Append(ticks, task), exc, regs, calls, adopts)
    BY <1>1, <1>10, <1>13, SettleIs DEF k
  <2>5. task \in Tasks /\ task.t = "each" /\ task.p = p /\ task.how = k /\ task.i = 1 /\ task.x = x
    <3> HIDE DEF task
    <3> QED BY <1>1, TaskTypes DEF task
  <2> HIDE DEF task
  <2>6. /\ sync => OK(Q, Append(s, task), ticks, regs, calls, adopts)
        /\ ~sync => OK(Q, s, Append(ticks, task), regs, calls, adopts)
    BY <1>1, <1>2, <1>5, <1>6, <1>10, <2>3, <2>5, Settling DEF V, k, KindOf
  <2>8. \A m \in 1 .. Len(s) : s[m].t = "try" => s[m].p \in 1 .. Len(prims)
    BY <1>2, TriesTyped
  <2>7. OneTry(s) /\ Held(Q, s, adopts, 0)
    <3>1. \A m \in 1 .. Len(s) : s[m].t = "try" /\ Done(prims, adopts, s[m].p) => Done(Q, adopts, s[m].p)
      <4> SUFFICES ASSUME NEW m \in 1 .. Len(s), s[m].t = "try", Done(prims, adopts, s[m].p), ~Pending(prims, s[m].p)
                   PROVE  ~Pending(Q, s[m].p)
        BY DEF Done
      <4>1. s[m].p \in 1 .. Len(prims)
        BY <2>8
      <4> QED BY <4>1, <2>3, <1>1 DEF SettledAs, Pending
    <3>2. ~Pending(Q, p)
      BY <2>3, <1>1 DEF SettledAs, Pending
    <3>3. /\ \A m \in 1 .. Len(s) : s[m].t = "try" => m \in 1 .. Len(s) /\ s[m].t = "try" /\ s[m].p = s[m].p
          /\ \A m \in 1 .. Len(s) : s[m].t = "try" /\ s[m].p # 0 /\ Done(prims, adopts, s[m].p) => Done(Q, adopts, s[m].p)
      BY <3>1
    <3>4. \A m \in 1 .. Len(s) : s[m].t = "try" /\ s[m].p = n => n = 0 \/ Done(Q, adopts, s[m].p)
      BY <1>8, <3>2 DEF Done
    <3>5. OneTry(s) /\ Held(prims, s, adopts, n)
      BY <1>9
    <3> HIDE DEF s
    <3> QED BY <3>3, <3>4, <3>5, SameTries
  <2>9. CASE sync
    <3>1. TriesOK(Q, Append(s, task), exc, adopts)
      BY <2>7, <2>5, <1>2, TriesPush DEF TriesOK
    <3> QED BY <3>1, <2>6, <2>9, <2>3, <1>12, Becomes DEF Consistent
  <2>10. CASE ~sync
    <3>1. TriesOK(Q, s, exc, adopts)
      BY <2>7 DEF TriesOK
    <3> QED BY <3>1, <2>6, <2>10, <2>3, <1>12, Becomes DEF Consistent
  <2> QED BY <2>9, <2>10
<1>11. CASE ~Pending(prims, p)
  <2>1. settle(Pop(Here), p, how, x) = St(prims, Front(stack), ticks, "nope", regs, calls, adopts)
    BY <1>1, <1>11, <1>13, SettleIs
  <2>2. Held(prims, Front(stack), adopts, 0)
    BY <1>8, <1>9, <1>11 DEF Held, Done
  <2>3. TriesOK(prims, Front(stack), "nope", adopts)
    BY <1>9, <2>2 DEF TriesOK
  <2> QED BY <2>1, <2>3, <1>2, <1>12, Becomes DEF Values
<1> QED BY <1>10, <1>11

\* The tries below the task in progress.
LEMMA TopTries ==
  ASSUME Consistent, Running
  PROVE  \E n \in Nat :
           /\ OneTry(Front(stack)) /\ Held(prims, Front(stack), adopts, n)
           /\ n # 0 => /\ ~Fails(exc)
                       /\ (Top.t = "call" /\ Top.cb.arg = n) \/ (Top.t = "settle" /\ Top.p = n)
           /\ Top.t = "try" => \A m \in 1 .. Len(Front(stack)) : Front(stack)[m].t = "try" => Front(stack)[m].p # Top.p
           /\ Top.t = "try" /\ Fails(exc) => Done(prims, adopts, Top.p)
<1>1. stack \in Seq(Tasks) /\ stack # <<>> /\ Top = stack[Len(stack)] /\ Len(stack) \in Nat \ {0}
  BY TopIs
<1>2. PICK n \in Nat : OneTry(stack) /\ Held(prims, stack, adopts, n) /\ (n # 0 => ~Fails(exc) /\ Deciding(stack, n))
  BY DEF Consistent, TriesOK
<1>3. /\ OneTry(Front(stack)) /\ Held(prims, Front(stack), adopts, n)
      /\ Top.t = "try" => /\ \A m \in 1 .. Len(Front(stack)) : Front(stack)[m].t = "try" => Front(stack)[m].p # Top.p
                          /\ Top.p = n => Held(prims, Front(stack), adopts, 0)
  BY <1>1, <1>2, TriesPop
<1>4. n # 0 => ~Fails(exc) /\ ((Top.t = "try" /\ Top.p = n) \/ (Top.t = "call" /\ Top.cb.arg = n) \/ (Top.t = "settle" /\ Top.p = n))
  BY <1>1, <1>2 DEF Deciding
<1>5. Top.t = "try" /\ Fails(exc) => Done(prims, adopts, Top.p)
  <2> SUFFICES ASSUME Top.t = "try", Fails(exc) PROVE Done(prims, adopts, Top.p)
    OBVIOUS
  <2>1. n = 0 /\ Len(stack) \in 1 .. Len(stack)
    BY <1>1, <1>2
  <2>2. Top.p # 0
    BY TopTask
  <2> QED BY <1>1, <1>2, <2>1, <2>2 DEF Held
<1>6. CASE Top.t = "try"
  <2>1. CASE n = 0
    BY <1>3, <1>5, <2>1
  <2>2. CASE n # 0
    <3>1. Held(prims, Front(stack), adopts, 0)
      BY <1>3, <1>4, <1>6, <2>2
    <3> QED BY <1>3, <1>5, <3>1
  <2> QED BY <2>1, <2>2
<1>7. CASE Top.t # "try"
  BY <1>2, <1>3, <1>4, <1>7
<1> QED BY <1>6, <1>7

\* A notification calls its next callback, or ends.
LEMMA EachIs ==
  ASSUME Consistent, Running, Top.t = "each"
  PROVE  /\ Top.i > Len(ListOf(prims, Top.p, Top.how)) => EachStep = St(prims, Front(stack), ticks, exc, regs, calls, adopts)
         /\ ~(Top.i > Len(ListOf(prims, Top.p, Top.how))) =>
              EachStep = St(prims, Append([stack EXCEPT ![Len(stack)] = [Top EXCEPT !.i = @ + 1]],
                                          CallTask(Top.how, ListOf(prims, Top.p, Top.how)[Top.i], Top.x)),
                            ticks, exc, regs, calls, adopts)
<1>1. Top = stack[Len(stack)] /\ stack \in Seq(Tasks) /\ Len(stack) \in 1 .. Len(stack)
  BY TopIs
<1>2. ListOf(prims, Top.p, Top.how) = IF Top.how = "ok" THEN prims[Top.p].ok ELSE prims[Top.p].fail
  BY DEF ListOf
<1>3. [Here EXCEPT !.stack[Len(stack)].i = @ + 1] =
        St(prims, [stack EXCEPT ![Len(stack)] = [Top EXCEPT !.i = @ + 1]], ticks, exc, regs, calls, adopts)
  <2>1. \A s : [St(prims, stack, ticks, exc, regs, calls, adopts) EXCEPT !.stack = s] = St(prims, s, ticks, exc, regs, calls, adopts)
    BY DEF St
  <2>2. St(prims, stack, ticks, exc, regs, calls, adopts).stack = stack
    BY DEF St
  <2>3. Here = St(prims, stack, ticks, exc, regs, calls, adopts)
    BY StateIs
  <2> QED BY <1>1, <2>1, <2>2, <2>3
<1>4. CASE Top.i > Len(ListOf(prims, Top.p, Top.how))
  <2>1. EachStep = Pop(Here)
    BY <1>2, <1>4 DEF EachStep
  <2> QED BY <2>1, <1>4, StateIs
<1>5. CASE ~(Top.i > Len(ListOf(prims, Top.p, Top.how)))
  <2>1. EachStep = Push([Here EXCEPT !.stack[Len(stack)].i = @ + 1], CallTask(Top.how, ListOf(prims, Top.p, Top.how)[Top.i], Top.x))
    BY <1>2, <1>5 DEF EachStep
  <2> QED BY <2>1, <1>3, <1>5, StateIs
<1> QED BY <1>4, <1>5

\* Calling the next callback of a list, or ending the list, keeps the invariant (2726-2739).
LEMMA EachStepped ==
  ASSUME Consistent, Running, ~Fails(exc), Top.t = "each", Become(EachStep), sync' = sync
  PROVE  Consistent'
<1> DEFINE list == ListOf(prims, Top.p, Top.how)
           on == [Top EXCEPT !.i = @ + 1]
           s == [stack EXCEPT ![Len(stack)] = on]
           task == CallTask(Top.how, list[Top.i], Top.x)
<1>1. /\ stack \in Seq(Tasks) /\ stack # <<>> /\ Top = stack[Len(stack)] /\ Len(stack) \in 1 .. Len(stack) /\ Top \in Tasks
      /\ OK(prims, Front(stack), ticks, regs, calls, adopts) /\ exc \in Values /\ OK(prims, stack, ticks, regs, calls, adopts)
  BY TopIs DEF Consistent
<1>2. OneTry(Front(stack)) /\ Held(prims, Front(stack), adopts, 0)
  BY TopTries
<1>3. CASE Top.i > Len(list)
  <2>1. TriesOK(prims, Front(stack), exc, adopts)
    BY <1>2 DEF TriesOK
  <2>2. Become(St(prims, Front(stack), ticks, exc, regs, calls, adopts))
    BY <1>3, EachIs
  <2> QED BY <2>1, <2>2, <1>1, Becomes
<1>4. CASE ~(Top.i > Len(list))
  <2>1. Become(St(prims, Append(s, task), ticks, exc, regs, calls, adopts))
    BY <1>4, EachIs
  <2>2. Top.i \in Nat /\ Top.p \in 1 .. Len(prims) /\ Top.how \in Kinds /\ Top.x \in Values
    <3>1. Top.i \in Nat
      BY <1>1 DEF Tasks
    <3> QED BY <3>1, TopTask
  <2>3. on \in Tasks /\ on.t = "each"
    <3>1. on \in Tasks
      BY <1>1 DEF Tasks
    <3>2. on.t = Top.t
      BY <1>1 DEF Tasks
    <3> QED BY <3>1, <3>2
  <2>4. list[Top.i] \in Cbs
    <3>1. Top.i > 0 /\ prims \in Seq(PrimRecords)
      <4>1. TaskOK(prims, Work(stack, ticks), regs, Len(stack)) /\ Work(stack, ticks)[Len(stack)] = Top
              /\ Sane(prims, Work(stack, ticks), regs, calls, adopts)
        BY TopIs
      <4> QED BY <4>1 DEF TaskOK, Sane, Typed
    <3>2. prims[Top.p] \in PrimRecords
      BY <3>1, <2>2
    <3>3. list \in Seq(Cbs)
      BY <3>2, <2>2 DEF ListOf, PrimRecords
    <3> HIDE DEF list
    <3>4. Len(list) \in Nat /\ Top.i \in 1 .. Len(list)
      BY <3>1, <3>3, <2>2, <1>4
    <3> QED BY <3>3, <3>4
  <2>5. task \in Tasks /\ task.t = "call" /\ task.how = Top.how /\ task.cb = list[Top.i] /\ task.x = Top.x
    <3> HIDE DEF list
    <3> QED BY <2>2, <2>4, CallTasks
  <2>6. OK(prims, Append(s, task), ticks, regs, calls, adopts)
    <3>1. Top.i <= Len(list)
      <4>1. Len(list) \in Nat
        <5>1. prims \in Seq(PrimRecords)
          BY <1>1 DEF OK, Sane, Typed
        <5>2. prims[Top.p] \in PrimRecords
          BY <5>1, <2>2
        <5>3. list \in Seq(Cbs)
          BY <5>2, <2>2 DEF ListOf, PrimRecords
        <5> HIDE DEF list
        <5> QED BY <5>3
      <4> HIDE DEF list
      <4> QED BY <4>1, <1>4, <2>2
    <3>2. on = [stack[Len(stack)] EXCEPT !.i = @ + 1]
      BY <1>1
    <3>3. stack[Len(stack)].t = "each"
      BY <1>1
    <3> HIDE DEF task, on, list
    <3> QED BY <1>1, <2>3, <2>5, <3>1, <3>2, <3>3, Notifying DEF list
  <2>7. s \in Seq(Tasks) /\ Len(s) = Len(stack) /\ \A m \in 1 .. Len(s) : m # Len(stack) => s[m] = stack[m]
    <3> HIDE DEF on
    <3> QED BY <1>1, <2>3
  <2>8. s[Len(stack)] = on
    BY <1>1
  <2> HIDE DEF s, task, on
  <2>9. OneTry(s) /\ Held(prims, s, adopts, 0)
    <3>1. PICK n \in Nat : OneTry(stack) /\ Held(prims, stack, adopts, n) /\ (n # 0 => ~Fails(exc) /\ Deciding(stack, n))
      BY DEF Consistent, TriesOK
    <3>2. n = 0
      BY <3>1, <1>1 DEF Deciding
    <3>3. \A m \in 1 .. Len(s) : s[m].t = "try" => s[m] = stack[m] /\ m \in 1 .. Len(stack)
      BY <2>7, <2>8, <2>3
    <3>4. OneTry(s)
      BY <3>1, <3>3 DEF OneTry
    <3>5. Held(prims, s, adopts, 0)
      BY <3>1, <3>2, <3>3 DEF Held
    <3> QED BY <3>4, <3>5
  <2>10. TriesOK(prims, Append(s, task), exc, adopts)
    <3>1. task.t # "try"
      BY <2>5
    <3> QED BY <2>7, <2>9, <3>1, TriesPush DEF TriesOK
  <2> QED BY <1>1, <2>1, <2>6, <2>10, Becomes
<1> QED BY <1>3, <1>4

\* An error leaves a task, or is passed on by a try.
LEMMA UnwindStep ==
  ASSUME Consistent, Running, Fails(exc), Become(Unwind), sync' = sync
  PROVE  Consistent'
<1> DEFINE W == Work(stack, ticks)
           s == Front(stack)
           V == Work(s, ticks)
           p == Top.p
           task == SettleTask(p, "e", exc)
<1>1. /\ Len(stack) \in DOMAIN W /\ W[Len(stack)] = Top /\ Sane(prims, W, regs, calls, adopts)
      /\ OK(prims, s, ticks, regs, calls, adopts) /\ s \in Seq(Tasks) /\ ticks \in Seq(Tasks) /\ exc \in Values
      /\ DOMAIN V \subseteq DOMAIN W /\ \A m \in DOMAIN V : V[m] = W[m]
  BY TopIs DEF Consistent, OK
<1>2. /\ OneTry(s) /\ Held(prims, s, adopts, 0)
      /\ Top.t = "try" => /\ \A m \in 1 .. Len(s) : s[m].t = "try" => s[m].p # p
                          /\ Done(prims, adopts, p)
  BY TopTries
<1>3. Pop(Here) = St(prims, s, ticks, exc, regs, calls, adopts)
  BY StateIs
<1>4. CASE Top.t # "try"
  <2>1. Become(St(prims, s, ticks, exc, regs, calls, adopts))
    BY <1>3, <1>4 DEF Unwind
  <2>2. TriesOK(prims, s, exc, adopts)
    BY <1>2 DEF TriesOK
  <2> QED BY <1>1, <2>1, <2>2, Becomes
<1>5. CASE Top.t = "try"
  <2>1. p \in 1 .. Len(prims) /\ p \in Nat
    BY <1>5, TopTask
  <2>2. Become(St(prims, Append(s, task), ticks, "", regs, calls, adopts))
    <3>1. Unwind = [Push(Pop(Here), task) EXCEPT !.exc = ""]
      BY <1>5 DEF Unwind
    <3>2. Push(Pop(Here), task) = St(prims, Append(s, task), ticks, exc, regs, calls, adopts)
      BY <1>3, StateIs
    <3>3. \A u, e : [St(prims, u, ticks, exc, regs, calls, adopts) EXCEPT !.exc = e] = St(prims, u, ticks, e, regs, calls, adopts)
      BY DEF St
    <3>4. \A e : [Push(Pop(Here), task) EXCEPT !.exc = e] = St(prims, Append(s, task), ticks, e, regs, calls, adopts)
      BY <3>2, <3>3
    <3> QED BY <3>1, <3>4, Zenon
  <2> HIDE DEF W, V
  <2>3. IsTask(W, "try", p)
    BY <1>1, <1>5 DEF IsTask
  <2>4. NotWaiting(prims, W, p) /\ NotArgued(prims, W, p)
    <3>1. adopts[p] = 0 \/ ~Pending(prims, p)
      BY <1>2, <1>5 DEF Done
    <3> QED BY <1>1, <2>1, <2>3, <3>1, TaskFacts
  <2>5. NotWaiting(prims, V, p) /\ NotArgued(prims, V, p)
    BY <1>1, <2>4, Fewer
  <2>6. ~IsTask(V, "user", p)
    <3> SUFFICES ASSUME NEW l \in DOMAIN V, V[l].t = "user", V[l].cb.next = p PROVE FALSE
      BY DEF IsTask
    <3>1. Sane(prims, V, regs, calls, adopts) /\ DOMAIN V \subseteq Int
      BY <1>1 DEF OK, V, Sane, Typed
    <3>2. l > 1 /\ l - 1 \in DOMAIN V /\ V[l - 1].t = "try" /\ V[l - 1].p = p
      BY <3>1 DEF Sane, TasksOK, TaskOK
    <3>3. l - 1 \in 1 .. Len(s) /\ V[l - 1] = s[l - 1]
      <4>1. l - 1 \in Int /\ l - 1 # 0 /\ l - 1 <= Len(s) /\ l - 1 > 0
        BY <1>1, <3>1, <3>2, WorkIs DEF V
      <4>2. l - 1 \in 1 .. Len(s)
        BY <4>1
      <4> QED BY <1>1, <4>2, WorkIs DEF V
    <3> QED BY <1>2, <1>5, <3>2, <3>3
  <2>7. task \in Tasks /\ task.t = "settle" /\ task.p = p /\ task.how = "e" /\ task.x = exc
    <3> HIDE DEF p
    <3>1. p \in Nat /\ exc \in Values
      BY <1>1, <2>1
    <3>2. \A how \in {"v", "e"} : /\ SettleTask(p, how, exc) \in Tasks /\ SettleTask(p, how, exc).t = "settle" 
                                 /\ SettleTask(p, how, exc).p = p /\ SettleTask(p, how, exc).how = how /\ SettleTask(p, how, exc).x = exc
      BY <3>1, TaskTypes
    <3> QED BY <3>2
  <2>8. adopts[p] # 0 => ~Pending(prims, p)
    BY <1>2, <1>5 DEF Done
  <2> HIDE DEF task, p, s
  <2>9. OK(prims, Append(s, task), ticks, regs, calls, adopts)
    BY <1>1, <2>1, <2>5, <2>6, <2>7, <2>8, Begun DEF V
  <2>10. TriesOK(prims, Append(s, task), "", adopts)
    <3>1. task.t # "try"
      BY <2>7
    <3>2. OneTry(Append(s, task)) /\ Held(prims, Append(s, task), adopts, 0)
      BY <1>1, <1>2, <3>1, TriesPush
    <3>3. \A X : TriesOK(prims, Append(s, task), X, adopts)
      BY <3>2 DEF TriesOK
    <3> QED BY <3>3, Zenon
  <2>11. \A X \in Values :
            (Become(St(prims, Append(s, task), ticks, X, regs, calls, adopts)) /\ TriesOK(prims, Append(s, task), X, adopts))
              => Consistent'
    BY <2>9, Becomes
  <2>12. "" \in Values
    BY DEF Values
  <2>13. Become(St(prims, Append(s, task), ticks, "", regs, calls, adopts))
    BY <2>2, Zenon DEF s, task, p
  <2> QED BY <2>10, <2>11, <2>12, <2>13, Zenon
<1> QED BY <1>4, <1>5

\* A try is left.
LEMMA TryStep ==
  ASSUME Consistent, Running, ~Fails(exc), Top.t = "try", Become(Pop(Here)), sync' = sync
  PROVE  Consistent'
<1>1. OneTry(Front(stack)) /\ Held(prims, Front(stack), adopts, 0)
  BY TopTries
<1>2. TriesOK(prims, Front(stack), exc, adopts)
  BY <1>1 DEF TriesOK
<1>3. OK(prims, Front(stack), ticks, regs, calls, adopts) /\ exc \in Values
  BY TopIs DEF Consistent
<1>4. Become(St(prims, Front(stack), ticks, exc, regs, calls, adopts))
  BY StateIs
<1> QED BY <1>2, <1>3, <1>4, Becomes

\* The first of the ticks becomes the only task of the stack.
IsWork(W, s, t) ==
  /\ \A l : l \in DOMAIN W <=> l \in Int /\ l # 0 /\ 0 - Len(t) <= l /\ l <= Len(s)
  /\ \A l \in 1 .. Len(s) : W[l] = s[l]
  /\ \A l \in 1 .. Len(t) : W[0 - l] = t[l]
  /\ W \in [DOMAIN W -> Tasks]
Ticked(e, t, s, u) ==
  /\ \A l : l \in DOMAIN Work(s, u) <=> l \in Int /\ l # 0 /\ 0 - (Len(t) - 1) <= l /\ l <= 1
  /\ Work(s, u)[1] = t[1] /\ \A l \in 1 .. Len(t) - 1 : Work(s, u)[0 - l] = t[l + 1]
  /\ \A l : l \in DOMAIN Work(e, t) <=> l \in Int /\ l # 0 /\ 0 - Len(t) <= l /\ l <= 0
  /\ \A l \in 1 .. Len(t) : Work(e, t)[0 - l] = t[l]
  /\ Work(e, t) \in [DOMAIN Work(e, t) -> Tasks] /\ Work(s, u) \in [DOMAIN Work(s, u) -> Tasks]
  /\ s \in Seq(Tasks) /\ u \in Seq(Tasks) /\ Len(s) = 1 /\ Len(t) \in Nat \ {0}

\* A tick moves the first task that waits to the stack, and the others move up.
LEMMA WorkTicked ==
  ASSUME NEW e, e = <<>>, NEW t \in Seq(Tasks), t # <<>>, NEW s, s = <<t[1]>>, NEW u, u = Tail(t)
  PROVE  Ticked(e, t, s, u)
<1>1. /\ e \in Seq(Tasks) /\ Len(e) = 0 /\ s \in Seq(Tasks) /\ Len(s) = 1 /\ s[1] = t[1] /\ Len(t) \in Nat \ {0}
  OBVIOUS
<1>2. u \in Seq(Tasks) /\ Len(u) = Len(t) - 1 /\ \A l \in 1 .. Len(t) - 1 : u[l] = t[l + 1]
  OBVIOUS
<1> DEFINE V == Work(s, u)
           W == Work(e, t)
<1>3. IsWork(V, s, u) /\ IsWork(W, e, t)
  <2>1. \A y \in Seq(Tasks), z \in Seq(Tasks) : IsWork(Work(y, z), y, z)
    BY WorkIs DEF IsWork
  <2> QED BY <1>1, <1>2, <2>1
<1> HIDE DEF V, W
<1>4. /\ \A l : l \in DOMAIN V <=> l \in Int /\ l # 0 /\ 0 - Len(u) <= l /\ l <= Len(s)
      /\ (\A l \in 1 .. Len(s) : V[l] = s[l]) /\ (\A l \in 1 .. Len(u) : V[0 - l] = u[l])
      /\ V \in [DOMAIN V -> Tasks]
  BY <1>3 DEF IsWork
<1>5. /\ \A l : l \in DOMAIN W <=> l \in Int /\ l # 0 /\ 0 - Len(t) <= l /\ l <= Len(e)
      /\ \A l \in 1 .. Len(t) : W[0 - l] = t[l]
      /\ W \in [DOMAIN W -> Tasks]
  BY <1>3 DEF IsWork
<1>6. \A l : l \in DOMAIN V <=> l \in Int /\ l # 0 /\ 0 - (Len(t) - 1) <= l /\ l <= 1
  BY <1>1, <1>2, <1>4
<1>7. V[1] = t[1]
  <2>1. 1 \in 1 .. Len(s)
    BY <1>1
  <2> QED BY <2>1, <1>1, <1>4
<1>8. \A l \in 1 .. Len(t) - 1 : V[0 - l] = t[l + 1]
  BY <1>2, <1>4
<1>9. \A l : l \in DOMAIN W <=> l \in Int /\ l # 0 /\ 0 - Len(t) <= l /\ l <= 0
  BY <1>1, <1>5
<1> QED BY <1>1, <1>2, <1>4, <1>5, <1>6, <1>7, <1>8, <1>9 DEF Ticked, V, W

\* A tick begins.
LEMMA TickStep ==
  ASSUME Consistent, Tick
  PROVE  Consistent'
<1> DEFINE W == Work(stack, ticks)
           V == Work(<<ticks[1]>>, Tail(ticks))
           f == [l \in DOMAIN V |-> IF l > 0 THEN 0 - 1 ELSE l - 1]
<1>1. /\ stack = <<>> /\ stack \in Seq(Tasks) /\ ticks \in Seq(Tasks) /\ ticks # <<>> /\ Sane(prims, W, regs, calls, adopts)
      /\ TasksOK(prims, W, regs) /\ Len(prims) > 1 /\ (~sync => Ordered(prims, W, regs, calls))
  BY DEF Consistent, OK, Tick, Running, Sane
<1>2. /\ Len(ticks) \in Nat \ {0} /\ <<ticks[1]>> \in Seq(Tasks) /\ Tail(ticks) \in Seq(Tasks) /\ Len(<<ticks[1]>>) = 1
      /\ \A l : l \in DOMAIN V <=> l \in Int /\ l # 0 /\ 0 - (Len(ticks) - 1) <= l /\ l <= 1
      /\ V[1] = ticks[1] /\ \A l \in 1 .. Len(ticks) - 1 : V[0 - l] = ticks[l + 1]
      /\ \A l : l \in DOMAIN W <=> l \in Int /\ l # 0 /\ 0 - Len(ticks) <= l /\ l <= 0
      /\ \A l \in 1 .. Len(ticks) : W[0 - l] = ticks[l]
      /\ W \in [DOMAIN W -> Tasks] /\ V \in [DOMAIN V -> Tasks]
  <2>1. Ticked(stack, ticks, <<ticks[1]>>, Tail(ticks))
    BY <1>1, WorkTicked
  <2> QED BY <2>1 DEF Ticked
<1> HIDE DEF V, W
<1>5. \A l \in DOMAIN V : f[l] \in DOMAIN W /\ V[l] = W[f[l]]
  <2> SUFFICES ASSUME NEW l \in DOMAIN V PROVE f[l] \in DOMAIN W /\ V[l] = W[f[l]]
    OBVIOUS
  <2>1. CASE l > 0
    <3>1. l = 1 /\ f[l] = 0 - 1 /\ 1 \in 1 .. Len(ticks)
      BY <2>1, <1>2
    <3>2. W[0 - 1] = ticks[1] /\ 0 - 1 \in DOMAIN W
      <4>1. \A m \in 1 .. Len(ticks) : W[0 - m] = ticks[m]
        BY <1>2
      <4>2. \A m : m \in DOMAIN W <=> m \in Int /\ m # 0 /\ 0 - Len(ticks) <= m /\ m <= 0
        BY <1>2
      <4>3. 0 - 1 \in Int /\ 0 - 1 # 0 /\ 0 - Len(ticks) <= 0 - 1 /\ 0 - 1 <= 0
        BY <3>1
      <4> QED BY <3>1, <4>1, <4>2, <4>3
    <3> QED BY <3>1, <3>2, <1>2
  <2>2. CASE ~(l > 0)
    <3>1. l \in Int /\ f[l] = l - 1 /\ 0 - l \in 1 .. Len(ticks) - 1 /\ (0 - l) + 1 \in 1 .. Len(ticks)
      BY <2>2, <1>2
    <3>2. V[0 - (0 - l)] = ticks[(0 - l) + 1] /\ W[0 - ((0 - l) + 1)] = ticks[(0 - l) + 1]
      BY <1>2, <3>1
    <3>3. 0 - (0 - l) = l /\ 0 - ((0 - l) + 1) = l - 1
      BY <3>1
    <3>4. l - 1 \in DOMAIN W
      <4>1. l - 1 \in Int /\ l - 1 # 0 /\ 0 - Len(ticks) <= l - 1 /\ l - 1 <= 0
        BY <2>2, <1>2
      <4> QED BY <4>1, <1>2
    <3> QED BY <3>1, <3>2, <3>3, <3>4
  <2> QED BY <2>1, <2>2
<1>6. \A l \in DOMAIN V : /\ l < 0 => f[l] < 0
                          /\ V[l].t # "user"
  <2> SUFFICES ASSUME NEW l \in DOMAIN V PROVE (l < 0 => f[l] < 0) /\ V[l].t # "user"
    OBVIOUS
  <2>1. f[l] \in DOMAIN W /\ V[l] = W[f[l]] /\ f[l] < 0 /\ l \in Int
    <3>1. f[l] \in DOMAIN W /\ V[l] = W[f[l]] /\ l \in Int
      BY <1>2, <1>5
    <3> QED BY <3>1, <1>2
  <2>2. W[f[l]].t \in {"each", "call"}
    BY <2>1, <1>1 DEF TasksOK, TaskOK
  <2> QED BY <2>1, <2>2
<1>7. \A l, m \in DOMAIN V : l < m => f[l] < f[m]
  BY <1>2
<1>8. \A l, m \in DOMAIN V : l > 0 /\ m > 0 => l = m /\ l = 1
  BY <1>2
<1>9. f \in [DOMAIN V -> DOMAIN W] /\ DOMAIN V \subseteq Int /\ 0 \notin DOMAIN V
  BY <1>2, <1>5
<1> HIDE DEF f
<1>10. Sane(prims, V, regs, calls, adopts) /\ (Ordered(prims, W, regs, calls) => Ordered(prims, V, regs, calls))
  BY <1>1, <1>2, <1>5, <1>6, <1>7, <1>8, <1>9, Moved
<1>11. OK(prims, <<ticks[1]>>, Tail(ticks), regs, calls, adopts)
  BY <1>1, <1>2, <1>10 DEF OK, V, W
<1>12. ticks[1].t # "try"
  <2>1. V[1] = ticks[1] /\ 1 \in DOMAIN V /\ f[1] \in DOMAIN W /\ V[1] = W[f[1]] /\ f[1] < 0
    <3>1. 1 \in DOMAIN V /\ V[1] = ticks[1]
      BY <1>2
    <3>2. f[1] \in DOMAIN W /\ V[1] = W[f[1]]
      BY <3>1, <1>5
    <3> QED BY <3>1, <3>2, <1>2
  <2> QED BY <2>1, <1>1 DEF TasksOK, TaskOK
<1>16. <<ticks[1]>>[1] = ticks[1]
  OBVIOUS
<1>13. TriesOK(prims, <<ticks[1]>>, exc, adopts)
  <2> DEFINE s == <<ticks[1]>>
  <2>1. \A l \in 1 .. Len(s) : s[l].t # "try"
    BY <1>2, <1>12, <1>16
  <2> HIDE DEF s
  <2>2. OneTry(s) /\ Held(prims, s, adopts, 0)
    BY <2>1 DEF OneTry, Held
  <2>3. TriesOK(prims, s, exc, adopts)
    BY <2>2 DEF TriesOK
  <2> QED BY <2>3 DEF s
<1>14. /\ stack' = <<ticks[1]>> /\ ticks' = Tail(ticks)
       /\ sync' = sync /\ prims' = prims /\ exc' = exc /\ regs' = regs /\ calls' = calls /\ adopts' = adopts
  BY DEF Tick
<1> HIDE DEF Tick
<1>15. OK(prims, stack, ticks, regs, calls, adopts)'
  BY <1>11, <1>14 DEF OK
<1>17. TriesOK(prims, stack, exc, adopts)'
  BY <1>13, <1>14 DEF TriesOK
<1> QED BY <1>14, <1>15, <1>17 DEF Consistent

\* What a callback does when it is called.
Tried == Append(Front(stack), TryTask(Top.cb.next))
SettledIn == IF Top.how = "ok" THEN "v" ELSE "e"

\* What calling a callback does, by the kind of its function (2818-2867).
LEMMA CallIs ==
  /\ Top.cb.h = "end" /\ Top.how = "fail" => CallStep = St(prims, Front(stack), ticks, Top.x, regs, calls, adopts)
  /\ Top.cb.h = "end" /\ Top.how # "fail" => CallStep = St(prims, Front(stack), ticks, exc, regs, calls, adopts)
  /\ Top.cb.h = "none" => CallStep =
       St(prims, Append(Tried, SettleTask(Top.cb.next, SettledIn, Top.x)), ticks, exc, regs, calls, adopts)
  /\ Top.cb.h = "user" => CallStep =
       St(prims, Append(Tried, UserTask(Top.how, Top.cb, Top.x)), ticks, exc, regs, Append(calls, <<Top.how, Top.cb.next>>), adopts)
  /\ Top.cb.h = "settle" => CallStep =
       St(prims, Append(Append(Tried, SettleTask(Top.cb.next, "v", "prim")), SettleTask(Top.cb.arg, SettledIn, Top.x)), ticks, exc, 
          regs, calls, adopts)
<1>1. Pop(Here) = St(prims, Front(stack), ticks, exc, regs, calls, adopts)
  BY StateIs
<1>2. \A u, task : Push(St(prims, u, ticks, exc, regs, calls, adopts), task) = St(prims, Append(u, task), ticks, exc, regs, calls, adopts)
  BY StateIs
<1>3. /\ \A u, e : [St(prims, u, ticks, exc, regs, calls, adopts) EXCEPT !.exc = e] = St(prims, u, ticks, e, regs, calls, adopts)
      /\ \A u, e : [St(prims, u, ticks, exc, regs, calls, adopts) EXCEPT !.calls = e] = St(prims, u, ticks, exc, regs, e, adopts)
      /\ \A u : St(prims, u, ticks, exc, regs, calls, adopts).calls = calls
  BY DEF St
<1>4. Top.cb.h = "end" /\ Top.how = "fail" => CallStep = St(prims, Front(stack), ticks, Top.x, regs, calls, adopts)
  BY <1>1, <1>3 DEF CallStep
<1>5. Top.cb.h = "end" /\ Top.how # "fail" => CallStep = St(prims, Front(stack), ticks, exc, regs, calls, adopts)
  BY <1>1 DEF CallStep
<1>6. Top.cb.h = "none" => CallStep =
        St(prims, Append(Tried, SettleTask(Top.cb.next, SettledIn, Top.x)), ticks, exc, regs, calls, adopts)
  BY <1>1, <1>2 DEF CallStep, Tried, SettledIn
<1>7. Top.cb.h = "user" => CallStep =
        St(prims, Append(Tried, UserTask(Top.how, Top.cb, Top.x)), ticks, exc, regs, Append(calls, <<Top.how, Top.cb.next>>), adopts)
  <2> DEFINE u == Append(Tried, UserTask(Top.how, Top.cb, Top.x))
             e == Append(calls, <<Top.how, Top.cb.next>>)
  <2>1. Push(Push(Pop(Here), TryTask(Top.cb.next)), UserTask(Top.how, Top.cb, Top.x)) = St(prims, u, ticks, exc, regs, calls, adopts)
    BY <1>1, <1>2 DEF Tried
  <2>2. Top.cb.h = "user" => CallStep =
          [Push(Push(Pop(Here), TryTask(Top.cb.next)), UserTask(Top.how, Top.cb, Top.x)) EXCEPT !.calls = Append(@, <<Top.how, Top.cb.next>>)]
    BY DEF CallStep
  <2> HIDE DEF u
  <2>3. Top.cb.h = "user" => CallStep = [St(prims, u, ticks, exc, regs, calls, adopts) EXCEPT !.calls = Append(@, <<Top.how, Top.cb.next>>)]
    BY <2>1, <2>2
  <2>4. [St(prims, u, ticks, exc, regs, calls, adopts) EXCEPT !.calls = Append(@, <<Top.how, Top.cb.next>>)] =
          [St(prims, u, ticks, exc, regs, calls, adopts) EXCEPT !.calls = e]
    <3>1. St(prims, u, ticks, exc, regs, calls, adopts).calls = calls
      BY <1>3
    <3> QED BY <3>1
  <2> HIDE DEF e
  <2>5. [St(prims, u, ticks, exc, regs, calls, adopts) EXCEPT !.calls = e] = St(prims, u, ticks, exc, regs, e, adopts)
    BY <1>3
  <2> QED BY <2>3, <2>4, <2>5 DEF u, e
<1>8. Top.cb.h = "settle" => CallStep =
        St(prims, Append(Append(Tried, SettleTask(Top.cb.next, "v", "prim")), SettleTask(Top.cb.arg, SettledIn, Top.x)), ticks, exc, 
           regs, calls, adopts)
  BY <1>1, <1>2 DEF CallStep, Tried, SettledIn
<1> QED BY <1>4, <1>5, <1>6, <1>7, <1>8

\* The try of a then and the tasks that run in it.
LEMMA CallStepped ==
  ASSUME Consistent, Running, ~Fails(exc), Top.t = "call", Become(CallStep), sync' = sync
  PROVE  Consistent'
<1> DEFINE W == Work(stack, ticks)
           V == Work(Front(stack), ticks)
<1>1. PICK s, n, tried, how :
        /\ s = Front(stack) /\ n = Top.cb.next /\ tried = Append(s, TryTask(n)) /\ how = (IF Top.how = "ok" THEN "v" ELSE "e")
        /\ tried = Tried /\ how = SettledIn
  BY DEF Tried, SettledIn
<1> DEFINE U == Work(tried, ticks)
<1>2. /\ Len(stack) \in DOMAIN W /\ W[Len(stack)] = Top /\ Sane(prims, W, regs, calls, adopts)
      /\ OK(prims, s, ticks, regs, calls, adopts) /\ s \in Seq(Tasks) /\ ticks \in Seq(Tasks) /\ exc \in Values
      /\ Without(V, W, Len(stack)) /\ (\A m \in DOMAIN W : m <= Len(stack)) /\ Len(stack) \in Int /\ (\A m \in DOMAIN V : m < Len(stack))
      /\ (~sync => Ordered(prims, W, regs, calls)) /\ regs \in Seq(Nat \X Kinds \X Nat)
  BY <1>1, TopIs DEF Consistent, OK, Sane, Typed
<1>3. /\ Top.x \in Values /\ Top.cb \in Cbs /\ Top.cb.next \in Nat /\ Top.cb.arg \in Nat /\ Top.how \in Kinds /\ how \in {"v", "e"}
      /\ n \in Nat
  BY <1>1, TopTask
<1>4. PICK e \in Nat : /\ OneTry(s) /\ Held(prims, s, adopts, e) /\ (e # 0 => Top.cb.arg = e)
  BY <1>1, TopTries
<1> HIDE DEF W, V
<1>5. /\ CbOK(Top.cb, Top.how)
      /\ Top.cb.next # 0 =>
           /\ Top.cb.next \in 1 .. Len(prims) /\ Top.cb.next > 2
           /\ NotDue(prims, V, Top.cb.next) /\ NotWaiting(prims, V, Top.cb.next) /\ NotArgued(prims, V, Top.cb.next)
           /\ Untouched(prims, V, adopts, Top.cb.next) /\ ~CalledBack(calls, Top.cb.next)
           /\ \E p \in 1 .. Len(prims) : Given(regs, p, Top.how, Top.cb.next) /\ Matches(Top.how, prims[p].s) /\ Top.x = prims[p].x
      /\ Top.cb.arg # 0 =>
           /\ Top.cb.arg \in 1 .. Len(prims) /\ NotWaiting(prims, V, Top.cb.arg) /\ NotArgued(prims, V, Top.cb.arg)
           /\ ~IsTask(V, "user", Top.cb.arg)
           /\ Agrees(prims, IF Top.how = "ok" THEN "v" ELSE "e", Top.x, adopts[Top.cb.arg])
      /\ ~sync => InPlace(prims, V, regs, calls, Len(stack), Top.how, Top.cb.next)
  <2> DEFINE l == Len(stack)
             nx == W[l].cb.next
             ar == W[l].cb.arg
             hw == W[l].how
  <2>1. l \in DOMAIN W /\ W[l].t = "call" /\ Without(V, W, l) /\ Sane(prims, W, regs, calls, adopts) /\ W[l] = Top
    BY <1>2
  <2> HIDE DEF l
  <2>2. CbOK(W[l].cb, hw)
    BY <2>1, CallFacts
  <2>3. nx # 0 =>
          /\ nx \in 1 .. Len(prims) /\ nx > 2 /\ NotDue(prims, V, nx) /\ NotWaiting(prims, V, nx) /\ NotArgued(prims, V, nx)
          /\ Untouched(prims, V, adopts, nx) /\ ~CalledBack(calls, nx)
          /\ \E p \in 1 .. Len(prims) : Given(regs, p, hw, nx) /\ Matches(hw, prims[p].s) /\ W[l].x = prims[p].x
    BY <2>1, CallFacts
  <2>4. ar # 0 =>
           /\ ar \in 1 .. Len(prims) /\ NotWaiting(prims, V, ar) /\ NotArgued(prims, V, ar)
           /\ ~IsTask(V, "user", ar)
           /\ Agrees(prims, IF hw = "ok" THEN "v" ELSE "e", W[l].x, adopts[ar])
    BY <2>1, CallFacts
  <2>5. ~sync => InPlace(prims, V, regs, calls, l, hw, nx)
    <3>1. (~sync => Ordered(prims, W, regs, calls)) /\ \A m \in DOMAIN W : m <= l
      BY <1>2 DEF l
    <3> QED BY <2>1, <3>1, CallFacts
  <2> QED BY <2>1, <2>2, <2>3, <2>4, <2>5 DEF l
<1>6. /\ Top.cb.h \in {"end", "none", "user", "settle"} /\ (Top.cb.next = 0 <=> Top.cb.h = "end") /\ (Top.cb.arg = 0 <=> Top.cb.h # "settle")
  BY <1>5 DEF CbOK
<1>7. TriesOK(prims, s, exc, adopts) \/ Top.cb.h = "settle"
  <2>1. Top.cb.h # "settle" => e = 0
    BY <1>4, <1>6
  <2> QED BY <1>4, <2>1 DEF TriesOK
<1>8. CASE Top.cb.h = "end"
  <2>1. CASE Top.how = "fail"
    <3>1. Become(St(prims, s, ticks, Top.x, regs, calls, adopts))
      BY <1>1, <1>8, <2>1, CallIs
    <3>2. TriesOK(prims, s, Top.x, adopts)
      <4>1. e = 0
        BY <1>4, <1>6, <1>8
      <4> QED BY <1>4, <4>1 DEF TriesOK
    <3> QED BY <1>2, <1>3, <3>1, <3>2, Becomes
  <2>2. CASE Top.how # "fail"
    <3>1. Become(St(prims, s, ticks, exc, regs, calls, adopts))
      BY <1>1, <1>8, <2>2, CallIs
    <3> QED BY <1>2, <1>7, <1>8, <3>1, Becomes
  <2> QED BY <2>1, <2>2
<1>9. ASSUME Top.cb.h # "end"
      PROVE  /\ n \in 1 .. Len(prims) /\ tried \in Seq(Tasks) /\ OK(prims, tried, ticks, regs, calls, adopts) 
             /\ OneTry(tried) /\ Held(prims, tried, adopts, e)
             /\ tried # <<>> /\ tried[Len(tried)].t = "try" /\ tried[Len(tried)].p = n
             /\ Added(U, V, Len(s) + 1) /\ U[Len(s) + 1].t = "try"
             /\ NotDue(prims, V, n) /\ NotWaiting(prims, V, n) /\ NotArgued(prims, V, n) /\ Untouched(prims, V, adopts, n)
  <2> DEFINE task == TryTask(n)
  <2>1. /\ n \in 1 .. Len(prims) /\ NotDue(prims, V, n) /\ NotWaiting(prims, V, n) /\ NotArgued(prims, V, n)
        /\ Untouched(prims, V, adopts, n)
    BY <1>1, <1>5, <1>6, <1>9
  <2>2. task \in Tasks /\ task.t = "try" /\ task.p = n
    BY <1>3, TaskTypes
  <2>3. tried = Append(s, task)
    BY <1>1
  <2> HIDE DEF task
  <2>4. /\ tried \in Seq(Tasks) /\ tried # <<>> /\ tried[Len(tried)] = task
    BY <1>2, <2>2, <2>3
  <2>5. Added(U, V, Len(s) + 1) /\ U[Len(s) + 1] = task
    BY <1>1, <1>2, <2>2, <2>3, WorkPush DEF V
  <2>6. OK(prims, tried, ticks, regs, calls, adopts)
    BY <1>1, <1>2, <2>1, <2>2, <2>3, Begun DEF V
  <2>7. OneTry(tried) /\ Held(prims, tried, adopts, e)
    <3>1. \A l \in 1 .. Len(s) : s[l].t = "try" => s[l].p # n
      <4> SUFFICES ASSUME NEW l \in 1 .. Len(s), s[l].t = "try", s[l].p = n PROVE FALSE
        OBVIOUS
      <4>1. l \in DOMAIN V /\ V[l] = s[l]
        <5>1. V = Work(s, ticks) /\ l \in Int /\ l > 0 /\ Len(ticks) \in Nat /\ Len(s) \in Nat
          BY <1>1, <1>2 DEF V
        <5>2. /\ \A m : m \in DOMAIN Work(s, ticks) <=> m \in Int /\ m # 0 /\ 0 - Len(ticks) <= m /\ m <= Len(s)
              /\ \A m \in 1 .. Len(s) : Work(s, ticks)[m] = s[m]
          BY <1>2, WorkIs
        <5> QED BY <5>1, <5>2
      <4>2. IsTask(V, "try", n)
        BY <4>1 DEF IsTask
      <4> QED BY <2>1, <4>2 DEF Untouched
    <3>2. Done(prims, adopts, n)
      BY <2>1 DEF Untouched, Done
    <3> QED BY <1>2, <1>4, <2>2, <2>3, <3>1, <3>2, NewTry
  <2> QED BY <2>1, <2>2, <2>4, <2>5, <2>6, <2>7
<1> HIDE DEF U
<1>10. ASSUME Top.cb.h # "end"
       PROVE  /\ NotWaiting(prims, U, n) /\ NotArgued(prims, U, n) /\ NoArg(prims, U, n)
              /\ ~IsTask(U, "user", n) /\ ~IsTask(U, "settle", n) /\ adopts[n] = 0 /\ Pending(prims, n)
              /\ \A m : /\ NotWaiting(prims, V, m) => NotWaiting(prims, U, m)
                        /\ NotArgued(prims, V, m) => NotArgued(prims, U, m)
                        /\ ~IsTask(V, "user", m) => ~IsTask(U, "user", m)
  <2>1. \A m : /\ NoArg(prims, V, m) => NoArg(prims, U, m)
               /\ NotWaiting(prims, V, m) => NotWaiting(prims, U, m)
               /\ NotArgued(prims, V, m) => NotArgued(prims, U, m)
               /\ \A k : k # "try" /\ IsTask(U, k, m) => IsTask(V, k, m)
    BY <1>9, <1>10, Quieter
  <2> QED BY <1>9, <1>10, <2>1 DEF Untouched
<1>11. CASE Top.cb.h = "none"
  <2> DEFINE task == SettleTask(n, how, Top.x)
  <2>1. Become(St(prims, Append(tried, task), ticks, exc, regs, calls, adopts))
    BY <1>1, <1>11, CallIs
  <2>2. task \in Tasks /\ task.t = "settle" /\ task.p = n /\ task.how = how /\ task.x = Top.x
    BY <1>3, TaskTypes
  <2> HIDE DEF task
  <2>3. OK(prims, Append(tried, task), ticks, regs, calls, adopts)
    BY <1>3, <1>9, <1>10, <1>11, <2>2, Begun DEF U
  <2>4. TriesOK(prims, Append(tried, task), exc, adopts)
    <3>1. e = 0 /\ task.t # "try"
      BY <1>4, <1>6, <1>11, <2>2
    <3>2. OneTry(Append(tried, task)) /\ Held(prims, Append(tried, task), adopts, e)
      BY <1>9, <1>11, <3>1, TriesPush
    <3> QED BY <3>1, <3>2 DEF TriesOK
  <2> QED BY <1>2, <2>1, <2>3, <2>4, Becomes
<1>12. CASE Top.cb.h = "user"
  <2> DEFINE task == UserTask(Top.how, Top.cb, Top.x)
             C == Append(calls, <<Top.how, n>>)
  <2>1. Become(St(prims, Append(tried, task), ticks, exc, regs, C, adopts))
    BY <1>1, <1>12, CallIs
  <2>2. task \in Tasks /\ task.t = "user" /\ task.cb = Top.cb
    BY <1>3, TaskTypes
  <2> HIDE DEF task
  <2>3. OK(prims, tried, ticks, regs, C, adopts) /\ CalledBack(C, n)
    <3>1. /\ n # 0 /\ NotDue(prims, V, n) /\ ~CalledBack(calls, n)
          /\ \E p \in 1 .. Len(prims) : Given(regs, p, Top.how, n) /\ Matches(Top.how, prims[p].s)
      BY <1>1, <1>5, <1>6, <1>12
    <3>2. /\ NotDue(prims, U, n)
      <4>1. NotDue(prims, V, n) => NotDue(prims, U, n)
        BY <1>9, <1>12, Quieter
      <4> QED BY <3>1, <4>1
    <3>3. ~sync => \E a \in Int : (\A l \in DOMAIN U : l < a) /\ InPlace(prims, U, regs, calls, a, Top.how, n)
      <4> SUFFICES ASSUME ~sync PROVE \E a \in Int : (\A l \in DOMAIN U : l < a) /\ InPlace(prims, U, regs, calls, a, Top.how, n)
        OBVIOUS
      <4>1. InPlace(prims, V, regs, calls, Len(stack), Top.how, n)
        BY <1>1, <1>5
      <4>2. \A l \in DOMAIN V : l < Len(stack) /\ l \in Int /\ l < Len(stack) + 1
        BY <1>2 DEF Without, Sane, Typed
      <4>3. DOMAIN U = DOMAIN V \cup {Len(stack)} /\ U[Len(stack)].t = "try" /\ \A l \in DOMAIN V : U[l] = V[l]
        <5>1. Len(s) + 1 = Len(stack)
          <6>1. stack \in Seq(Tasks) /\ stack # <<>>
            BY TopIs
          <6>2. Len(Front(stack)) = Len(stack) - 1 /\ Len(stack) \in Nat
            BY <1>2, <6>1, WorkPop
          <6> QED BY <1>1, <6>2
        <5> QED BY <1>9, <1>12, <5>1 DEF Added
      <4>4. \A l \in DOMAIN U : l < Len(stack) + 1
        BY <1>2, <4>2, <4>3
      <4>5. InPlace(prims, U, regs, calls, Len(stack) + 1, Top.how, n)
        <5>1. \A l \in DOMAIN U : \A j \in Due(prims, U, l) : l \in DOMAIN V /\ j \in Due(prims, V, l) /\ DueCb(prims, U, l, j) = DueCb(prims, V, l, j)
                 /\ U[l].how = V[l].how
          BY <4>3 DEF Due, DueCb
        <5> DEFINE b == Len(stack)
        <5>2. b \in Int /\ InPlace(prims, V, regs, calls, b, Top.how, n) /\ \A l \in DOMAIN V : l < b /\ l < b + 1
          BY <1>2, <4>1, <4>2
        <5> HIDE DEF b
        <5>3. \A l \in DOMAIN U : \A j \in Due(prims, U, l), r1, r2 \in 1 .. Len(regs) :
                (/\ n # 0 /\ regs[r1][3] # 0 /\ SamePlace(regs, r1, r2) /\ regs[r1][2] = U[l].how
                /\ regs[r1][3] = DueCb(prims, U, l, j).next /\ regs[r2][2] = Top.how /\ regs[r2][3] = n)
                => (r1 < r2 => l > b + 1) /\ (r2 < r1 => b + 1 > l)
          <6> SUFFICES ASSUME NEW l \in DOMAIN U, NEW j \in Due(prims, U, l), NEW r1 \in 1 .. Len(regs), NEW r2 \in 1 .. Len(regs),
                              n # 0, regs[r1][3] # 0, SamePlace(regs, r1, r2), regs[r1][2] = U[l].how,
                              regs[r1][3] = DueCb(prims, U, l, j).next, regs[r2][2] = Top.how, regs[r2][3] = n
                       PROVE  (r1 < r2 => l > b + 1) /\ (r2 < r1 => b + 1 > l)
            OBVIOUS
          <6>1. /\ l \in DOMAIN V /\ j \in Due(prims, V, l) /\ regs[r1][3] = DueCb(prims, V, l, j).next /\ regs[r1][2] = V[l].how
                /\ l < b /\ l < b + 1 /\ l \in Int
            BY <5>1, <4>2 DEF b
          <6>2. (r1 < r2 => l > b) /\ (r2 < r1 => b > l)
            BY <5>2, <6>1 DEF InPlace
          <6> QED BY <5>2, <6>1, <6>2
        <5>4. InPlace(prims, U, regs, calls, b + 1, Top.how, n)
          BY <5>2, <5>3 DEF InPlace
        <5> QED BY <5>4 DEF b
      <4> QED BY <1>2, <4>4, <4>5
    <3>4. Sane(prims, U, regs, calls, adopts) /\ tried \in Seq(Tasks) /\ Len(prims) > 1 /\ (~sync => Ordered(prims, U, regs, calls))
      BY <1>9, <1>12 DEF OK, U
    <3>5. /\ Sane(prims, U, regs, C, adopts) /\ CalledBack(C, n)
          /\ Ordered(prims, U, regs, calls) /\ (\E a \in Int : (\A l \in DOMAIN U : l < a) /\ InPlace(prims, U, regs, calls, a, Top.how, n))
               => Ordered(prims, U, regs, C)
      BY <1>3, <3>1, <3>2, <3>4, Logged
    <3> QED BY <1>2, <3>3, <3>4, <3>5 DEF OK, U
  <2>4. OK(prims, Append(tried, task), ticks, regs, C, adopts)
    <3> HIDE DEF C
    <3>1. task.cb.next = n
      BY <1>1, <2>2
    <3> QED BY <1>9, <1>10, <1>12, <2>2, <2>3, <3>1, Begun DEF U
  <2>5. TriesOK(prims, Append(tried, task), exc, adopts)
    <3>1. e = 0 /\ task.t # "try"
      BY <1>4, <1>6, <1>12, <2>2
    <3>2. OneTry(Append(tried, task)) /\ Held(prims, Append(tried, task), adopts, e)
      BY <1>9, <1>12, <3>1, TriesPush
    <3> QED BY <3>1, <3>2 DEF TriesOK
  <2> HIDE DEF C
  <2> QED BY <1>2, <2>1, <2>4, <2>5, Becomes
<1>13. CASE Top.cb.h = "settle"
  <2> DEFINE a == Top.cb.arg
             t1 == SettleTask(n, "v", "prim")
             t2 == SettleTask(a, how, Top.x)
             u == Append(tried, t1)
  <2>1. Become(St(prims, Append(u, t2), ticks, exc, regs, calls, adopts))
    BY <1>1, <1>13, CallIs
  <2>2. t2 \in Tasks /\ t2.t = "settle" /\ t2.p = a /\ t2.how = how /\ t2.x = Top.x
    BY <1>3, TaskTypes
  <2>3. t1 \in Tasks /\ t1.t = "settle" /\ t1.p = n /\ t1.how = "v"
    <3>1. "prim" \in Values
      BY DEF Values
    <3> QED BY <1>3, <3>1, TaskTypes
  <2>4. /\ a \in 1 .. Len(prims) /\ NotWaiting(prims, V, a) /\ NotArgued(prims, V, a) /\ ~IsTask(V, "user", a)
        /\ Agrees(prims, how, Top.x, adopts[a])
    BY <1>1, <1>5, <1>6, <1>13
  <2> HIDE DEF a, t1, t2
  <2>5. u \in Seq(Tasks) /\ OK(prims, u, ticks, regs, calls, adopts)
    <3>1. OK(prims, u, ticks, regs, calls, adopts)
      BY <1>9, <1>10, <1>13, <2>3, Begun DEF U
    <3> QED BY <1>9, <1>13, <2>3, <3>1
  <2>6. NotWaiting(prims, Work(u, ticks), a) /\ NotArgued(prims, Work(u, ticks), a) /\ ~IsTask(Work(u, ticks), "user", a)
    <3>1. Added(Work(u, ticks), U, Len(tried) + 1) /\ Work(u, ticks)[Len(tried) + 1] = t1
      BY <1>2, <1>9, <1>13, <2>3, WorkPush DEF U
    <3>2. NotWaiting(prims, U, a) /\ NotArgued(prims, U, a) /\ ~IsTask(U, "user", a)
      BY <1>10, <1>13, <2>4
    <3>3. /\ NotWaiting(prims, U, a) => NotWaiting(prims, Work(u, ticks), a)
          /\ NotArgued(prims, U, a) => NotArgued(prims, Work(u, ticks), a)
          /\ \A k : k # "settle" /\ IsTask(Work(u, ticks), k, a) => IsTask(U, k, a)
      <4> HIDE DEF u
      <4> QED BY <2>3, <3>1, Quieter
    <3> QED BY <3>2, <3>3
  <2> HIDE DEF u
  <2>7. OK(prims, Append(u, t2), ticks, regs, calls, adopts)
    BY <1>3, <2>2, <2>4, <2>5, <2>6, Begun
  <2>8. TriesOK(prims, Append(u, t2), exc, adopts)
    <3>1. OneTry(u) /\ Held(prims, u, adopts, e)
      BY <1>9, <1>13, <2>3, TriesPush DEF u
    <3>2. OneTry(Append(u, t2)) /\ Held(prims, Append(u, t2), adopts, e)
      BY <2>2, <2>5, <3>1, TriesPush
    <3>3. Append(u, t2) # <<>> /\ Append(u, t2)[Len(Append(u, t2))] = t2
      BY <2>2, <2>5
    <3>4. e # 0 => Deciding(Append(u, t2), e)
      BY <1>4, <2>2, <3>3 DEF Deciding, a
    <3> QED BY <3>2, <3>4 DEF TriesOK
  <2> QED BY <1>2, <2>1, <2>7, <2>8, Becomes
<1> QED BY <1>6, <1>8, <1>11, <1>12, <1>13

\* While a function of the program runs, its promise is open, and waits in the try below it.
LEMMA UserTop ==
  ASSUME Consistent, Running, Top.t = "user"
  PROVE  LET n == Top.cb.next
             s == Front(stack)
             V == Work(Front(stack), ticks) IN
         /\ n \in 1 .. Len(prims) /\ n > 2 /\ Pending(prims, n) /\ adopts[n] = 0
         /\ NotWaiting(prims, V, n) /\ NotArgued(prims, V, n) /\ NoArg(prims, V, n)
         /\ ~IsTask(V, "user", n) /\ ~IsTask(V, "settle", n) /\ CalledBack(calls, n)
         /\ s # <<>> /\ s[Len(s)].t = "try" /\ s[Len(s)].p = n /\ s \in Seq(Tasks)
         /\ OneTry(s) /\ Held(prims, s, adopts, 0) /\ OK(prims, s, ticks, regs, calls, adopts)
<1> DEFINE W == Work(stack, ticks)
           V == Work(Front(stack), ticks)
           l == Len(stack)
           n == W[l].cb.next
           s == Front(stack)
<1>1. /\ l \in DOMAIN W /\ W[l] = Top /\ Sane(prims, W, regs, calls, adopts) /\ Without(V, W, l) /\ stack \in Seq(Tasks) /\ stack # <<>>
      /\ s \in Seq(Tasks) /\ OK(prims, s, ticks, regs, calls, adopts) /\ W[l].t = "user" /\ ticks \in Seq(Tasks) /\ l \in Nat
  BY TopIs DEF Consistent, OK
<1>2. OneTry(s) /\ Held(prims, s, adopts, 0)
  BY TopTries
<1> HIDE DEF W, V, l
<1>3. /\ n \in 1 .. Len(prims) /\ n > 2 /\ Pending(prims, n) /\ adopts[n] = 0
      /\ NotWaiting(prims, V, n) /\ NotArgued(prims, V, n) /\ NoArg(prims, V, n)
      /\ ~IsTask(V, "user", n) /\ ~IsTask(V, "settle", n) /\ CalledBack(calls, n)
  BY <1>1, UserFacts
<1>4. l > 1 /\ l - 1 \in DOMAIN W /\ W[l - 1].t = "try" /\ W[l - 1].p = n
  BY <1>1, UserFacts
<1>5. Len(s) = l - 1 /\ \A m \in 1 .. l - 1 : s[m] = stack[m]
  BY <1>1, WorkPop DEF l
<1>6. W[l - 1] = s[l - 1]
  <2>1. l - 1 \in 1 .. Len(stack) /\ l - 1 \in 1 .. l - 1
    BY <1>1, <1>4 DEF l
  <2>2. W[l - 1] = stack[l - 1]
    BY <1>1, <2>1, WorkIs DEF W
  <2> QED BY <1>5, <2>1, <2>2
<1>7. s # <<>> /\ s[Len(s)].t = "try" /\ s[Len(s)].p = n
  <2>1. Len(<<>>) = 0
    OBVIOUS
  <2> QED BY <1>4, <1>5, <1>6, <1>1, <2>1
<1>8. n = Top.cb.next
  BY <1>1
<1> HIDE DEF n, s
<1> QED BY <1>1, <1>2, <1>3, <1>7, <1>8 DEF V, s

\* Where the program itself acts, no try waits for a decision.
LEMMA OwnTries ==
  ASSUME Consistent, Own
  PROVE  /\ OneTry(stack) /\ Held(prims, stack, adopts, 0)
         /\ OK(prims, stack, ticks, regs, calls, adopts) /\ exc \in Values /\ stack \in Seq(Tasks)
<1>1. PICK n \in Nat : OneTry(stack) /\ Held(prims, stack, adopts, n) /\ (n # 0 => ~Fails(exc) /\ Deciding(stack, n))
  BY DEF Consistent, TriesOK
<1>2. ~Running \/ Top.t = "user"
  BY DEF Own, InUser
<1>3. n = 0
  <2>1. CASE ~Running
    BY <1>1, <2>1 DEF Deciding, Running
  <2>2. CASE Running
    <3>1. Top = stack[Len(stack)] /\ Top.t = "user"
      BY <1>2, <2>2, TopIs
    <3> QED BY <1>1, <3>1 DEF Deciding
  <2> QED BY <2>1, <2>2
<1>4. /\ OK(prims, stack, ticks, regs, calls, adopts) /\ exc \in Values /\ stack \in Seq(Tasks)
  BY DEF Consistent, OK
<1> QED BY <1>1, <1>3, <1>4

\* A function returns a value, or throws.
LEMMA ReturnStep ==
  ASSUME Consistent, ReturnValue
  PROVE  Consistent'
<1> DEFINE n == Top.cb.next
           s == Front(stack)
           V == Work(Front(stack), ticks)
           task == SettleTask(n, "v", "value")
<1>1. /\ Running /\ Top.t = "user" /\ Become(Push(Pop(Here), task)) /\ sync' = sync
  BY DEF ReturnValue, Returned, InUser
<1>2. /\ n \in 1 .. Len(prims) /\ n \in Nat /\ adopts[n] = 0 /\ NotWaiting(prims, V, n) /\ NotArgued(prims, V, n) /\ ~IsTask(V, "user", n)
      /\ s \in Seq(Tasks) /\ OneTry(s) /\ Held(prims, s, adopts, 0) /\ OK(prims, s, ticks, regs, calls, adopts)
  BY <1>1, UserTop
<1>3. task \in Tasks /\ task.t = "settle" /\ task.p = n /\ task.how = "v"
  <2>1. "value" \in Values
    BY DEF Values
  <2> QED BY <1>2, <2>1, TaskTypes
<1>4. Become(St(prims, Append(s, task), ticks, exc, regs, calls, adopts))
  BY <1>1, StateIs
<1> HIDE DEF task, n
<1>5. OK(prims, Append(s, task), ticks, regs, calls, adopts)
  BY <1>2, <1>3, Begun
<1>6. TriesOK(prims, Append(s, task), exc, adopts)
  <2>1. task.t # "try"
    BY <1>3
  <2>2. OneTry(Append(s, task)) /\ Held(prims, Append(s, task), adopts, 0)
    BY <1>2, <2>1, TriesPush
  <2> QED BY <2>2 DEF TriesOK
<1>7. exc \in Values
  BY DEF Consistent
<1> QED BY <1>1, <1>4, <1>5, <1>6, <1>7, Becomes

\* A function that throws keeps the invariant.
LEMMA ThrowStep ==
  ASSUME Consistent, ThrowError
  PROVE  Consistent'
<1> DEFINE s == Front(stack)
<1>1. /\ Running /\ Top.t = "user" /\ Become([Pop(Here) EXCEPT !.exc = "err"]) /\ sync' = sync
  BY DEF ThrowError, Returned, InUser
<1>2. /\ OneTry(s) /\ Held(prims, s, adopts, 0) /\ OK(prims, s, ticks, regs, calls, adopts)
  BY <1>1, UserTop
<1>3. Become(St(prims, s, ticks, "err", regs, calls, adopts))
  <2>1. Pop(Here) = St(prims, s, ticks, exc, regs, calls, adopts)
    BY StateIs
  <2>2. [St(prims, s, ticks, exc, regs, calls, adopts) EXCEPT !.exc = "err"] = St(prims, s, ticks, "err", regs, calls, adopts)
    BY DEF St
  <2> QED BY <1>1, <2>1, <2>2
<1>4. TriesOK(prims, s, "err", adopts) /\ "err" \in Values
  BY <1>2 DEF TriesOK, Values
<1> QED BY <1>1, <1>2, <1>3, <1>4, Becomes

-----------------------------------------------------------------------------
(* What is to come.  The promises in E are excepted: an action does their  *)
(* part last.                                                              *)
IsDue(P, W, n) == \E l \in DOMAIN W : \E j \in Due(P, W, l) : DueCb(P, W, l, j).next = n
IsArg(P, W, n) == \E l \in DOMAIN W : \E j \in Due(P, W, l) : DueCb(P, W, l, j).arg = n
\* Promise n is settled, or will be, or waits for the promise it adopted.
Comes(P, W, A, n) == ~Pending(P, n) \/ A[n] # 0 \/ IsTask(W, "settle", n) \/ IsTask(W, "user", n) \/ IsDue(P, W, n)
Hangs(P, q, n) == \A k \in Kinds : \E j \in 1 .. Len(ListOf(P, q, k)) : ListOf(P, q, k)[j].arg = n
Adopting(P, W, A, n) ==
  \/ Pending(P, A[n]) /\ Hangs(P, A[n], n)
  \/ ~Pending(P, A[n]) /\ (~Pending(P, n) \/ IsTask(W, "settle", n) \/ IsArg(P, W, n))
\* An error that no function took is passed on.
Passed(P, p, how, x) == (how = "e" /\ x = P[p].x) \/ x = "prim"
PassesTo(P, W, p, n) ==
  /\ ~Pending(P, n) => Passed(P, p, P[n].s, P[n].x)
  /\ \A l \in DOMAIN W : W[l].t = "settle" /\ W[l].p = n => Passed(P, p, W[l].how, W[l].x)
PassesOn(P, W, R, C) ==
  \A r \in 1 .. Len(R) : R[r][3] # 0 /\ R[r][2] = "fail" /\ P[R[r][1]].s = "e" /\ ~CalledBack(C, R[r][3]) =>
    PassesTo(P, W, R[r][1], R[r][3])
\* What a then made is settled by one task, and once.
SettleOnce(P, W) == \A l \in DOMAIN W : W[l].t = "settle" /\ W[l].p > 2 =>
  Pending(P, W[l].p) /\ \A m \in DOMAIN W : W[m].t = "settle" /\ W[m].p = W[l].p => m = l
EndGiven(W, R) == \A l \in DOMAIN W : W[l].t = "call" /\ W[l].cb.next = 0 => \E r \in 1 .. Len(R) : R[r][3] = 0
Heard(P, W, R, C, A, E) ==
  /\ \A r \in 1 .. Len(R) : R[r][3] # 0 /\ R[r][3] \notin E /\ Matches(R[r][2], P[R[r][1]].s) => Comes(P, W, A, R[r][3])
  /\ \A n \in 1 .. Len(P) : A[n] # 0 /\ n \notin E => Adopting(P, W, A, n)
  /\ PassesOn(P, W, R, C) /\ SettleOnce(P, W) /\ EndGiven(W, R)

\* Less is to be done.
LEMMA HeardLess ==
  ASSUME NEW P, NEW V, NEW W, NEW R, NEW C, NEW A, NEW E, NEW F, NEW l, Heard(P, W, R, C, A, E), Without(V, W, l), E \subseteq F,
         l \in DOMAIN W => /\ W[l].t = "settle" => W[l].p \in F
                           /\ W[l].t = "user" => W[l].cb.next \in F
                           /\ \A j \in Due(P, W, l) : DueCb(P, W, l, j).next \in F /\ DueCb(P, W, l, j).arg \in F
  PROVE  Heard(P, V, R, C, A, F)
<1>1. DOMAIN V \subseteq DOMAIN W /\ (\A m \in DOMAIN V : V[m] = W[m]) /\ \A m \in DOMAIN W : m \in DOMAIN V \/ m = l
  BY DEF Without
<1>2. \A m \in DOMAIN V : Due(P, V, m) = Due(P, W, m) /\ \A j : DueCb(P, V, m, j) = DueCb(P, W, m, j)
  BY <1>1, SameTask
<1>3. ASSUME NEW n, n \notin F
      PROVE  /\ IsDue(P, W, n) => IsDue(P, V, n)
             /\ IsArg(P, W, n) => IsArg(P, V, n)
             /\ IsTask(W, "settle", n) => IsTask(V, "settle", n)
             /\ IsTask(W, "user", n) => IsTask(V, "user", n)
  <2>1. IsDue(P, W, n) => IsDue(P, V, n)
    <3> SUFFICES ASSUME NEW m \in DOMAIN W, NEW j \in Due(P, W, m), DueCb(P, W, m, j).next = n PROVE IsDue(P, V, n)
      BY DEF IsDue
    <3> QED BY <1>1, <1>2, <1>3 DEF IsDue
  <2>2. IsArg(P, W, n) => IsArg(P, V, n)
    <3> SUFFICES ASSUME NEW m \in DOMAIN W, NEW j \in Due(P, W, m), DueCb(P, W, m, j).arg = n PROVE IsArg(P, V, n)
      BY DEF IsArg
    <3> QED BY <1>1, <1>2, <1>3 DEF IsArg
  <2>3. IsTask(W, "settle", n) => IsTask(V, "settle", n)
    BY <1>1, <1>3 DEF IsTask
  <2>4. IsTask(W, "user", n) => IsTask(V, "user", n)
    BY <1>1, <1>3 DEF IsTask
  <2> QED BY <2>1, <2>2, <2>3, <2>4
<1>4. /\ \A r \in 1 .. Len(R) : R[r][3] # 0 /\ R[r][3] \notin E /\ Matches(R[r][2], P[R[r][1]].s) => Comes(P, W, A, R[r][3])
      /\ \A n \in 1 .. Len(P) : A[n] # 0 /\ n \notin E => Adopting(P, W, A, n)
      /\ PassesOn(P, W, R, C) /\ SettleOnce(P, W) /\ EndGiven(W, R)
  BY DEF Heard
<1>5. \A r \in 1 .. Len(R) : R[r][3] # 0 /\ R[r][3] \notin F /\ Matches(R[r][2], P[R[r][1]].s) => Comes(P, V, A, R[r][3])
  BY <1>3, <1>4 DEF Comes
<1>6. \A n \in 1 .. Len(P) : A[n] # 0 /\ n \notin F => Adopting(P, V, A, n)
  BY <1>3, <1>4 DEF Adopting
<1>7. PassesOn(P, V, R, C)
  <2>1. \A p, n : PassesTo(P, W, p, n) => PassesTo(P, V, p, n)
    BY <1>1 DEF PassesTo
  <2> QED BY <1>4, <2>1 DEF PassesOn
<1>8. SettleOnce(P, V) /\ EndGiven(V, R)
  BY <1>1, <1>4 DEF SettleOnce, EndGiven
<1> QED BY <1>5, <1>6, <1>7, <1>8 DEF Heard

\* Some promises have come.
LEMMA HeardMet ==
  ASSUME NEW P, NEW W, NEW R, NEW C, NEW A, NEW E, NEW F, Heard(P, W, R, C, A, F),
         \A n \in F : n \in E \/ n = 0 \/ (Comes(P, W, A, n) /\ (A[n] # 0 => Adopting(P, W, A, n)))
  PROVE  Heard(P, W, R, C, A, E)
<1>1. /\ \A r \in 1 .. Len(R) : R[r][3] # 0 /\ R[r][3] \notin F /\ Matches(R[r][2], P[R[r][1]].s) => Comes(P, W, A, R[r][3])
      /\ \A n \in 1 .. Len(P) : A[n] # 0 /\ n \notin F => Adopting(P, W, A, n)
      /\ PassesOn(P, W, R, C) /\ SettleOnce(P, W) /\ EndGiven(W, R)
  BY DEF Heard
<1>2. \A r \in 1 .. Len(R) : R[r][3] # 0 /\ R[r][3] \notin E /\ Matches(R[r][2], P[R[r][1]].s) => Comes(P, W, A, R[r][3])
  BY <1>1
<1>3. \A n \in 1 .. Len(P) : A[n] # 0 /\ n \notin E => Adopting(P, W, A, n)
  BY <1>1
<1> QED BY <1>1, <1>2, <1>3 DEF Heard

\* Promises and tasks are added, and callbacks to lists.
Extends(Q, V, P, W) ==
  /\ Len(P) <= Len(Q) /\ \A q \in 1 .. Len(P) : q \in 1 .. Len(Q) /\ Q[q].s = P[q].s /\ Q[q].x = P[q].x
  /\ \A q \in 1 .. Len(P), k \in Kinds : \A j \in 1 .. Len(ListOf(P, q, k)) :
       j \in 1 .. Len(ListOf(Q, q, k)) /\ ListOf(Q, q, k)[j] = ListOf(P, q, k)[j]
  /\ \A l \in DOMAIN W : l \in DOMAIN V /\ V[l] = W[l]

\* What is still to come for a promise is to come after tasks and callbacks were added.
LEMMA ExtendsKeeps ==
  ASSUME NEW P, NEW Q, NEW V, NEW W, NEW R, NEW C, NEW A, Sane(P, W, R, C, A), Extends(Q, V, P, W)
  PROVE  /\ \A n : /\ IsDue(P, W, n) => IsDue(Q, V, n)
                   /\ IsArg(P, W, n) => IsArg(Q, V, n)
                   /\ \A t : IsTask(W, t, n) => IsTask(V, t, n)
         /\ \A n \in 1 .. Len(P) : Pending(Q, n) <=> Pending(P, n)
         /\ \A q \in 1 .. Len(P) : \A n : Hangs(P, q, n) => Hangs(Q, q, n)
<1>1. /\ \A q \in 1 .. Len(P) : q \in 1 .. Len(Q) /\ Q[q].s = P[q].s /\ Q[q].x = P[q].x
      /\ \A q \in 1 .. Len(P), k \in Kinds : \A j \in 1 .. Len(ListOf(P, q, k)) :
           j \in 1 .. Len(ListOf(Q, q, k)) /\ ListOf(Q, q, k)[j] = ListOf(P, q, k)[j]
      /\ \A l \in DOMAIN W : l \in DOMAIN V /\ V[l] = W[l]
  BY DEF Extends
<1>2. ASSUME NEW l \in DOMAIN W, NEW j \in Due(P, W, l)
      PROVE  l \in DOMAIN V /\ j \in Due(Q, V, l) /\ DueCb(Q, V, l, j) = DueCb(P, W, l, j)
  <2>1. l \in DOMAIN V /\ V[l] = W[l] /\ W[l].how \in Kinds
    BY <1>1, DueIs
  <2>2. CASE W[l].t = "call"
    BY <2>1, <2>2, DueIs DEF Due, DueCb
  <2>3. CASE W[l].t # "call"
    <3>1. /\ W[l].t = "each" /\ W[l].p \in 1 .. Len(P) /\ j \in 1 .. Len(ListOf(P, W[l].p, W[l].how)) /\ j >= W[l].i
          /\ DueCb(P, W, l, j) = ListOf(P, W[l].p, W[l].how)[j]
      BY <2>3, DueIs
    <3>2. W[l].i \in Nat
      <4>1. W[l] \in Tasks
        BY DEF Sane, Typed
      <4> QED BY <4>1 DEF Tasks
    <3>3. j \in 1 .. Len(ListOf(Q, W[l].p, W[l].how)) /\ ListOf(Q, W[l].p, W[l].how)[j] = ListOf(P, W[l].p, W[l].how)[j]
      BY <1>1, <2>1, <3>1
    <3>4. j \in W[l].i .. Len(ListOf(Q, W[l].p, W[l].how))
      BY <3>1, <3>2, <3>3
    <3> QED BY <2>1, <3>1, <3>3, <3>4 DEF Due, DueCb
  <2> QED BY <2>2, <2>3
<1>3. ASSUME NEW n PROVE IsDue(P, W, n) => IsDue(Q, V, n)
  BY <1>2 DEF IsDue
<1>4. ASSUME NEW n PROVE IsArg(P, W, n) => IsArg(Q, V, n)
  BY <1>2 DEF IsArg
<1>5. ASSUME NEW n, NEW t PROVE IsTask(W, t, n) => IsTask(V, t, n)
  BY <1>1 DEF IsTask
<1>6. \A n \in 1 .. Len(P) : Pending(Q, n) <=> Pending(P, n)
  BY <1>1 DEF Pending
<1>7. ASSUME NEW q \in 1 .. Len(P), NEW n, Hangs(P, q, n) PROVE Hangs(Q, q, n)
  <2> SUFFICES ASSUME NEW k \in Kinds PROVE \E j \in 1 .. Len(ListOf(Q, q, k)) : ListOf(Q, q, k)[j].arg = n
    BY DEF Hangs
  <2>1. PICK j \in 1 .. Len(ListOf(P, q, k)) : ListOf(P, q, k)[j].arg = n
    BY <1>7 DEF Hangs
  <2> QED BY <1>1, <2>1
<1> QED BY <1>3, <1>4, <1>5, <1>6, <1>7

NewRegs(Q, V, R, S, D, B) ==
  /\ \A r \in 1 .. Len(R) : r \in 1 .. Len(S) /\ S[r] = R[r]
  /\ \A r \in 1 .. Len(S) : r \notin 1 .. Len(R) /\ S[r][3] # 0 =>
       /\ Matches(S[r][2], Q[S[r][1]].s) => Comes(Q, V, B, S[r][3])
       /\ S[r][2] = "fail" /\ Q[S[r][1]].s = "e" => Pending(Q, S[r][3]) /\ ~IsTask(V, "settle", S[r][3])
NewTasks(Q, V, W, S, D) ==
  \A l \in DOMAIN V : l \notin DOMAIN W =>
    /\ V[l].t = "settle" =>
         /\ V[l].p > 2 => Pending(Q, V[l].p) /\ \A m \in DOMAIN V : V[m].t = "settle" /\ V[m].p = V[l].p => m = l
         /\ \A r \in 1 .. Len(S) :
              S[r][3] = V[l].p /\ S[r][2] = "fail" /\ Q[S[r][1]].s = "e" /\ ~CalledBack(D, V[l].p) => Passed(Q, S[r][1], V[l].how, V[l].x)
    /\ V[l].t = "call" /\ V[l].cb.next = 0 => \E r \in 1 .. Len(S) : S[r][3] = 0
Met(Q, V, B, E, F) == \A n \in F : n \in E \/ n = 0 \/ (Comes(Q, V, B, n) /\ (B[n] # 0 => Adopting(Q, V, B, n)))

\* More is to be done.
LEMMA HeardMore ==
  ASSUME NEW P, NEW Q, NEW V, NEW W, NEW R, NEW S, NEW C, NEW D, NEW A, NEW B, NEW E, NEW F,
         Sane(P, W, R, C, A), Heard(P, W, R, C, A, F), Extends(Q, V, P, W), NewRegs(Q, V, R, S, D, B), NewTasks(Q, V, W, S, D),
         \A n : CalledBack(C, n) => CalledBack(D, n),
         \A n \in 1 .. Len(P) : B[n] = A[n] \/ n \in F, \A n \in 1 .. Len(Q) : n \in 1 .. Len(P) \/ B[n] = 0, Met(Q, V, B, E, F)
  PROVE  Heard(Q, V, S, D, B, E)
<1>1. /\ \A r \in 1 .. Len(R) : R[r][3] # 0 /\ R[r][3] \notin F /\ Matches(R[r][2], P[R[r][1]].s) => Comes(P, W, A, R[r][3])
      /\ \A n \in 1 .. Len(P) : A[n] # 0 /\ n \notin F => Adopting(P, W, A, n)
      /\ PassesOn(P, W, R, C) /\ SettleOnce(P, W) /\ EndGiven(W, R)
  BY DEF Heard
<1>2. /\ \A n : /\ IsDue(P, W, n) => IsDue(Q, V, n)
                /\ IsArg(P, W, n) => IsArg(Q, V, n)
                /\ \A t : IsTask(W, t, n) => IsTask(V, t, n)
      /\ \A n \in 1 .. Len(P) : Pending(Q, n) <=> Pending(P, n)
      /\ \A q \in 1 .. Len(P) : \A n : Hangs(P, q, n) => Hangs(Q, q, n)
  BY ExtendsKeeps
<1>3. /\ \A q \in 1 .. Len(P) : q \in 1 .. Len(Q) /\ Q[q].s = P[q].s /\ Q[q].x = P[q].x
      /\ \A l \in DOMAIN W : l \in DOMAIN V /\ V[l] = W[l]
  BY DEF Extends
<1>4. /\ \A r \in 1 .. Len(R) : R[r][1] \in 1 .. Len(P) /\ (R[r][3] # 0 => R[r][3] \in 1 .. Len(P))
      /\ \A n \in 1 .. Len(P) : A[n] # 0 => A[n] \in 1 .. Len(P)
      /\ \A l \in DOMAIN W : W[l].t = "settle" => W[l].p \in 1 .. Len(P)
  BY DEF Sane, RegsOK, AdoptOK, TasksOK, TaskOK
<1>5. \A r \in 1 .. Len(R) : r \in 1 .. Len(S) /\ S[r] = R[r]
  BY DEF NewRegs
<1>6. ASSUME NEW r \in 1 .. Len(S), S[r][3] # 0, S[r][3] \notin E, Matches(S[r][2], Q[S[r][1]].s)
      PROVE  Comes(Q, V, B, S[r][3])
  <2>1. CASE r \notin 1 .. Len(R)
    BY <1>6, <2>1 DEF NewRegs
  <2>2. CASE r \in 1 .. Len(R)
    <3>1. S[r] = R[r] /\ R[r][3] \in 1 .. Len(P) /\ R[r][3] # 0 /\ Matches(R[r][2], P[R[r][1]].s)
      BY <1>3, <1>4, <1>5, <1>6, <2>2
    <3>2. CASE R[r][3] \in F
      BY <1>6, <3>1, <3>2 DEF Met
    <3>3. CASE R[r][3] \notin F
      <4>1. Comes(P, W, A, R[r][3]) /\ B[R[r][3]] = A[R[r][3]]
        BY <1>1, <2>2, <3>1, <3>3
      <4> QED BY <1>2, <3>1, <4>1 DEF Comes
    <3> QED BY <3>2, <3>3
  <2> QED BY <2>1, <2>2
<1>7. ASSUME NEW n \in 1 .. Len(Q), B[n] # 0, n \notin E PROVE Adopting(Q, V, B, n)
  <2>1. n \in 1 .. Len(P)
    BY <1>7
  <2>2. CASE n \in F
    BY <1>7, <2>2 DEF Met
  <2>3. CASE n \notin F
    <3>1. B[n] = A[n] /\ Adopting(P, W, A, n) /\ A[n] \in 1 .. Len(P)
      BY <1>1, <1>4, <1>7, <2>1, <2>3
    <3> QED BY <1>2, <2>1, <3>1 DEF Adopting
  <2> QED BY <2>2, <2>3
<1>8. PassesOn(Q, V, S, D)
  <2> SUFFICES ASSUME NEW r \in 1 .. Len(S), S[r][3] # 0, S[r][2] = "fail", Q[S[r][1]].s = "e", ~CalledBack(D, S[r][3])
               PROVE  PassesTo(Q, V, S[r][1], S[r][3])
    BY DEF PassesOn
  <2>1. CASE r \notin 1 .. Len(R)
    <3>1. Pending(Q, S[r][3]) /\ ~IsTask(V, "settle", S[r][3])
      BY <2>1 DEF NewRegs
    <3> QED BY <3>1 DEF PassesTo, IsTask
  <2>2. CASE r \in 1 .. Len(R)
    <3>1. S[r] = R[r] /\ R[r][1] \in 1 .. Len(P) /\ R[r][3] \in 1 .. Len(P) /\ P[R[r][1]].s = "e" /\ ~CalledBack(C, R[r][3])
      BY <1>3, <1>4, <1>5, <2>2
    <3>2. PassesTo(P, W, R[r][1], R[r][3])
      BY <1>1, <2>2, <3>1 DEF PassesOn
    <3>3. ~Pending(Q, R[r][3]) => Passed(Q, R[r][1], Q[R[r][3]].s, Q[R[r][3]].x)
      BY <1>2, <1>3, <3>1, <3>2 DEF PassesTo, Passed
    <3>4. ASSUME NEW l \in DOMAIN V, V[l].t = "settle", V[l].p = R[r][3] PROVE Passed(Q, R[r][1], V[l].how, V[l].x)
      <4>1. CASE l \in DOMAIN W
        BY <1>3, <3>1, <3>2, <3>4, <4>1 DEF PassesTo, Passed
      <4>2. CASE l \notin DOMAIN W
        BY <3>1, <3>4, <4>2 DEF NewTasks
      <4> QED BY <4>1, <4>2
    <3> QED BY <3>1, <3>3, <3>4 DEF PassesTo
  <2> QED BY <2>1, <2>2
<1>9. SettleOnce(Q, V)
  <2> SUFFICES ASSUME NEW l \in DOMAIN V, V[l].t = "settle", V[l].p > 2
               PROVE  Pending(Q, V[l].p) /\ \A m \in DOMAIN V : V[m].t = "settle" /\ V[m].p = V[l].p => m = l
    BY DEF SettleOnce
  <2>1. CASE l \notin DOMAIN W
    BY <2>1 DEF NewTasks
  <2>2. CASE l \in DOMAIN W
    <3>1. /\ V[l] = W[l] /\ W[l].p \in 1 .. Len(P) /\ Pending(P, W[l].p)
          /\ \A m \in DOMAIN W : W[m].t = "settle" /\ W[m].p = W[l].p => m = l
      BY <1>1, <1>3, <1>4, <2>2 DEF SettleOnce
    <3>2. ASSUME NEW m \in DOMAIN V, V[m].t = "settle", V[m].p = V[l].p PROVE m = l
      <4>1. CASE m \in DOMAIN W
        BY <1>3, <3>1, <3>2, <4>1
      <4>2. CASE m \notin DOMAIN W
        BY <3>2, <4>2 DEF NewTasks
      <4> QED BY <4>1, <4>2
    <3> QED BY <1>2, <3>1, <3>2
  <2> QED BY <2>1, <2>2
<1>10. EndGiven(V, S)
  <2> SUFFICES ASSUME NEW l \in DOMAIN V, V[l].t = "call", V[l].cb.next = 0 PROVE \E r \in 1 .. Len(S) : S[r][3] = 0
    BY DEF EndGiven
  <2>1. CASE l \notin DOMAIN W
    BY <2>1 DEF NewTasks
  <2>2. CASE l \in DOMAIN W
    BY <1>1, <1>3, <1>5, <2>2 DEF EndGiven
  <2> QED BY <2>1, <2>2
<1> QED BY <1>6, <1>7, <1>8, <1>9, <1>10 DEF Heard

\* A promise is settled: all that hangs on it is notified.
LEMMA HeardSettle ==
  ASSUME NEW P, NEW Q, NEW V, NEW W, NEW R, NEW C, NEW A, NEW a, NEW p \in 1 .. Len(P), NEW how \in {"v", "e"}, NEW x,
         Sane(P, W, R, C, A), Heard(P, W, R, C, A, {p}), Added(V, W, a), SettledAs(Q, P, p, how, x), Pending(P, p),
         V[a].t = "each", V[a].p = p, V[a].how = (IF how = "v" THEN "ok" ELSE "fail"), V[a].i = 1,
         p > 2 => ~IsTask(W, "settle", p), A[p] # 0 => Agrees(P, how, x, A[p]),
         \A r \in 1 .. Len(R) : R[r][3] = p /\ R[r][2] = "fail" /\ P[R[r][1]].s = "e" /\ ~CalledBack(C, p) => Passed(P, R[r][1], how, x)
  PROVE  Heard(Q, V, R, C, A, {})
<1> DEFINE k == V[a].how
<1>1. /\ \A r \in 1 .. Len(R) : R[r][3] # 0 /\ R[r][3] # p /\ Matches(R[r][2], P[R[r][1]].s) => Comes(P, W, A, R[r][3])
      /\ \A n \in 1 .. Len(P) : A[n] # 0 /\ n # p => Adopting(P, W, A, n)
      /\ PassesOn(P, W, R, C) /\ SettleOnce(P, W) /\ EndGiven(W, R)
  BY DEF Heard
<1>2. /\ \A r \in 1 .. Len(R) : /\ R[r][1] \in 1 .. Len(P) /\ R[r][2] \in Kinds
                                /\ R[r][3] # 0 => R[r][3] \in 1 .. Len(P) /\ R[r][1] < R[r][3]
      /\ \A n \in 1 .. Len(P) : A[n] # 0 => A[n] \in 1 .. Len(P)
      /\ \A l \in DOMAIN W : W[l].t \in {"each", "settle"} => W[l].p \in 1 .. Len(P)
  BY DEF Sane, RegsOK, AdoptOK, TasksOK, TaskOK, Typed
<1>3. /\ \A e : \A q \in 1 .. Len(P) : ListOf(Q, q, e) = ListOf(P, q, e)
      /\ Len(Q) = Len(P) /\ \A q \in 1 .. Len(P) : q # p => (Pending(Q, q) <=> Pending(P, q)) /\ Q[q].s = P[q].s /\ Q[q].x = P[q].x
      /\ ~Pending(Q, p) /\ Q[p].s = how /\ Q[p].x = x
  BY DEF SettledAs, ListOf, Pending
<1>4. /\ a \in DOMAIN V /\ \A l \in DOMAIN V : l \in DOMAIN W \/ l = a
      /\ \A l \in DOMAIN W : l \in DOMAIN V /\ V[l] = W[l] /\ l # a
  BY DEF Added
<1>5. /\ \A l \in DOMAIN W : Due(Q, V, l) = Due(P, W, l) /\ \A j \in Due(P, W, l) : DueCb(Q, V, l, j) = DueCb(P, W, l, j)
      /\ Due(Q, V, a) = 1 .. Len(ListOf(P, p, k)) /\ \A j : DueCb(Q, V, a, j) = ListOf(P, p, k)[j]
  BY <1>2, <1>3, <1>4 DEF Due, DueCb
<1> HIDE DEF k
<1>6. ASSUME NEW n
      PROVE  /\ IsDue(P, W, n) => IsDue(Q, V, n)
             /\ IsArg(P, W, n) => IsArg(Q, V, n)
             /\ \A t : IsTask(W, t, n) => IsTask(V, t, n)
  <2>1. IsDue(P, W, n) => IsDue(Q, V, n)
    BY <1>4, <1>5 DEF IsDue
  <2>2. IsArg(P, W, n) => IsArg(Q, V, n)
    BY <1>4, <1>5 DEF IsArg
  <2>3. \A t : IsTask(W, t, n) => IsTask(V, t, n)
    BY <1>4 DEF IsTask
  <2> QED BY <2>1, <2>2, <2>3
<1>7. ASSUME NEW r \in 1 .. Len(R), R[r][3] # 0, Matches(R[r][2], Q[R[r][1]].s) PROVE Comes(Q, V, A, R[r][3])
  <2>1. CASE R[r][3] = p
    BY <1>3, <2>1 DEF Comes
  <2>2. CASE R[r][3] # p /\ R[r][1] # p
    <3>1. Comes(P, W, A, R[r][3])
      BY <1>1, <1>2, <1>3, <1>7, <2>2
    <3> QED BY <1>2, <1>3, <1>6, <1>7, <2>2, <3>1 DEF Comes
  <2>3. CASE R[r][1] = p
    <3>1. R[r][2] = k
      BY <1>3, <1>7, <2>3 DEF Matches, k
    <3>2. PICK j \in 1 .. Len(ListOf(P, p, k)) : ListOf(P, p, k)[j].next = R[r][3]
      BY <1>7, <2>3, <3>1 DEF Sane, Listed
    <3>3. IsDue(Q, V, R[r][3])
      BY <1>4, <1>5, <3>2 DEF IsDue
    <3> QED BY <3>3 DEF Comes
  <2> QED BY <2>1, <2>2, <2>3
<1>8. ASSUME NEW n \in 1 .. Len(Q), A[n] # 0 PROVE Adopting(Q, V, A, n)
  <2>0. n \in 1 .. Len(P) /\ A[n] \in 1 .. Len(P)
    BY <1>2, <1>3, <1>8
  <2>1. CASE n = p
    <3>1. ~Pending(P, A[n])
      BY <1>8, <2>1 DEF Agrees
    <3>2. A[n] # p
      BY <3>1
    <3> QED BY <1>3, <2>0, <2>1, <3>1, <3>2 DEF Adopting
  <2>2. CASE n # p /\ A[n] = p
    <3>1. Adopting(P, W, A, n)
      BY <1>1, <1>8, <2>0, <2>2
    <3>2. Hangs(P, p, n)
      BY <2>2, <3>1 DEF Adopting
    <3>3. k \in Kinds
      BY DEF k, Kinds
    <3>4. PICK j \in 1 .. Len(ListOf(P, p, k)) : ListOf(P, p, k)[j].arg = n
      BY <3>2, <3>3 DEF Hangs
    <3>5. IsArg(Q, V, n)
      BY <1>4, <1>5, <3>4 DEF IsArg
    <3> QED BY <1>3, <2>2, <3>5 DEF Adopting
  <2>3. CASE n # p /\ A[n] # p
    <3>1. Adopting(P, W, A, n)
      BY <1>1, <1>8, <2>0, <2>3
    <3>2. Hangs(P, A[n], n) => Hangs(Q, A[n], n)
      BY <1>3, <2>0 DEF Hangs
    <3> QED BY <1>3, <1>6, <2>0, <2>3, <3>1, <3>2 DEF Adopting
  <2> QED BY <2>1, <2>2, <2>3
<1>9. PassesOn(Q, V, R, C)
  <2> SUFFICES ASSUME NEW r \in 1 .. Len(R), R[r][3] # 0, R[r][2] = "fail", Q[R[r][1]].s = "e", ~CalledBack(C, R[r][3])
               PROVE  PassesTo(Q, V, R[r][1], R[r][3])
    BY DEF PassesOn
  <2> DEFINE n == R[r][3]
  <2>0. R[r][1] \in 1 .. Len(P) /\ n \in 1 .. Len(P) /\ R[r][1] # n
    BY <1>2
  <2>1. CASE R[r][1] = p
    <3>1. PICK j \in 1 .. Len(ListOf(P, p, R[r][2])) : ListOf(P, p, R[r][2])[j].next = n
      BY <2>1 DEF Sane, Listed
    <3>2. Untouched(P, W, A, n)
      BY <1>2, <3>1 DEF Sane, WaitingOK
    <3>3. Pending(Q, n)
      BY <1>3, <2>0, <2>1, <3>2 DEF Untouched
    <3>4. ~IsTask(V, "settle", n)
      <4>1. ~IsTask(W, "settle", n)
        BY <3>2 DEF Untouched
      <4> HIDE DEF n
      <4> QED BY <1>4, <4>1 DEF IsTask
    <3> QED BY <3>3, <3>4 DEF PassesTo, IsTask
  <2>2. CASE R[r][1] # p
    <3>1. P[R[r][1]].s = "e" /\ P[R[r][1]].x = Q[R[r][1]].x
      BY <1>3, <2>0, <2>2
    <3>2. PassesTo(P, W, R[r][1], n)
      BY <1>1, <3>1 DEF PassesOn
    <3>3. \A l \in DOMAIN V : V[l].t = "settle" /\ V[l].p = n => Passed(Q, R[r][1], V[l].how, V[l].x)
      BY <1>4, <3>1, <3>2 DEF PassesTo, Passed
    <3>4. ~Pending(Q, n) => Passed(Q, R[r][1], Q[n].s, Q[n].x)
      <4>1. CASE n = p
        <5>1. Passed(P, R[r][1], how, x)
          BY <3>1, <4>1
        <5> QED BY <1>3, <3>1, <4>1, <5>1 DEF Passed
      <4>2. CASE n # p
        BY <1>3, <2>0, <3>1, <3>2, <4>2 DEF PassesTo, Passed
      <4> QED BY <4>1, <4>2
    <3> QED BY <3>3, <3>4 DEF PassesTo
  <2> QED BY <2>1, <2>2
<1>10. SettleOnce(Q, V)
  <2> SUFFICES ASSUME NEW l \in DOMAIN V, V[l].t = "settle", V[l].p > 2
               PROVE  Pending(Q, V[l].p) /\ \A m \in DOMAIN V : V[m].t = "settle" /\ V[m].p = V[l].p => m = l
    BY DEF SettleOnce
  <2>1. l \in DOMAIN W /\ V[l] = W[l]
    BY <1>4
  <2>2. /\ W[l].p \in 1 .. Len(P) /\ Pending(P, W[l].p)
        /\ \A m \in DOMAIN W : W[m].t = "settle" /\ W[m].p = W[l].p => m = l
    BY <1>1, <1>2, <2>1 DEF SettleOnce
  <2>3. W[l].p # p
    BY <2>1 DEF IsTask
  <2> QED BY <1>3, <1>4, <2>1, <2>2, <2>3
<1>11. EndGiven(V, R)
  BY <1>1, <1>4 DEF EndGiven
<1> QED BY <1>7, <1>8, <1>9, <1>10, <1>11 DEF Heard

\* Tasks are the same, in other places; a notification may have become a call and what is left.
Serves(V, W, P) ==
  /\ \A l \in DOMAIN W : \A j \in Due(P, W, l) : \E m \in DOMAIN V : \E i \in Due(P, V, m) : DueCb(P, V, m, i) = DueCb(P, W, l, j)
  /\ \A l \in DOMAIN W : W[l].t \in {"settle", "user"} => \E m \in DOMAIN V : V[m] = W[l]
  /\ \A m \in DOMAIN V : V[m].t = "settle" => m \in DOMAIN W /\ V[m] = W[m]

\* Who has heard of a promise, or will, still has or will when other tasks do the same work.
LEMMA HeardServed ==
  ASSUME NEW P, NEW V, NEW W, NEW R, NEW C, NEW A, NEW E, Heard(P, W, R, C, A, E), Serves(V, W, P), EndGiven(V, R)
  PROVE  Heard(P, V, R, C, A, E)
<1>1. /\ \A r \in 1 .. Len(R) : R[r][3] # 0 /\ R[r][3] \notin E /\ Matches(R[r][2], P[R[r][1]].s) => Comes(P, W, A, R[r][3])
      /\ \A n \in 1 .. Len(P) : A[n] # 0 /\ n \notin E => Adopting(P, W, A, n)
      /\ PassesOn(P, W, R, C) /\ SettleOnce(P, W)
  BY DEF Heard
<1>2. ASSUME NEW n, IsDue(P, W, n) PROVE IsDue(P, V, n)
  <2>1. PICK l \in DOMAIN W : \E j \in Due(P, W, l) : DueCb(P, W, l, j).next = n
    BY <1>2 DEF IsDue
  <2>2. PICK j \in Due(P, W, l) : DueCb(P, W, l, j).next = n
    BY <2>1
  <2>3. PICK m \in DOMAIN V : \E i \in Due(P, V, m) : DueCb(P, V, m, i) = DueCb(P, W, l, j)
    BY DEF Serves
  <2> QED BY <2>2, <2>3 DEF IsDue
<1>3. ASSUME NEW n, IsArg(P, W, n) PROVE IsArg(P, V, n)
  <2>1. PICK l \in DOMAIN W : \E j \in Due(P, W, l) : DueCb(P, W, l, j).arg = n
    BY <1>3 DEF IsArg
  <2>2. PICK j \in Due(P, W, l) : DueCb(P, W, l, j).arg = n
    BY <2>1
  <2>3. PICK m \in DOMAIN V : \E i \in Due(P, V, m) : DueCb(P, V, m, i) = DueCb(P, W, l, j)
    BY DEF Serves
  <2> QED BY <2>2, <2>3 DEF IsArg
<1>4. ASSUME NEW n, NEW t \in {"settle", "user"}, IsTask(W, t, n) PROVE IsTask(V, t, n)
  <2>1. PICK l \in DOMAIN W : W[l].t = t /\ (IF t = "user" THEN W[l].cb.next ELSE W[l].p) = n
    BY <1>4 DEF IsTask
  <2>2. PICK m \in DOMAIN V : V[m] = W[l]
    BY <2>1 DEF Serves
  <2> QED BY <2>1, <2>2 DEF IsTask
<1>5. \A m \in DOMAIN V : V[m].t = "settle" => m \in DOMAIN W /\ V[m] = W[m]
  BY DEF Serves
<1>6. \A r \in 1 .. Len(R) : R[r][3] # 0 /\ R[r][3] \notin E /\ Matches(R[r][2], P[R[r][1]].s) => Comes(P, V, A, R[r][3])
  BY <1>1, <1>2, <1>4 DEF Comes
<1>7. \A n \in 1 .. Len(P) : A[n] # 0 /\ n \notin E => Adopting(P, V, A, n)
  BY <1>1, <1>3, <1>4 DEF Adopting
<1>8. PassesOn(P, V, R, C)
  <2>1. \A p, n : PassesTo(P, W, p, n) => PassesTo(P, V, p, n)
    BY <1>5 DEF PassesTo
  <2> QED BY <1>1, <2>1 DEF PassesOn
<1>9. SettleOnce(P, V)
  BY <1>1, <1>5 DEF SettleOnce
<1> QED BY <1>6, <1>7, <1>8, <1>9 DEF Heard

\* A task is added that calls no callbacks.
LEMMA HeardAdded ==
  ASSUME NEW P, NEW V, NEW W, NEW R, NEW C, NEW D, NEW A, NEW E, NEW F, NEW a, Heard(P, W, R, C, A, F), Added(V, W, a),
         V[a].t \in {"settle", "try", "user"}, \A n : CalledBack(C, n) => CalledBack(D, n), Met(P, V, A, E, F),
         V[a].t = "settle" =>
           /\ V[a].p > 2 => Pending(P, V[a].p) /\ ~IsTask(W, "settle", V[a].p)
           /\ \A r \in 1 .. Len(R) : R[r][3] # 0 /\ R[r][3] = V[a].p /\ R[r][2] = "fail" /\ P[R[r][1]].s = "e"
                                     /\ ~CalledBack(D, V[a].p) => Passed(P, R[r][1], V[a].how, V[a].x)
  PROVE  Heard(P, V, R, D, A, E)
<1>1. /\ \A r \in 1 .. Len(R) : R[r][3] # 0 /\ R[r][3] \notin F /\ Matches(R[r][2], P[R[r][1]].s) => Comes(P, W, A, R[r][3])
      /\ \A n \in 1 .. Len(P) : A[n] # 0 /\ n \notin F => Adopting(P, W, A, n)
      /\ PassesOn(P, W, R, C) /\ SettleOnce(P, W) /\ EndGiven(W, R)
  BY DEF Heard
<1>2. /\ a \in DOMAIN V /\ a \notin DOMAIN W /\ \A l \in DOMAIN V : l \in DOMAIN W \/ l = a
      /\ \A l \in DOMAIN W : l \in DOMAIN V /\ V[l] = W[l]
  BY DEF Added
<1>3. \A l \in DOMAIN W : Due(P, V, l) = Due(P, W, l) /\ \A j : DueCb(P, V, l, j) = DueCb(P, W, l, j)
  BY <1>2 DEF Due, DueCb
<1>4. ASSUME NEW n
      PROVE  /\ IsDue(P, W, n) => IsDue(P, V, n)
             /\ IsArg(P, W, n) => IsArg(P, V, n)
             /\ \A t : IsTask(W, t, n) => IsTask(V, t, n)
  <2>1. IsDue(P, W, n) => IsDue(P, V, n)
    BY <1>2, <1>3 DEF IsDue
  <2>2. IsArg(P, W, n) => IsArg(P, V, n)
    BY <1>2, <1>3 DEF IsArg
  <2>3. \A t : IsTask(W, t, n) => IsTask(V, t, n)
    BY <1>2 DEF IsTask
  <2> QED BY <2>1, <2>2, <2>3
<1>5. ASSUME NEW r \in 1 .. Len(R), R[r][3] # 0, R[r][3] \notin E, Matches(R[r][2], P[R[r][1]].s) PROVE Comes(P, V, A, R[r][3])
  <2>1. CASE R[r][3] \in F
    BY <1>5, <2>1 DEF Met
  <2>2. CASE R[r][3] \notin F
    <3>1. Comes(P, W, A, R[r][3])
      BY <1>1, <1>5, <2>2
    <3> QED BY <1>4, <3>1 DEF Comes
  <2> QED BY <2>1, <2>2
<1>6. ASSUME NEW n \in 1 .. Len(P), A[n] # 0, n \notin E PROVE Adopting(P, V, A, n)
  <2>1. CASE n \in F
    <3>1. n # 0
      OBVIOUS
    <3> QED BY <1>6, <2>1, <3>1 DEF Met
  <2>2. CASE n \notin F
    <3>1. Adopting(P, W, A, n)
      BY <1>1, <1>6, <2>2
    <3> QED BY <1>4, <3>1 DEF Adopting
  <2> QED BY <2>1, <2>2
<1>7. PassesOn(P, V, R, D)
  <2> SUFFICES ASSUME NEW r \in 1 .. Len(R), R[r][3] # 0, R[r][2] = "fail", P[R[r][1]].s = "e", ~CalledBack(D, R[r][3])
               PROVE  PassesTo(P, V, R[r][1], R[r][3])
    BY DEF PassesOn
  <2>1. PassesTo(P, W, R[r][1], R[r][3])
    BY <1>1 DEF PassesOn
  <2>2. ASSUME NEW l \in DOMAIN V, V[l].t = "settle", V[l].p = R[r][3] PROVE Passed(P, R[r][1], V[l].how, V[l].x)
    <3>1. CASE l \in DOMAIN W
      BY <1>2, <2>1, <2>2, <3>1 DEF PassesTo
    <3>2. CASE l = a
      BY <2>2, <3>2
    <3> QED BY <1>2, <3>1, <3>2
  <2> QED BY <2>1, <2>2 DEF PassesTo
<1>8. SettleOnce(P, V)
  <2> SUFFICES ASSUME NEW l \in DOMAIN V, V[l].t = "settle", V[l].p > 2
               PROVE  Pending(P, V[l].p) /\ \A m \in DOMAIN V : V[m].t = "settle" /\ V[m].p = V[l].p => m = l
    BY DEF SettleOnce
  <2>1. CASE l = a
    BY <1>2, <2>1 DEF IsTask
  <2>2. CASE l \in DOMAIN W
    <3>1. /\ V[l] = W[l] /\ Pending(P, W[l].p) /\ \A m \in DOMAIN W : W[m].t = "settle" /\ W[m].p = W[l].p => m = l
      BY <1>1, <1>2, <2>2 DEF SettleOnce
    <3>2. ASSUME NEW m \in DOMAIN V, V[m].t = "settle", V[m].p = V[l].p PROVE m = l
      <4>1. CASE m \in DOMAIN W
        BY <1>2, <3>1, <3>2, <4>1
      <4>2. CASE m = a
        BY <2>2, <3>1, <3>2, <4>2 DEF IsTask
      <4> QED BY <1>2, <3>2, <4>1, <4>2
    <3> QED BY <3>1, <3>2
  <2> QED BY <1>2, <2>1, <2>2
<1>9. EndGiven(V, R)
  BY <1>1, <1>2 DEF EndGiven
<1> QED BY <1>5, <1>6, <1>7, <1>8, <1>9 DEF Heard

-----------------------------------------------------------------------------
\* The program settles a promise at the top, or in a function.
SettleUser(s) == \A l \in 1 .. Len(s) : s[l].t = "settle" /\ s[l].p <= 2 => (IF l = 1 THEN TRUE ELSE s[l - 1].t = "user")
\* The promise for which an error is just caught.
Lost(s, X) == {n \in Nat : Fails(X) /\ s # <<>> /\ s[Len(s)].t = "try" /\ s[Len(s)].p = n}
Thrown(P, W, s, C, X) == Fails(X) =>
  /\ s # <<>>
  /\ \/ s[Len(s)].t = "user"
     \/ /\ s[Len(s)].t = "try" /\ Pending(P, s[Len(s)].p) /\ CalledBack(C, s[Len(s)].p) /\ ~IsTask(W, "settle", s[Len(s)].p)
\* No error was thrown that nothing takes.
Good(s, R, X, esc) == 
  /\ esc = {} /\ (sync => \A r \in 1 .. Len(R) : R[r][3] # 0)
  /\ Fails(X) => \E l \in 1 .. Len(s) : s[l].t = "try"
Living(P, s, t, R, C, A, X) == 
  Heard(P, Work(s, t), R, C, A, Lost(s, X)) /\ Thrown(P, Work(s, t), s, C, X) /\ SettleUser(s)
Lively == Good(stack, regs, exc, escaped) => Living(prims, stack, ticks, regs, calls, adopts, exc)

\* What is known of promises P, tasks W and adoptions A when nothing is thrown.
Lives(P, s, t, R, C, A) == Heard(P, Work(s, t), R, C, A, {}) /\ SettleUser(s)
\* Promises stay as they are, and registrations.
Same(P, Q, R, S) ==
  /\ \A q \in 1 .. Len(P) : q \in 1 .. Len(Q) /\ Q[q].s = P[q].s /\ Q[q].x = P[q].x
  /\ \A r \in 1 .. Len(R) : r \in 1 .. Len(S) /\ S[r] = R[r]
\* What was open stays so.
Continues(P, s, t, R, A, Q, u, v, S, B, C) ==
  /\ \A E : Heard(P, Work(s, t), R, C, A, E) => Heard(Q, Work(u, v), S, C, B, E)
  /\ Same(P, Q, R, S) /\ (SettleUser(s) => SettleUser(u))

\* Without its innermost task, a stack still has the tasks of the program in their places.
LEMMA SettleUserPop ==
  ASSUME NEW s \in Seq(Tasks), s # <<>>, SettleUser(s)
  PROVE  SettleUser(Front(s))
<1>1. Len(Front(s)) = Len(s) - 1 /\ Len(s) \in Nat /\ \A l \in 1 .. Len(s) - 1 : Front(s)[l] = s[l]
  BY WorkPop
<1> SUFFICES ASSUME NEW l \in 1 .. Len(Front(s)), Front(s)[l].t = "settle", Front(s)[l].p <= 2, l # 1 PROVE Front(s)[l - 1].t = "user"
  BY DEF SettleUser
<1>2. l \in 1 .. Len(s) /\ Front(s)[l] = s[l]
  BY <1>1
<1>3. s[l - 1].t = "user"
  BY <1>2 DEF SettleUser
<1>4. l - 1 \in 1 .. Len(s) - 1
  BY <1>1
<1> QED BY <1>1, <1>3, <1>4

\* A task may be pushed if it is not one that settles for the program, or the program runs.
LEMMA SettleUserPush ==
  ASSUME NEW s \in Seq(Tasks), SettleUser(s), NEW task \in Tasks,
         task.t = "settle" /\ task.p <= 2 => s = <<>> \/ (s # <<>> /\ s[Len(s)].t = "user")
  PROVE  SettleUser(Append(s, task))
<1> DEFINE u == Append(s, task)
<1>1. Len(u) = Len(s) + 1 /\ Len(s) \in Nat /\ (\A l \in 1 .. Len(s) : u[l] = s[l]) /\ u[Len(s) + 1] = task /\ (s = <<>> => Len(s) = 0)
  OBVIOUS
<1> HIDE DEF u
<1> SUFFICES ASSUME NEW l \in 1 .. Len(u), u[l].t = "settle", u[l].p <= 2, l # 1 PROVE u[l - 1].t = "user"
  BY DEF SettleUser, u
<1>2. CASE l \in 1 .. Len(s)
  <2>1. u[l] = s[l]
    BY <1>1, <1>2
  <2>2. s[l - 1].t = "user"
    BY <1>2, <2>1 DEF SettleUser
  <2>3. l - 1 \in 1 .. Len(s)
    BY <1>1, <1>2
  <2> QED BY <1>1, <2>2, <2>3
<1>3. CASE l = Len(s) + 1
  <2>1. s # <<>> /\ s[Len(s)].t = "user" 
    BY <1>1, <1>3
  <2>2. l - 1 = Len(s) /\ Len(s) \in 1 .. Len(s)
    BY <1>1, <1>3
  <2> QED BY <1>1, <2>1, <2>2
<1> QED BY <1>1, <1>2, <1>3

\* A registration is added: it does not matter to those before it.
LEMMA RegAdded ==
  ASSUME NEW P, NEW R \in Seq(Nat \X Kinds \X Nat), NEW p \in Nat, NEW k \in Kinds, NEW n \in Nat
  PROVE  /\ Append(R, <<p, k, n>>)[Len(R) + 1] = <<p, k, n>> /\ Len(R) + 1 \in 1 .. Len(Append(R, <<p, k, n>>))
         /\ \A r \in 1 .. Len(R) : r \in 1 .. Len(Append(R, <<p, k, n>>)) /\ Append(R, <<p, k, n>>)[r] = R[r]
         /\ \A r \in 1 .. Len(Append(R, <<p, k, n>>)) : r \in 1 .. Len(R) \/ r = Len(R) + 1
<1>1. Len(Append(R, <<p, k, n>>)) = Len(R) + 1 /\ Len(R) \in Nat
  OBVIOUS
<1>2. Append(R, <<p, k, n>>)[Len(R) + 1] = <<p, k, n>>
  OBVIOUS
<1>3. \A r \in 1 .. Len(R) : Append(R, <<p, k, n>>)[r] = R[r]
  OBVIOUS
<1> QED BY <1>1, <1>2, <1>3

\* A callback for a promise that is settled is to be called.
LEMMA CallHeard ==
  ASSUME NEW P, NEW V, NEW W, NEW R, NEW C, NEW A, NEW p \in 1 .. Len(P), NEW k \in Kinds, NEW cb, NEW a, Sane(P, W, R, C, A),
         Free(P, W, R, C, A, p, k, cb), Matches(k, P[p].s), Added(V, W, a), V[a].t = "call", V[a].cb = cb
  PROVE  /\ Extends(P, V, P, W) /\ IsArg(P, V, cb.arg)
         /\ \A E : Heard(P, W, R, C, A, E) => Heard(P, V, Append(R, <<p, k, cb.next>>), C, A, E)
<1> DEFINE S == Append(R, <<p, k, cb.next>>)
           z == Len(R) + 1
<1>1. cb.next \in Nat /\ p \in Nat /\ R \in Seq(Nat \X Kinds \X Nat)
  BY DEF Free, Cbs, Sane, Typed
<1>2. S[z] = <<p, k, cb.next>> /\ z \in 1 .. Len(S)
  BY <1>1, RegAdded
<1>3. \A r \in 1 .. Len(R) : r \in 1 .. Len(S) /\ S[r] = R[r]
  BY <1>1, RegAdded
<1>4. \A r \in 1 .. Len(S) : r \in 1 .. Len(R) \/ r = z
  BY <1>1, RegAdded
<1>5. S[z][1] = p /\ S[z][2] = k /\ S[z][3] = cb.next
  BY <1>2
<1> HIDE DEF S, z
<1>6. /\ a \in DOMAIN V /\ a \notin DOMAIN W /\ \A l \in DOMAIN V : l \in DOMAIN W \/ l = a
      /\ \A l \in DOMAIN W : l \in DOMAIN V /\ V[l] = W[l]
  BY DEF Added
<1>7. Extends(P, V, P, W)
  <2>1. P \in Seq(PrimRecords)
    BY DEF Sane, Typed
  <2>2. Len(P) \in Nat
    BY <2>1
  <2> QED BY <1>6, <2>2 DEF Extends
<1>8. 0 \in Due(P, V, a) /\ DueCb(P, V, a, 0) = cb
  BY <1>6 DEF Due, DueCb
<1>9. IsArg(P, V, cb.arg) /\ IsDue(P, V, cb.next)
  BY <1>6, <1>8 DEF IsArg, IsDue
<1>10. cb.next # 0 => Untouched(P, W, A, cb.next)
  BY DEF Free
<1>11. NewRegs(P, V, R, S, C, A)
  <2> SUFFICES ASSUME NEW r \in 1 .. Len(S), r \notin 1 .. Len(R), S[r][3] # 0
               PROVE  Comes(P, V, A, S[r][3]) /\ Pending(P, S[r][3]) /\ ~IsTask(V, "settle", S[r][3])
    BY <1>3 DEF NewRegs
  <2>1. S[r][3] = cb.next /\ cb.next # 0
    BY <1>4, <1>5
  <2>2. Comes(P, V, A, cb.next)
    BY <1>9 DEF Comes
  <2>3. Pending(P, cb.next) /\ ~IsTask(W, "settle", cb.next)
    BY <1>10, <2>1 DEF Untouched
  <2>4. ~IsTask(V, "settle", cb.next)
    BY <1>6, <2>3 DEF IsTask
  <2> QED BY <2>1, <2>2, <2>3, <2>4
<1>12. NewTasks(P, V, W, S, C)
  BY <1>2, <1>5, <1>6 DEF NewTasks
<1>13. ASSUME NEW E, Heard(P, W, R, C, A, E) PROVE Heard(P, V, S, C, A, E)
  <2>1. Met(P, V, A, E, E)
    BY DEF Met
  <2> QED BY <1>7, <1>11, <1>12, <1>13, <2>1, HeardMore
<1> QED BY <1>7, <1>9, <1>13 DEF S

\* A callback waits in a list.
LEMMA ListHeard ==
  ASSUME NEW P, NEW Q, NEW W, NEW R, NEW C, NEW A, NEW p \in 1 .. Len(P), NEW k \in Kinds, NEW cb, Sane(P, W, R, C, A),
         Free(P, W, R, C, A, p, k, cb), ~Matches(k, P[p].s), Grown(Q, P, p, k, cb)
  PROVE  /\ Extends(Q, W, P, W) /\ \E j \in 1 .. Len(ListOf(Q, p, k)) : ListOf(Q, p, k)[j].arg = cb.arg
         /\ \A E : Heard(P, W, R, C, A, E) => Heard(Q, W, Append(R, <<p, k, cb.next>>), C, A, E)
<1> DEFINE S == Append(R, <<p, k, cb.next>>)
           z == Len(R) + 1
<1>1. cb.next \in Nat /\ p \in Nat /\ R \in Seq(Nat \X Kinds \X Nat) /\ P \in Seq(PrimRecords)
  BY DEF Free, Cbs, Sane, Typed
<1>2. S[z] = <<p, k, cb.next>> /\ z \in 1 .. Len(S)
  BY <1>1, RegAdded
<1>3. \A r \in 1 .. Len(R) : r \in 1 .. Len(S) /\ S[r] = R[r]
  BY <1>1, RegAdded
<1>4. \A r \in 1 .. Len(S) : r \in 1 .. Len(R) \/ r = z
  BY <1>1, RegAdded
<1>5. S[z][1] = p /\ S[z][2] = k /\ S[z][3] = cb.next
  BY <1>2
<1> HIDE DEF S, z
<1>6. /\ Len(Q) = Len(P) /\ Len(P) \in Nat /\ \A q \in 1 .. Len(P) : Q[q].s = P[q].s /\ Q[q].x = P[q].x
      /\ ListOf(Q, p, k) = Append(ListOf(P, p, k), cb)
      /\ \A q \in 1 .. Len(P), e \in Kinds : q # p \/ e # k => ListOf(Q, q, e) = ListOf(P, q, e)
  BY <1>1 DEF Grown
<1>7. ListOf(P, p, k) \in Seq(Cbs)
  <2>1. P[p] \in PrimRecords
    BY <1>1
  <2> QED BY <2>1 DEF PrimRecords, ListOf
<1>8. /\ \A j \in 1 .. Len(ListOf(P, p, k)) : j \in 1 .. Len(ListOf(Q, p, k)) /\ ListOf(Q, p, k)[j] = ListOf(P, p, k)[j]
      /\ \E j \in 1 .. Len(ListOf(Q, p, k)) : ListOf(Q, p, k)[j] = cb
  <2> DEFINE list == ListOf(P, p, k)
  <2>1. list \in Seq(Cbs) /\ cb \in Cbs
    BY <1>7 DEF Free
  <2> HIDE DEF list
  <2>2. \A j \in 1 .. Len(list) : j \in 1 .. Len(Append(list, cb)) /\ Append(list, cb)[j] = list[j]
    BY <2>1
  <2>3. Len(list) + 1 \in 1 .. Len(Append(list, cb)) /\ Append(list, cb)[Len(list) + 1] = cb
    BY <2>1
  <2> QED BY <1>6, <2>2, <2>3 DEF list
<1>9. Extends(Q, W, P, W)
  <2>1. \A q \in 1 .. Len(P), e \in Kinds : \A j \in 1 .. Len(ListOf(P, q, e)) :
          j \in 1 .. Len(ListOf(Q, q, e)) /\ ListOf(Q, q, e)[j] = ListOf(P, q, e)[j]
    BY <1>6, <1>8
  <2> QED BY <1>6, <2>1 DEF Extends
<1>10. NewRegs(Q, W, R, S, C, A)
  <2> SUFFICES ASSUME NEW r \in 1 .. Len(S), r \notin 1 .. Len(R), Matches(S[r][2], Q[S[r][1]].s) PROVE FALSE
    BY <1>3 DEF NewRegs, Matches
  <2> QED BY <1>4, <1>5, <1>6
<1>11. NewTasks(Q, W, W, S, C)
  BY DEF NewTasks
<1>12. ASSUME NEW E, Heard(P, W, R, C, A, E) PROVE Heard(Q, W, S, C, A, E)
  <2>1. Met(Q, W, A, E, E)
    BY DEF Met
  <2>2. \A n \in 1 .. Len(Q) : n \in 1 .. Len(P)
    BY <1>6
  <2> QED BY <1>9, <1>10, <1>11, <1>12, <2>1, <2>2, HeardMore
<1> QED BY <1>8, <1>9, <1>12 DEF S

\* A promise is made.
LEMMA MadeHeard ==
  ASSUME NEW P, NEW W, NEW R, NEW C, NEW A, NEW rec, Sane(P, W, R, C, A)
  PROVE  \A E : Heard(P, W, R, C, A, E) => Heard(Append(P, rec), W, R, C, Append(A, 0), E)
<1> DEFINE Q == Append(P, rec)
           B == Append(A, 0)
<1>1. P \in Seq(PrimRecords) /\ A \in Seq(Nat) /\ Len(A) = Len(P) /\ Len(P) \in Nat
  BY DEF Sane, Typed
<1>2. /\ Len(Q) = Len(P) + 1 /\ \A q \in 1 .. Len(P) : q \in 1 .. Len(Q) /\ Q[q] = P[q]
  BY <1>1
<1>3. /\ \A q \in 1 .. Len(P) : B[q] = A[q]
      /\ \A q \in 1 .. Len(Q) : q \in 1 .. Len(P) \/ B[q] = 0
  BY <1>1, <1>2
<1> HIDE DEF Q, B
<1>4. Extends(Q, W, P, W)
  <2>1. \A q \in 1 .. Len(P), e \in Kinds : ListOf(Q, q, e) = ListOf(P, q, e)
    BY <1>2 DEF ListOf
  <2> QED BY <1>1, <1>2, <2>1 DEF Extends
<1>5. NewRegs(Q, W, R, R, C, B) /\ NewTasks(Q, W, W, R, C)
  BY DEF NewRegs, NewTasks
<1>6. ASSUME NEW E, Heard(P, W, R, C, A, E) PROVE Heard(Q, W, R, C, B, E)
  <2>1. Met(Q, W, B, E, E)
    BY DEF Met
  <2> QED BY <1>3, <1>4, <1>5, <1>6, <2>1, HeardMore
<1> QED BY <1>6 DEF Q, B

\* A state of which the invariant holds, with the tries m may wait for, and n promises.
Fine(P, s, t, R, C, A, m, n) == OK(P, s, t, R, C, A) /\ OneTry(s) /\ Held(P, s, A, m) /\ Len(P) = n
\* A callback that settles arg is in a list of p, or is to be called.
Hooked(P, W, p, k, arg) ==
  /\ ~Matches(k, P[p].s) => \E j \in 1 .. Len(ListOf(P, p, k)) : ListOf(P, p, k)[j].arg = arg
  /\ Matches(k, P[p].s) => IsArg(P, W, arg)
CallsWith(s, arg) == s # <<>> /\ s[Len(s)].t = "call" /\ s[Len(s)].cb.arg = arg

\* callback and errback.
LEMMA Adding ==
  ASSUME NEW P, NEW s, NEW t, NEW X, NEW R, NEW C, NEW A, NEW p \in 1 .. Len(P), NEW k \in Kinds, NEW cb, NEW m, NEW n,
         Fine(P, s, t, R, C, A, m, n), Free(P, Work(s, t), R, C, A, p, k, cb)
  PROVE  \E Q, u, v :
           /\ addCallback(St(P, s, t, X, R, C, A), p, k, cb) = St(Q, u, v, X, Append(R, <<p, k, cb.next>>), C, A)
           /\ Fine(Q, u, v, Append(R, <<p, k, cb.next>>), C, A, m, n)
           /\ u = s \/ CallsWith(u, cb.arg)
           /\ Continues(P, s, t, R, A, Q, u, v, Append(R, <<p, k, cb.next>>), A, C)
           /\ Extends(Q, Work(u, v), P, Work(s, t)) /\ Hooked(Q, Work(u, v), p, k, cb.arg)
           /\ \A e \in Kinds : \A other : /\ e # k /\ other.next = cb.next /\ other.arg = cb.arg
                                           /\ Free(P, Work(s, t), R, C, A, p, e, other)
                => Free(Q, Work(u, v), Append(R, <<p, k, cb.next>>), C, A, p, e, other)
<1>1. /\ P \in Seq(PrimRecords) /\ s \in Seq(Tasks) /\ cb \in Cbs /\ OK(P, s, t, R, C, A) /\ OneTry(s) /\ Held(P, s, A, m) /\ Len(P) = n
  BY DEF Fine, OK, Sane, Typed, Free
<1>0. P[p] \in PrimRecords
  BY <1>1
<1>8. P[p].x \in Values
  BY <1>0 DEF PrimRecords
<1>2. PICK Q, u, v :
           /\ addCallback(St(P, s, t, X, R, C, A), p, k, cb) = St(Q, u, v, X, Append(R, <<p, k, cb.next>>), C, A)
           /\ ~Matches(k, P[p].s) => Grown(Q, P, p, k, cb) /\ u = s /\ v = t
           /\ Matches(k, P[p].s) => /\ Q = P
                                    /\ sync => u = Append(s, CallTask(k, cb, P[p].x)) /\ v = t
                                    /\ ~sync => u = s /\ v = Append(t, CallTask(k, cb, P[p].x))
  <2>1. PICK st : st = addCallback(St(P, s, t, X, R, C, A), p, k, cb)
    OBVIOUS
  <2>2. \E Q, u, v :
           /\ st = St(Q, u, v, X, Append(R, <<p, k, cb.next>>), C, A)
           /\ ~Matches(k, P[p].s) => Grown(Q, P, p, k, cb) /\ u = s /\ v = t
           /\ Matches(k, P[p].s) => /\ Q = P
                                    /\ sync => u = Append(s, CallTask(k, cb, P[p].x)) /\ v = t
                                    /\ ~sync => u = s /\ v = Append(t, CallTask(k, cb, P[p].x))
    BY <1>1, <2>1, AddIs
  <2> QED BY <2>1, <2>2
<1>3. /\ OK(Q, u, v, Append(R, <<p, k, cb.next>>), C, A) /\ Len(Q) = Len(P)
      /\ \A e \in Kinds : \A other : /\ e # k /\ other.next = cb.next /\ other.arg = cb.arg
                                      /\ Free(P, Work(s, t), R, C, A, p, e, other)
           => Free(Q, Work(u, v), Append(R, <<p, k, cb.next>>), C, A, p, e, other)
  <2>1. /\ ~Matches(k, P[p].s) => Grown(Q, P, p, k, cb) /\ u = s /\ v = t
        /\ Matches(k, P[p].s) => /\ Q = P
                                 /\ sync => u = Append(s, CallTask(k, cb, P[p].x)) /\ v = t
                                 /\ ~sync => u = s /\ v = Append(t, CallTask(k, cb, P[p].x))
    BY <1>2
  <2>2. OK(P, s, t, R, C, A) /\ Free(P, Work(s, t), R, C, A, p, k, cb)
    BY <1>1
  <2>3. /\ OK(Q, u, v, Append(R, <<p, k, cb.next>>), C, A) /\ Len(Q) = Len(P)
        /\ \A e \in Kinds : \A other : /\ e # k /\ other.next = cb.next /\ other.arg = cb.arg
                                        /\ Free(P, Work(s, t), R, C, A, p, e, other)
              => Free(Q, Work(u, v), Append(R, <<p, k, cb.next>>), C, A, p, e, other)
    <3>1. ~Matches(k, P[p].s) => Grown(Q, P, p, k, cb) /\ u = s /\ v = t
      BY <2>1
    <3>2. Matches(k, P[p].s) => /\ Q = P
                                /\ sync => u = Append(s, CallTask(k, cb, P[p].x)) /\ v = t
                                /\ ~sync => u = s /\ v = Append(t, CallTask(k, cb, P[p].x))
      BY <2>1
    <3> QED BY <2>2, <3>1, <3>2, Registering
  <2> QED BY <2>3
<1>4. \A q \in 1 .. Len(P) : Q[q].s = P[q].s
  BY <1>2 DEF Grown
<1> DEFINE task == CallTask(k, cb, P[p].x)
<1>5. task \in Tasks /\ task.t = "call" /\ task.cb = cb
  BY <1>1, <1>8, CallTasks
<1>6. u = s \/ u = Append(s, task)
  BY <1>2
<1> HIDE DEF task
<1>7. OneTry(u) /\ Held(P, u, A, m) /\ (u = s \/ CallsWith(u, cb.arg))
  <2>1. CASE u = s
    BY <1>1, <2>1
  <2>2. CASE u = Append(s, task)
    <3>1. task.t # "try"
      BY <1>5
    <3>2. OneTry(Append(s, task)) /\ Held(P, Append(s, task), A, m)
      BY <1>1, <3>1, TriesPush
    <3>3. Append(s, task) # <<>> /\ Append(s, task)[Len(Append(s, task))] = task
      BY <1>1, <1>5
    <3> QED BY <1>5, <2>2, <3>2, <3>3 DEF CallsWith
  <2> QED BY <1>6, <2>1, <2>2
<1>9. Held(Q, u, A, m)
  <2>1. \A l \in 1 .. Len(u) : u[l].t = "try" => u[l].p \in 1 .. Len(Q)
    BY <1>3, TriesTyped
  <2> QED BY <1>3, <1>4, <1>7, <2>1 DEF Held, Done, Pending
<1>10. Fine(Q, u, v, Append(R, <<p, k, cb.next>>), C, A, m, n)
  BY <1>1, <1>3, <1>7, <1>9 DEF Fine
<1>11. /\ Extends(Q, Work(u, v), P, Work(s, t)) /\ Hooked(Q, Work(u, v), p, k, cb.arg)
       /\ \A E : Heard(P, Work(s, t), R, C, A, E) => Heard(Q, Work(u, v), Append(R, <<p, k, cb.next>>), C, A, E)
  <2>1. Sane(P, Work(s, t), R, C, A) /\ t \in Seq(Tasks)
    BY <1>1 DEF OK
  <2>2. CASE ~Matches(k, P[p].s)
    <3>1. Grown(Q, P, p, k, cb) /\ u = s /\ v = t
      BY <1>2, <2>2
    <3>2. Q[p].s = P[p].s
      BY <1>4
    <3>3. Free(P, Work(s, t), R, C, A, p, k, cb)
      OBVIOUS
    <3>4. /\ Extends(Q, Work(s, t), P, Work(s, t)) /\ \E j \in 1 .. Len(ListOf(Q, p, k)) : ListOf(Q, p, k)[j].arg = cb.arg
          /\ \A E : Heard(P, Work(s, t), R, C, A, E) => Heard(Q, Work(s, t), Append(R, <<p, k, cb.next>>), C, A, E)
      <4> DEFINE W == Work(s, t)
      <4>1. Sane(P, W, R, C, A) /\ Free(P, W, R, C, A, p, k, cb) /\ Grown(Q, P, p, k, cb) /\ ~Matches(k, P[p].s)
        BY <2>1, <2>2, <3>1, <3>3
      <4> HIDE DEF W
      <4> QED BY <4>1, ListHeard DEF W
    <3>5. ~Matches(k, Q[p].s)
      BY <2>2, <3>2
    <3> QED BY <3>1, <3>4, <3>5 DEF Hooked
  <2>3. CASE Matches(k, P[p].s)
    <3>1. PICK a : Added(Work(u, v), Work(s, t), a) /\ Work(u, v)[a] = task
      <4>1. (u = Append(s, task) /\ v = t) \/ (u = s /\ v = Append(t, task))
        BY <1>2, <2>3 DEF task
      <4>2. CASE u = Append(s, task) /\ v = t
        BY <1>1, <1>5, <2>1, <4>2, WorkPush
      <4>3. CASE u = s /\ v = Append(t, task)
        BY <1>1, <1>5, <2>1, <4>3, WorkTick
      <4> QED BY <4>1, <4>2, <4>3
    <3>2. Q = P
      BY <1>2, <2>3
    <3> QED BY <1>5, <2>1, <2>3, <3>1, <3>2, CallHeard DEF Hooked
  <2> QED BY <2>2, <2>3
<1>12. Continues(P, s, t, R, A, Q, u, v, Append(R, <<p, k, cb.next>>), A, C)
  <2>1. cb.next \in Nat /\ p \in Nat /\ R \in Seq(Nat \X Kinds \X Nat)
    BY <1>1 DEF Cbs, OK, Sane, Typed
  <2>2. \A r \in 1 .. Len(R) : r \in 1 .. Len(Append(R, <<p, k, cb.next>>)) /\ Append(R, <<p, k, cb.next>>)[r] = R[r]
    BY <2>1, RegAdded
  <2>3. SettleUser(s) => SettleUser(u)
    BY <1>1, <1>5, <1>6, SettleUserPush
  <2>4. \A q \in 1 .. Len(P) : q \in 1 .. Len(Q) /\ Q[q].s = P[q].s /\ Q[q].x = P[q].x
    BY <1>2, <1>3 DEF Grown
  <2> QED BY <1>11, <2>2, <2>3, <2>4 DEF Continues, Same
<1> QED BY <1>2, <1>3, <1>7, <1>10, <1>11, <1>12

\* A promise that is made, pending or, in prim.serial, with a value.
IsNew(rec) == rec \in PrimRecords /\ rec.ok = <<>> /\ rec.fail = <<>>

\* The promises that prim and serial make are new: nothing waits for them (2759-2763, 2871-2879).
LEMMA NewPrims ==
  IsNew(NewPrim) /\ NewPrim.s = "pending" /\ IsNew([NewPrim EXCEPT !.s = "v", !.x = "none"])
<1>1. \A y \in Values : IsNew([s |-> "pending", x |-> y, ok |-> <<>>, fail |-> <<>>]) 
  BY DEF IsNew, PrimRecords
<1>2. \A y \in Values : [s |-> "pending", x |-> y, ok |-> <<>>, fail |-> <<>>].s = "pending"
  OBVIOUS
<1>3. \A rec : IsNew(rec) => IsNew([rec EXCEPT !.s = "v", !.x = "none"])
  <2> SUFFICES ASSUME NEW rec, IsNew(rec) PROVE IsNew([rec EXCEPT !.s = "v", !.x = "none"])
    OBVIOUS
  <2>1. "none" \in Values
    BY DEF Values
  <2>2. rec \in PrimRecords /\ rec.ok = <<>> /\ rec.fail = <<>>
    BY DEF IsNew
  <2> DEFINE new == [rec EXCEPT !.s = "v", !.x = "none"]
  <2>3. new \in PrimRecords /\ new.ok = rec.ok /\ new.fail = rec.fail
    BY <2>1, <2>2 DEF PrimRecords
  <2> QED BY <2>2, <2>3 DEF IsNew
<1>5. "" \in Values
  BY DEF Values
<1>6. IsNew(NewPrim) /\ NewPrim.s = "pending"
  BY <1>1, <1>2, <1>5, Zenon DEF NewPrim
<1> QED BY <1>3, <1>6

\* With a promise more, all is as it was.
LEMMA Made ==
  ASSUME NEW P, NEW s, NEW t, NEW R, NEW C, NEW A, NEW m, NEW n, Fine(P, s, t, R, C, A, m, n), NEW rec, IsNew(rec)
  PROVE  /\ Fine(Append(P, rec), s, t, R, C, Append(A, 0), m, n + 1)
         /\ n \in Nat /\ n > 1 /\ \A q \in 1 .. n : q \in 1 .. n + 1 /\ Append(P, rec)[q] = P[q] /\ Append(A, 0)[q] = A[q]
<1> DEFINE Q == Append(P, rec)
           B == Append(A, 0)
<1>1. /\ OK(P, s, t, R, C, A) /\ OneTry(s) /\ Held(P, s, A, m) /\ Len(P) = n /\ Sane(P, Work(s, t), R, C, A) /\ Len(P) > 1
      /\ s \in Seq(Tasks) /\ t \in Seq(Tasks)
  BY DEF Fine, OK
<1>2. P \in Seq(PrimRecords) /\ A \in Seq(Nat) /\ Len(A) = Len(P) /\ Len(P) \in Nat
  BY <1>1 DEF Sane, Typed
<1>3. rec \in PrimRecords /\ rec.ok = <<>> /\ rec.fail = <<>>
  BY DEF IsNew
<1>4. Len(Q) = n + 1 /\ \A q \in 1 .. n : q \in 1 .. n + 1 /\ Q[q] = P[q] /\ B[q] = A[q]
  BY <1>1, <1>2
<1>5. Sane(Q, Work(s, t), R, C, B) /\ (Ordered(P, Work(s, t), R, C) => Ordered(Q, Work(s, t), R, C))
  BY <1>1, <1>3, NewPromise
<1>7. OK(P, s, t, R, C, A) => \A l \in 1 .. Len(s) : s[l].t = "try" => s[l].p \in 1 .. n
  BY <1>1, TriesTyped
<1> HIDE DEF Q, B
<1>6. OK(Q, s, t, R, C, B)
  BY <1>1, <1>2, <1>4, <1>5 DEF OK
<1>8. Held(Q, s, B, m)
  BY <1>1, <1>4, <1>7 DEF Held, Done, Pending
<1> QED BY <1>1, <1>2, <1>4, <1>6, <1>8 DEF Q, B, Fine

\* Making a promise leaves what is to come for all others.
LEMMA MadeContinues ==
  ASSUME NEW P, NEW s, NEW t, NEW R, NEW C, NEW A, NEW m, NEW n, Fine(P, s, t, R, C, A, m, n), NEW rec, IsNew(rec)
  PROVE  Continues(P, s, t, R, A, Append(P, rec), s, t, R, Append(A, 0), C)
<1>1. Sane(P, Work(s, t), R, C, A) /\ P \in Seq(PrimRecords)
  BY DEF Fine, OK, Sane, Typed
<1>2. \A q \in 1 .. Len(P) : q \in 1 .. Len(Append(P, rec)) /\ Append(P, rec)[q] = P[q]
  BY <1>1
<1> DEFINE W == Work(s, t)
<1>3. Sane(P, W, R, C, A)
  BY <1>1
<1> HIDE DEF W
<1>4. \A E : Heard(P, W, R, C, A, E) => Heard(Append(P, rec), W, R, C, Append(A, 0), E)
  BY <1>3, MadeHeard
<1> QED BY <1>2, <1>4 DEF Continues, Same, W

\* Two steps of an action one after the other leave what each leaves.
LEMMA ContinuesOn ==
  ASSUME NEW P, NEW s, NEW t, NEW R, NEW A, NEW Q, NEW u, NEW v, NEW S, NEW B, NEW Z, NEW w, NEW y, NEW T, NEW D, NEW C,
         Continues(P, s, t, R, A, Q, u, v, S, B, C), Continues(Q, u, v, S, B, Z, w, y, T, D, C)
  PROVE  Continues(P, s, t, R, A, Z, w, y, T, D, C)
<1>1. \A E : Heard(P, Work(s, t), R, C, A, E) => Heard(Z, Work(w, y), T, C, D, E)
  BY DEF Continues
<1>2. Same(P, Z, R, T)
  BY DEF Continues, Same
<1>3. SettleUser(s) => SettleUser(w)
  BY DEF Continues
<1> QED BY <1>1, <1>2, <1>3 DEF Continues

\* The functions of a then: the program's, or those that settle a promise as another one is.
Handled(P, W, A, p, yes, no, arg) ==
  \/ arg = 0 /\ yes \in {"user", "none"} /\ no \in {"user", "none"}
  \/ /\ arg \in 1 .. Len(P) /\ yes = "settle" /\ no = "settle" /\ A[arg] = p
     /\ NoArg(P, W, arg) /\ Unsettled(P, W, arg)

\* What then does: it makes one promise and gives both callbacks, and all others go on (2818-2857).
LEMMA ThenIs ==
  ASSUME NEW P, NEW s, NEW t, NEW X, NEW R, NEW C, NEW A, NEW m, NEW n, Fine(P, s, t, R, C, A, m, n),
         NEW p \in 1 .. n, NEW yes, NEW no, NEW arg, Handled(P, Work(s, t), A, p, yes, no, arg)
  PROVE  \E Q, u, v, S : /\ then(St(P, s, t, X, R, C, A), p, yes, no, arg) = St(Q, u, v, X, S, C, Append(A, 0))
                         /\ Fine(Q, u, v, S, C, Append(A, 0), m, n + 1) /\ (u = s \/ CallsWith(u, arg))
                         /\ Continues(P, s, t, R, A, Q, u, v, S, Append(A, 0), C)
                         /\ arg # 0 => Adopting(Q, Work(u, v), Append(A, 0), arg)
<1> DEFINE Z == Append(P, NewPrim)
           B == Append(A, 0)
           e == n + 1
           W == Work(s, t)
           cbno == Cb(no, arg, e)
           cbyes == Cb(yes, arg, e)
<1>1. /\ OK(P, s, t, R, C, A) /\ Len(P) = n /\ Sane(P, W, R, C, A) /\ Len(P) > 1 /\ P \in Seq(PrimRecords) /\ A \in Seq(Nat) /\ Len(A) = Len(P)
  BY DEF Fine, OK, Sane, Typed
<1>2. /\ Fine(Z, s, t, R, C, B, m, e) /\ n \in Nat /\ n > 1
      /\ \A q \in 1 .. n : q \in 1 .. e /\ Z[q] = P[q] /\ B[q] = A[q]
  <2> DEFINE rec == NewPrim
  <2>1. IsNew(rec)
    BY NewPrims
  <2> HIDE DEF rec
  <2>2. Fine(Append(P, rec), s, t, R, C, Append(A, 0), m, n + 1)
    BY <2>1, Made
  <2>3. n \in Nat /\ n > 1
    BY <2>1, Made
  <2>4. \A q \in 1 .. n : q \in 1 .. n + 1 /\ Append(P, rec)[q] = P[q] /\ Append(A, 0)[q] = A[q]
    BY <1>1
  <2> QED BY <2>2, <2>3, <2>4 DEF rec
<1>3. /\ NotDue(Z, W, e) /\ ~CalledBack(C, e) /\ Untouched(Z, W, B, e) /\ \A r \in 1 .. Len(R) : R[r][3] # e
  <2> DEFINE rec == NewPrim
  <2>1. rec \in PrimRecords /\ rec.ok = <<>> /\ rec.fail = <<>> /\ rec.s = "pending" /\ Sane(P, W, R, C, A) /\ Len(P) > 1 /\ Len(P) = n
    BY <1>1, NewPrims DEF IsNew
  <2> HIDE DEF rec, W
  <2> QED BY <2>1, NewPromise DEF rec
<1>20. Continues(P, s, t, R, A, Z, s, t, R, B, C)
  <2> DEFINE rec == NewPrim
  <2>1. IsNew(rec)
    BY NewPrims
  <2> HIDE DEF rec
  <2>2. Continues(P, s, t, R, A, Append(P, rec), s, t, R, Append(A, 0), C)
    BY <2>1, MadeContinues
  <2> QED BY <2>2 DEF rec
<1>4. Len(Z) = e /\ Z[e] = NewPrim
  BY <1>1
<1>5. then(St(P, s, t, X, R, C, A), p, yes, no, arg) =
        addCallback(addCallback(St(Z, s, t, X, R, C, B), p, "fail", cbno), p, "ok", cbyes)
  <2>1. St(P, s, t, X, R, C, A).prims = P
    BY DEF St
  <2>2. [St(P, s, t, X, R, C, A) EXCEPT !.prims = Append(@, NewPrim), !.adopts = Append(@, 0)] = St(Z, s, t, X, R, C, B)
    <3>1. \A Q, D : [St(P, s, t, X, R, C, A) EXCEPT !.prims = Q, !.adopts = D] = St(Q, s, t, X, R, C, D)
      <4>1. \A Q : [St(P, s, t, X, R, C, A) EXCEPT !.prims = Q] = St(Q, s, t, X, R, C, A)
        BY DEF St
      <4>2. \A Q, D : [St(Q, s, t, X, R, C, A) EXCEPT !.adopts = D] = St(Q, s, t, X, R, C, D)
        BY DEF St
      <4> QED BY <4>1, <4>2
    <3>2. St(P, s, t, X, R, C, A).prims = P /\ St(P, s, t, X, R, C, A).adopts = A
      BY DEF St
    <3> QED BY <3>1, <3>2
  <2> QED BY <1>1, <2>1, <2>2 DEF then
<1> HIDE DEF Z, B, W
<1>6. Free(Z, W, R, C, B, p, "fail", cbno) /\ Free(Z, W, R, C, B, p, "ok", cbyes) /\ cbno.next = e /\ cbyes.next = e
        /\ cbno.arg = arg /\ cbyes.arg = arg /\ cbno \in Cbs /\ cbyes \in Cbs
  <2>1. arg \in Nat /\ (arg # 0 => arg \in 1 .. e /\ B[arg] = p /\ NoArg(Z, W, arg) /\ Unsettled(Z, W, arg))
    <3>1. CASE arg = 0
      BY <3>1
    <3>2. CASE arg # 0
      <4>1. arg \in 1 .. n /\ A[arg] = p /\ NoArg(P, W, arg) /\ Unsettled(P, W, arg)
        BY <3>2, <1>1 DEF Handled, W
      <4>2. NoArg(Z, W, arg)
        <5>1. \A q \in 1 .. Len(Z) : q \in 1 .. n \/ q = e
          BY <1>2, <1>4
        <5>2. \A k \in Kinds : /\ Len(ListOf(Z, e, k)) = 0
                               /\ \A q \in 1 .. n : ListOf(Z, q, k) = ListOf(P, q, k)
          BY <1>2, <1>4, NewPrims DEF ListOf, Kinds, IsNew
        <5> QED BY <1>1, <4>1, <5>1, <5>2 DEF NoArg
      <4> QED BY <1>2, <4>1, <4>2 DEF Unsettled, Pending
    <3> QED BY <3>1, <3>2
  <2>2. \A h \in {"user", "none", "settle"}, k \in Kinds : (h = "settle" <=> arg # 0) =>
          /\ Free(Z, W, R, C, B, p, k, Cb(h, arg, e)) /\ Cb(h, arg, e) \in Cbs /\ Cb(h, arg, e).next = e /\ Cb(h, arg, e).arg = arg
    <3> SUFFICES ASSUME NEW h \in {"user", "none", "settle"}, NEW k \in Kinds, h = "settle" <=> arg # 0
                 PROVE  /\ Free(Z, W, R, C, B, p, k, Cb(h, arg, e)) /\ Cb(h, arg, e) \in Cbs
                        /\ Cb(h, arg, e).next = e /\ Cb(h, arg, e).arg = arg
      OBVIOUS
    <3> DEFINE cb == Cb(h, arg, e)
    <3>0. e \in Nat /\ e # 0 /\ h \in Handlers
      <4>1. \A g \in {"user", "none", "settle"} : g \in Handlers
        BY Zenon DEF Handlers
      <4> QED BY <1>2, <4>1
    <3>1. cb \in Cbs /\ cb.next = e /\ cb.arg = arg /\ cb.h = h
      BY <2>1, <3>0 DEF Cb, Cbs
    <3> HIDE DEF cb
    <3>2. CbOK(cb, k)
      BY <3>0, <3>1 DEF CbOK
    <3>3. Belong(Z, W, arg, e) \/ arg = 0
      BY <2>1 DEF Belong, NoArg
    <3>4. e \in 1 .. e /\ p < e /\ e > 2
      BY <1>2
    <3>5. Free(Z, W, R, C, B, p, k, cb)
      BY <1>3, <1>4, <2>1, <3>0, <3>1, <3>2, <3>3, <3>4 DEF Free
    <3> QED BY <3>1, <3>5 DEF cb
  <2>3. yes \in {"user", "none", "settle"} /\ no \in {"user", "none", "settle"} /\ (yes = "settle" <=> arg # 0) /\ (no = "settle" <=> arg # 0)
    BY <1>1 DEF Handled
  <2> QED BY <2>2, <2>3 DEF Kinds
<1>7. "ok" \in Kinds /\ "fail" \in Kinds /\ p \in 1 .. Len(Z)
  BY <1>2, <1>4 DEF Kinds
<1> HIDE DEF cbno, cbyes
<1>8. PICK Q1, u1, v1, S1 :
        /\ addCallback(St(Z, s, t, X, R, C, B), p, "fail", cbno) = St(Q1, u1, v1, X, S1, C, B)
        /\ Fine(Q1, u1, v1, S1, C, B, m, e) /\ (u1 = s \/ CallsWith(u1, arg))
        /\ Free(Q1, Work(u1, v1), S1, C, B, p, "ok", cbyes)
        /\ Continues(Z, s, t, R, B, Q1, u1, v1, S1, B, C) /\ Hooked(Q1, Work(u1, v1), p, "fail", arg)
  <2>1. Fine(Z, s, t, R, C, B, m, e) /\ Free(Z, Work(s, t), R, C, B, p, "fail", cbno)
    BY <1>2, <1>6 DEF W
  <2>2. PICK st : st = addCallback(St(Z, s, t, X, R, C, B), p, "fail", cbno)
    OBVIOUS
  <2>3. PICK Q, u, v :
           /\ st = St(Q, u, v, X, Append(R, <<p, "fail", cbno.next>>), C, B)
           /\ Fine(Q, u, v, Append(R, <<p, "fail", cbno.next>>), C, B, m, e)
           /\ u = s \/ CallsWith(u, cbno.arg)
           /\ Continues(Z, s, t, R, B, Q, u, v, Append(R, <<p, "fail", cbno.next>>), B, C) /\ Hooked(Q, Work(u, v), p, "fail", cbno.arg)
           /\ \A k \in Kinds : \A other : /\ k # "fail" /\ other.next = cbno.next /\ other.arg = cbno.arg
                                           /\ Free(Z, Work(s, t), R, C, B, p, k, other)
                => Free(Q, Work(u, v), Append(R, <<p, "fail", cbno.next>>), C, B, p, k, other)
    BY <1>7, <2>1, <2>2, Adding
  <2>4. Free(Q, Work(u, v), Append(R, <<p, "fail", cbno.next>>), C, B, p, "ok", cbyes)
    BY <1>6, <1>7, <2>3 DEF W
  <2> QED BY <1>6, <2>2, <2>3, <2>4
<1>9. PICK Q2, u2, v2, S2 :
        /\ addCallback(St(Q1, u1, v1, X, S1, C, B), p, "ok", cbyes) = St(Q2, u2, v2, X, S2, C, B)
        /\ Fine(Q2, u2, v2, S2, C, B, m, e) /\ (u2 = u1 \/ CallsWith(u2, arg))
        /\ Continues(Q1, u1, v1, S1, B, Q2, u2, v2, S2, B, C)
        /\ Extends(Q2, Work(u2, v2), Q1, Work(u1, v1)) /\ Hooked(Q2, Work(u2, v2), p, "ok", arg)
  <2>1. Fine(Q1, u1, v1, S1, C, B, m, e) /\ Free(Q1, Work(u1, v1), S1, C, B, p, "ok", cbyes) /\ p \in 1 .. Len(Q1)
    BY <1>4, <1>7, <1>8 DEF Fine
  <2>2. PICK st : st = addCallback(St(Q1, u1, v1, X, S1, C, B), p, "ok", cbyes)
    OBVIOUS
  <2>3. PICK Q, u, v :
           /\ st = St(Q, u, v, X, Append(S1, <<p, "ok", cbyes.next>>), C, B)
           /\ Fine(Q, u, v, Append(S1, <<p, "ok", cbyes.next>>), C, B, m, e)
           /\ u = u1 \/ CallsWith(u, cbyes.arg)
           /\ Continues(Q1, u1, v1, S1, B, Q, u, v, Append(S1, <<p, "ok", cbyes.next>>), B, C)
           /\ Extends(Q, Work(u, v), Q1, Work(u1, v1)) /\ Hooked(Q, Work(u, v), p, "ok", cbyes.arg)
    BY <1>7, <2>1, <2>2, Adding
  <2> QED BY <1>6, <2>2, <2>3
<1>10. then(St(P, s, t, X, R, C, A), p, yes, no, arg) = St(Q2, u2, v2, X, S2, C, B)
  BY <1>5, <1>8, <1>9
<1>11. Continues(P, s, t, R, A, Q2, u2, v2, S2, B, C)
  <2>1. Continues(P, s, t, R, A, Q1, u1, v1, S1, B, C)
    BY <1>8, <1>20, ContinuesOn
  <2> QED BY <1>9, <2>1, ContinuesOn
<1>12. arg # 0 => Adopting(Q2, Work(u2, v2), B, arg)
  <2> SUFFICES ASSUME arg # 0 PROVE Adopting(Q2, Work(u2, v2), B, arg)
    OBVIOUS
  <2> DEFINE V1 == Work(u1, v1)
             V2 == Work(u2, v2)
  <2>1. B[arg] = p
    <3>1. arg \in 1 .. n /\ A[arg] = p
      BY <1>1 DEF Handled
    <3> QED BY <1>2, <3>1
  <2>2. Sane(Q1, V1, S1, C, B) /\ Extends(Q2, V2, Q1, V1) /\ Hooked(Q1, V1, p, "fail", arg) /\ Hooked(Q2, V2, p, "ok", arg)
          /\ Len(Q1) = e /\ p \in 1 .. Len(Q1)
    <3>1. Sane(Q1, V1, S1, C, B) /\ Len(Q1) = e
      BY <1>8 DEF Fine, OK
    <3>2. p \in 1 .. Len(Q1)
      BY <1>2, <3>1
    <3> QED BY <1>8, <1>9, <3>1, <3>2
  <2> HIDE DEF V1, V2
  <2>3. Q2[p].s = Q1[p].s /\ Q1[p].s \in {"pending", "v", "e"}
    <3>1. Q1 \in Seq(PrimRecords)
      BY <2>2 DEF Sane, Typed
    <3>2. Q1[p] \in PrimRecords
      BY <2>2, <3>1
    <3> QED BY <2>2, <3>2 DEF PrimRecords, Extends
  <2>4. IsArg(Q1, V1, arg) => IsArg(Q2, V2, arg)
    BY <2>2, ExtendsKeeps
  <2>5. CASE Q1[p].s = "pending"
    <3>1. \E j \in 1 .. Len(ListOf(Q2, p, "ok")) : ListOf(Q2, p, "ok")[j].arg = arg
      BY <2>2, <2>3, <2>5 DEF Hooked, Matches
    <3>2. PICK j \in 1 .. Len(ListOf(Q1, p, "fail")) : ListOf(Q1, p, "fail")[j].arg = arg
      BY <2>2, <2>5 DEF Hooked, Matches
    <3>3. j \in 1 .. Len(ListOf(Q2, p, "fail")) /\ ListOf(Q2, p, "fail")[j].arg = arg
      BY <1>7, <2>2, <3>2 DEF Extends
    <3> QED BY <2>1, <2>3, <2>5, <3>1, <3>3 DEF Adopting, Pending, Hangs, Kinds
  <2>6. CASE Q1[p].s = "v"
    <3>1. IsArg(Q2, V2, arg)
      BY <2>2, <2>3, <2>6 DEF Hooked, Matches
    <3> QED BY <2>1, <2>3, <2>6, <3>1 DEF Adopting, Pending, V2
  <2>7. CASE Q1[p].s = "e"
    <3>1. IsArg(Q1, V1, arg)
      BY <2>2, <2>7 DEF Hooked, Matches
    <3> QED BY <2>1, <2>3, <2>4, <2>7, <3>1 DEF Adopting, Pending, V2
  <2> QED BY <2>3, <2>5, <2>6, <2>7 DEF V2
<1> QED BY <1>8, <1>9, <1>10, <1>11, <1>12 DEF B

-----------------------------------------------------------------------------
(* What is to come, action by action.                                      *)

\* While no error is thrown, none of its promises is excepted.
LEMMA Unthrown ==
  ASSUME NEW P, NEW s, NEW t, NEW R, NEW C, NEW A, NEW X, ~Fails(X)
  PROVE  Lives(P, s, t, R, C, A) <=> Living(P, s, t, R, C, A, X)
<1>1. Lost(s, X) = {}
  BY DEF Lost
<1> QED BY <1>1 DEF Lives, Living, Thrown

\* Nothing was thrown before an action.
LEMMA LivelyBecomes ==
  ASSUME Lively, ~Fails(exc), NEW P, NEW s, NEW t, NEW R, NEW C, NEW A, NEW X, Become(St(P, s, t, X, R, C, A)),
         sync' = sync, escaped' = escaped, \A r \in 1 .. Len(regs) : r \in 1 .. Len(R) /\ R[r] = regs[r],
         Good(s, R, X, escaped) /\ Lives(prims, stack, ticks, regs, calls, adopts) => Living(P, s, t, R, C, A, X)
  PROVE  Lively'
<1>1. /\ prims' = P /\ stack' = s /\ ticks' = t /\ exc' = X /\ regs' = R /\ calls' = C /\ adopts' = A
  BY StateIs
<1>2. ASSUME Good(s, R, X, escaped) PROVE Living(P, s, t, R, C, A, X)
  <2>1. Good(stack, regs, exc, escaped)
    BY <1>2 DEF Good
  <2>2. Living(prims, stack, ticks, regs, calls, adopts, exc)
    BY <2>1 DEF Lively
  <2>3. Lives(prims, stack, ticks, regs, calls, adopts)
    BY <2>2, Unthrown
  <2> QED BY <1>2, <2>3
<1>3. Lively' <=> (Good(s, R, X, escaped) => Living(P, s, t, R, C, A, X))
  BY <1>1 DEF Lively, Good, Living
<1> QED BY <1>2, <1>3

\* Nothing is thrown.
LEMMA LivesOn ==
  ASSUME Lively, ~Fails(exc), NEW P, NEW s, NEW t, NEW R, NEW C, NEW A, Become(St(P, s, t, exc, R, C, A)),
         sync' = sync, escaped' = escaped, \A r \in 1 .. Len(regs) : r \in 1 .. Len(R) /\ R[r] = regs[r],
         Lives(prims, stack, ticks, regs, calls, adopts) => Lives(P, s, t, R, C, A)
  PROVE  Lively'
<1>1. Lives(prims, stack, ticks, regs, calls, adopts) => Living(P, s, t, R, C, A, exc)
  BY Unthrown
<1> QED BY <1>1, LivelyBecomes

\* The program adds a then, or end.
LEMMA OwnLives ==
  ASSUME Lively, Own, NEW P, NEW s, NEW t, NEW R, NEW A, Become(St(P, s, t, exc, R, calls, A)),
         sync' = sync, escaped' = escaped, Continues(prims, stack, ticks, regs, adopts, P, s, t, R, A, calls)
  PROVE  Lively'
<1>1. ~Fails(exc)
  BY Zenon DEF Own, Fails
<1>2. Lives(prims, stack, ticks, regs, calls, adopts) => Lives(P, s, t, R, calls, A)
  BY DEF Lives, Continues
<1>3. \A r \in 1 .. Len(regs) : r \in 1 .. Len(R) /\ R[r] = regs[r]
  BY DEF Continues, Same
<1> QED BY <1>1, <1>2, <1>3, LivesOn

\* Promises that are the same, but for new ones, stay settled as they were.
LEMMA SameKept ==
  ASSUME Consistent, NEW Q, NEW R, NEW S, prims' = Q, Same(prims, Q, R, S)
  PROVE  Kept
<1>1. DOMAIN prims = 1 .. Len(prims)
  BY DEF Consistent, OK, Sane, Typed
<1> QED BY <1>1 DEF Same, Kept

\* The innermost task is left.
LEMMA TopLess ==
  ASSUME Consistent, Running, NEW E, NEW F, Heard(prims, Work(stack, ticks), regs, calls, adopts, E), E \subseteq F,
         Top.t = "settle" => Top.p \in F, Top.t = "user" => Top.cb.next \in F,
         Top.t = "call" => Top.cb.next \in F /\ Top.cb.arg \in F,
         Top.t = "each" => Top.i > Len(ListOf(prims, Top.p, Top.how))
  PROVE  Heard(prims, Work(Front(stack), ticks), regs, calls, adopts, F)
<1> DEFINE W == Work(stack, ticks)
           V == Work(Front(stack), ticks)
           l == Len(stack)
<1>1. W[l] = Top /\ Without(V, W, l) /\ Sane(prims, W, regs, calls, adopts) /\ Top \in Tasks /\ l \in DOMAIN W
  BY TopIs
<1> HIDE DEF W, V, l
<1>2. ASSUME NEW j \in Due(prims, W, l) PROVE DueCb(prims, W, l, j).next \in F /\ DueCb(prims, W, l, j).arg \in F
  <2>1. CASE Top.t = "call"
    BY <1>1, <2>1 DEF DueCb
  <2>2. CASE Top.t = "each"
    <3>1. /\ j \in 1 .. Len(ListOf(prims, Top.p, Top.how)) /\ j >= Top.i /\ Top.p \in 1 .. Len(prims) /\ Top.how \in Kinds
      BY <1>1, <1>2, <2>2, DueIs
    <3>2. Top.i \in Nat /\ prims \in Seq(PrimRecords)
      BY <1>1 DEF Tasks, Sane, Typed
    <3>3. Len(ListOf(prims, Top.p, Top.how)) \in Nat
      <4>1. prims[Top.p] \in PrimRecords
        BY <3>1, <3>2
      <4>2. ListOf(prims, Top.p, Top.how) \in Seq(Cbs)
        BY <4>1 DEF PrimRecords, ListOf
      <4> QED BY <4>2
    <3> QED BY <2>2, <3>1, <3>2, <3>3
  <2>3. CASE Top.t # "call" /\ Top.t # "each"
    BY <1>1, <1>2, <2>3 DEF Due
  <2> QED BY <2>1, <2>2, <2>3
<1>3. Heard(prims, W, regs, calls, adopts, E)
  BY DEF W
<1>4. Heard(prims, V, regs, calls, adopts, F)
  BY <1>1, <1>2, <1>3, HeardLess
<1> QED BY <1>4 DEF V

\* Without its innermost task, the stack of a state has the tasks of the program in their places.
LEMMA TopUser ==
  ASSUME Consistent, Running, SettleUser(stack)
  PROVE  SettleUser(Front(stack))
BY TopIs, SettleUserPop

\* A promise that is excepted adopts another one.
LEMMA HeardAdopts ==
  ASSUME NEW P, NEW W, NEW R, NEW C, NEW A, NEW B, NEW n, Sane(P, W, R, C, A), Heard(P, W, R, C, A, {n}),
         \A m \in 1 .. Len(P) : m # n => B[m] = A[m]
  PROVE  Heard(P, W, R, C, B, {n})
<1>1. /\ \A r \in 1 .. Len(R) : R[r][3] # 0 /\ R[r][3] \notin {n} /\ Matches(R[r][2], P[R[r][1]].s) => Comes(P, W, A, R[r][3])
      /\ \A m \in 1 .. Len(P) : A[m] # 0 /\ m \notin {n} => Adopting(P, W, A, m)
      /\ PassesOn(P, W, R, C) /\ SettleOnce(P, W) /\ EndGiven(W, R)
  BY DEF Heard
<1>2. \A r \in 1 .. Len(R) : R[r][3] # 0 => R[r][3] \in 1 .. Len(P)
  BY DEF Sane, RegsOK
<1>3. \A r \in 1 .. Len(R) : R[r][3] # 0 /\ R[r][3] \notin {n} /\ Matches(R[r][2], P[R[r][1]].s) => Comes(P, W, B, R[r][3])
  BY <1>1, <1>2 DEF Comes
<1>4. \A m \in 1 .. Len(P) : B[m] # 0 /\ m \notin {n} => Adopting(P, W, B, m)
  BY <1>1 DEF Adopting
<1> QED BY <1>1, <1>3, <1>4 DEF Heard

-----------------------------------------------------------------------------
\* A state to which an action leads.
LEMMA Leads ==
  ASSUME NEW P, NEW s, NEW t, NEW X \in Values, NEW R, NEW C, NEW A, Become(St(P, s, t, X, R, C, A)), sync' = sync,
         NEW m \in Nat, NEW n, Fine(P, s, t, R, C, A, m, n), m # 0 => ~Fails(X) /\ Deciding(s, m)
  PROVE  Consistent'
<1>1. OK(P, s, t, R, C, A)
  BY DEF Fine
<1>2. TriesOK(P, s, X, A)
  BY DEF Fine, TriesOK
<1> QED BY <1>1, <1>2, Becomes

\* Where the program may act, the state is as then and callback expect it.
LEMMA OwnFine ==
  ASSUME Consistent, Own
  PROVE  /\ Fine(prims, stack, ticks, regs, calls, adopts, 0, Len(prims)) /\ exc \in Values
         /\ Here = St(prims, stack, ticks, exc, regs, calls, adopts) /\ DOMAIN prims = 1 .. Len(prims)
<1>1. Here = St(prims, stack, ticks, exc, regs, calls, adopts)
  BY StateIs
<1>2. OneTry(stack) /\ Held(prims, stack, adopts, 0) /\ OK(prims, stack, ticks, regs, calls, adopts) /\ exc \in Values
  BY OwnTries
<1>3. DOMAIN prims = 1 .. Len(prims)
  BY <1>2 DEF OK, Sane, Typed
<1> QED BY <1>1, <1>2, <1>3 DEF Fine

\* then keeps both invariants, and what is settled.
LEMMA ThenStep ==
  ASSUME Consistent, Then
  PROVE  Consistent' /\ Kept /\ (Lively => Lively')
<1>1. PICK p \in DOMAIN prims, yes \in {"user", "none"}, no \in {"user", "none"} :
        Own /\ Become(then(Here, p, yes, no, 0)) /\ sync' = sync /\ escaped' = escaped
  BY DEF Then, Operation
<1>2. /\ Fine(prims, stack, ticks, regs, calls, adopts, 0, Len(prims)) /\ exc \in Values
      /\ Here = St(prims, stack, ticks, exc, regs, calls, adopts) /\ p \in 1 .. Len(prims)
  BY <1>1, OwnFine
<1>3. Handled(prims, Work(stack, ticks), adopts, p, yes, no, 0)
  BY DEF Handled
<1>4. PICK st : st = then(St(prims, stack, ticks, exc, regs, calls, adopts), p, yes, no, 0)
  OBVIOUS
<1>5. PICK Q, u, v, S : /\ st = St(Q, u, v, exc, S, calls, Append(adopts, 0))
                        /\ Fine(Q, u, v, S, calls, Append(adopts, 0), 0, Len(prims) + 1)
                        /\ Continues(prims, stack, ticks, regs, adopts, Q, u, v, S, Append(adopts, 0), calls)
  BY <1>2, <1>3, <1>4, ThenIs
<1>6. Become(St(Q, u, v, exc, S, calls, Append(adopts, 0)))
  BY <1>1, <1>2, <1>4, <1>5
<1>7. 0 \in Nat
  OBVIOUS
<1>9. Consistent'
  BY <1>1, <1>2, <1>5, <1>6, <1>7, Leads
<1>10. Kept
  <2>1. prims' = Q
    BY <1>6, StateIs
  <2> QED BY <1>5, <2>1, SameKept DEF Continues
<1>11. Lively => Lively'
  BY <1>1, <1>5, <1>6, OwnLives
<1> QED BY <1>9, <1>10, <1>11

\* end keeps both invariants, and what is settled.
LEMMA EndStep ==
  ASSUME Consistent, End
  PROVE  Consistent' /\ Kept /\ (Lively => Lively')
<1> DEFINE cb == Cb("end", 0, 0)
<1>1. PICK p \in DOMAIN prims : Own /\ Become(addCallback(Here, p, "fail", cb)) /\ sync' = sync /\ escaped' = escaped
  BY DEF End, Operation
<1>2. /\ Fine(prims, stack, ticks, regs, calls, adopts, 0, Len(prims)) /\ exc \in Values
      /\ Here = St(prims, stack, ticks, exc, regs, calls, adopts) /\ p \in 1 .. Len(prims)
  BY <1>1, OwnFine
<1>3. Free(prims, Work(stack, ticks), regs, calls, adopts, p, "fail", cb)
  <2>1. "end" \in Handlers
    BY Zenon DEF Handlers
  <2>2. cb \in Cbs /\ cb.h = "end" /\ cb.next = 0 /\ cb.arg = 0
    BY <2>1 DEF Cb, Cbs
  <2> HIDE DEF cb
  <2> QED BY <2>2 DEF Free, CbOK
<1> HIDE DEF cb
<1>4. PICK st : st = addCallback(St(prims, stack, ticks, exc, regs, calls, adopts), p, "fail", cb)
  OBVIOUS
<1>8. "fail" \in Kinds
  BY DEF Kinds
<1>5. PICK Q, u, v : /\ st = St(Q, u, v, exc, Append(regs, <<p, "fail", cb.next>>), calls, adopts)
                     /\ Fine(Q, u, v, Append(regs, <<p, "fail", cb.next>>), calls, adopts, 0, Len(prims))
                     /\ Continues(prims, stack, ticks, regs, adopts, Q, u, v, Append(regs, <<p, "fail", cb.next>>), adopts, calls)
  BY <1>2, <1>3, <1>4, <1>8, Adding
<1>6. Become(St(Q, u, v, exc, Append(regs, <<p, "fail", cb.next>>), calls, adopts))
  BY <1>1, <1>2, <1>4, <1>5
<1>7. 0 \in Nat
  OBVIOUS
<1>9. Consistent'
  BY <1>1, <1>2, <1>5, <1>6, <1>7, Leads
<1>10. Kept
  <2>1. prims' = Q
    BY <1>6, StateIs
  <2> QED BY <1>5, <2>1, SameKept DEF Continues
<1>11. Lively => Lively'
  BY <1>1, <1>5, <1>6, OwnLives
<1> QED BY <1>9, <1>10, <1>11

\* A promise settled by the program keeps both invariants, and what is settled.
LEMMA SettleOwn ==
  ASSUME Consistent, Settle
  PROVE  Consistent' /\ Kept /\ (Lively => Lively')
<1>1. PICK p \in DOMAIN prims, how \in {"v", "e"} :
        /\ adopts[p] = 0 /\ p <= 2 /\ Own /\ sync' = sync /\ escaped' = escaped
        /\ Become(Push(Here, SettleTask(p, how, IF how = "v" THEN "value" ELSE "err")))
  BY DEF Settle, Operation
<1> DEFINE x == IF how = "v" THEN "value" ELSE "err"
           task == SettleTask(p, how, x)
           W == Work(stack, ticks)
<1>2. /\ Fine(prims, stack, ticks, regs, calls, adopts, 0, Len(prims)) /\ exc \in Values
      /\ Here = St(prims, stack, ticks, exc, regs, calls, adopts) /\ p \in 1 .. Len(prims)
  BY <1>1, OwnFine
<1>3. Become(St(prims, Append(stack, task), ticks, exc, regs, calls, adopts))
  BY <1>1, <1>2, StateIs
<1>4. task \in Tasks /\ task.t = "settle" /\ task.p = p /\ task.how = how
  <2>1. x \in Values
    BY DEF Values
  <2> HIDE DEF x
  <2> QED BY <1>2, <2>1, TaskTypes
<1> HIDE DEF task, x
<1>5. /\ OK(prims, stack, ticks, regs, calls, adopts) /\ Sane(prims, W, regs, calls, adopts) /\ stack \in Seq(Tasks)
      /\ OneTry(stack) /\ Held(prims, stack, adopts, 0)
  BY <1>2 DEF Fine, OK
<1>6. NotWaiting(prims, W, p) /\ NotArgued(prims, W, p) /\ ~IsTask(W, "user", p)
  BY <1>1, <1>2, <1>5, TaskFacts
<1>7. OK(prims, Append(stack, task), ticks, regs, calls, adopts)
  BY <1>1, <1>2, <1>4, <1>5, <1>6, Begun
<1>8. TriesOK(prims, Append(stack, task), exc, adopts)
  <2>1. task.t # "try"
    BY <1>4
  <2>2. OneTry(Append(stack, task)) /\ Held(prims, Append(stack, task), adopts, 0)
    BY <1>4, <1>5, <2>1, TriesPush
  <2> QED BY <2>2 DEF TriesOK
<1>9. Consistent'
  BY <1>1, <1>2, <1>3, <1>7, <1>8, Becomes
<1>10. Kept
  BY <1>3, StateIs DEF Kept
<1>11. ASSUME Lively PROVE Lively'
  <2> DEFINE V == Work(Append(stack, task), ticks)
             a == Len(stack) + 1
  <2>1. Added(V, W, a) /\ V[a] = task
    BY <1>4, <1>5, WorkPush DEF OK
  <2> HIDE DEF V, a, W
  <2>2. \A r \in 1 .. Len(regs) : ~(regs[r][3] # 0 /\ regs[r][3] = p)
    <3>1. \A r \in 1 .. Len(regs) : regs[r][3] # 0 => regs[r][3] > 2
      BY <1>5 DEF Sane, RegsOK
    <3> QED BY <1>1, <1>2, <3>1
  <2>3. Met(prims, V, adopts, {}, {}) /\ ~(p > 2)
    BY <1>1, <1>2 DEF Met
  <2>4. \A D : Heard(prims, W, regs, calls, adopts, {}) => Heard(prims, V, regs, calls, adopts, {})
    BY <1>4, <2>1, <2>2, <2>3, HeardAdded
  <2>5. stack = <<>> \/ (stack # <<>> /\ stack[Len(stack)].t = "user")
    BY <1>1, TopIs DEF Own, InUser, Running
  <2>6. SettleUser(stack) => SettleUser(Append(stack, task))
    BY <1>4, <1>5, <2>5, SettleUserPush
  <2>7. Lives(prims, stack, ticks, regs, calls, adopts) => Lives(prims, Append(stack, task), ticks, regs, calls, adopts)
    BY <2>4, <2>6 DEF Lives, V, W
  <2>8. ~Fails(exc)
    BY <1>1, Zenon DEF Own, Fails
  <2> QED BY <1>1, <1>3, <1>11, <2>7, <2>8, LivesOn
<1> QED BY <1>9, <1>10, <1>11

\* serial keeps both invariants, and what is settled.
LEMMA SerialStep ==
  ASSUME Consistent, serial
  PROVE  Consistent' /\ Kept /\ (Lively => Lively')
<1> DEFINE n == Len(prims) + 1
           rec == [NewPrim EXCEPT !.s = "v", !.x = "none"]
           begun == [Here EXCEPT !.prims = Append(@, rec), !.adopts = Append(@, 0)]
           first == then(begun, n, "user", "none", 0)
           P == Append(prims, rec)
           A == Append(adopts, 0)
           B == Append(A, 0)
           D == Append(B, 0)
<1>1. Own /\ Become(then(first, n + 1, "user", "none", 0)) /\ sync' = sync /\ escaped' = escaped
  BY DEF serial, Operation
<1>2. /\ Fine(prims, stack, ticks, regs, calls, adopts, 0, Len(prims)) /\ exc \in Values
      /\ Here = St(prims, stack, ticks, exc, regs, calls, adopts)
  BY <1>1, OwnFine
<1>3. IsNew(rec)
  BY NewPrims
<1> HIDE DEF rec, first
<1>4. Fine(P, stack, ticks, regs, calls, A, 0, n) /\ Len(prims) \in Nat
  <2>1. Fine(P, stack, ticks, regs, calls, A, 0, n)
    BY <1>2, <1>3, Made
  <2>2. Len(prims) \in Nat
    BY <1>2, <1>3, Made
  <2> QED BY <2>1, <2>2
<1>20. Continues(prims, stack, ticks, regs, adopts, P, stack, ticks, regs, A, calls)
  BY <1>2, <1>3, MadeContinues DEF P, A
<1>5. begun = St(P, stack, ticks, exc, regs, calls, A)
  <2>1. \A Q : [St(prims, stack, ticks, exc, regs, calls, adopts) EXCEPT !.prims = Q] = St(Q, stack, ticks, exc, regs, calls, adopts)
    BY DEF St
  <2>2. \A Q, E : [St(Q, stack, ticks, exc, regs, calls, adopts) EXCEPT !.adopts = E] = St(Q, stack, ticks, exc, regs, calls, E)
    BY DEF St
  <2>3. St(prims, stack, ticks, exc, regs, calls, adopts).prims = prims /\ St(prims, stack, ticks, exc, regs, calls, adopts).adopts = adopts
    BY DEF St
  <2>4. \A Q, E : [St(prims, stack, ticks, exc, regs, calls, adopts) EXCEPT !.prims = Q, !.adopts = E] =
                    St(Q, stack, ticks, exc, regs, calls, E)
    BY <2>1, <2>2
  <2>5. begun = [St(prims, stack, ticks, exc, regs, calls, adopts) EXCEPT !.prims = Append(@, rec), !.adopts = Append(@, 0)]
    BY <1>2
  <2>6. [St(prims, stack, ticks, exc, regs, calls, adopts) EXCEPT !.prims = Append(@, rec), !.adopts = Append(@, 0)] =
          [St(prims, stack, ticks, exc, regs, calls, adopts) EXCEPT !.prims = P, !.adopts = A]
    BY <2>3
  <2> HIDE DEF P, A, begun
  <2> QED BY <2>4, <2>5, <2>6
<1> HIDE DEF P, A, begun
<1>6. PICK Q, u, v, S : /\ first = St(Q, u, v, exc, S, calls, B)
                        /\ Fine(Q, u, v, S, calls, B, 0, n + 1)
                        /\ Continues(P, stack, ticks, regs, A, Q, u, v, S, B, calls)
  <2>1. n \in 1 .. n /\ Handled(P, Work(stack, ticks), A, n, "user", "none", 0)
    BY <1>4 DEF Handled
  <2>2. PICK st : st = then(St(P, stack, ticks, exc, regs, calls, A), n, "user", "none", 0)
    OBVIOUS
  <2> HIDE DEF n
  <2>3. \E Q, u, v, S : /\ st = St(Q, u, v, exc, S, calls, B)
                        /\ Fine(Q, u, v, S, calls, B, 0, n + 1)
                        /\ Continues(P, stack, ticks, regs, A, Q, u, v, S, B, calls)
    BY <1>4, <2>1, <2>2, ThenIs
  <2> QED BY <1>5, <2>2, <2>3 DEF first
<1> HIDE DEF B
<1>7. PICK Q2, u2, v2, S2 : /\ then(first, n + 1, "user", "none", 0) = St(Q2, u2, v2, exc, S2, calls, D)
                            /\ Fine(Q2, u2, v2, S2, calls, D, 0, n + 1 + 1)
                            /\ Continues(Q, u, v, S, B, Q2, u2, v2, S2, D, calls)
  <2>1. n + 1 \in 1 .. n + 1 /\ Handled(Q, Work(u, v), B, n + 1, "user", "none", 0)
    BY <1>4 DEF Handled
  <2> DEFINE e == n + 1
  <2>2. PICK st : st = then(St(Q, u, v, exc, S, calls, B), e, "user", "none", 0)
    OBVIOUS
  <2> HIDE DEF e
  <2>3. \E Q2, u2, v2, S2 : /\ st = St(Q2, u2, v2, exc, S2, calls, D)
                            /\ Fine(Q2, u2, v2, S2, calls, D, 0, e + 1)
                            /\ Continues(Q, u, v, S, B, Q2, u2, v2, S2, D, calls)
    <3>1. Fine(Q, u, v, S, calls, B, 0, e) /\ e \in 1 .. e /\ Handled(Q, Work(u, v), B, e, "user", "none", 0)
      BY <1>6, <2>1 DEF e
    <3> QED BY <2>2, <3>1, ThenIs
  <2> QED BY <1>6, <2>2, <2>3 DEF e
<1>8. Become(St(Q2, u2, v2, exc, S2, calls, D)) /\ 0 \in Nat
  BY <1>1, <1>7
<1>9. Consistent'
  BY <1>1, <1>2, <1>7, <1>8, Leads
<1>10. Continues(prims, stack, ticks, regs, adopts, Q2, u2, v2, S2, D, calls)
  <2>1. Continues(prims, stack, ticks, regs, adopts, Q, u, v, S, B, calls)
    BY <1>6, <1>20, ContinuesOn
  <2> QED BY <1>7, <2>1, ContinuesOn
<1>11. Kept
  <2>1. prims' = Q2
    BY <1>8, StateIs
  <2> QED BY <1>10, <2>1, SameKept DEF Continues
<1>12. Lively => Lively'
  BY <1>1, <1>8, <1>10, OwnLives
<1> QED BY <1>9, <1>11, <1>12

\* A function returns a promise: the then it runs for is settled as that promise is.
LEMMA ReturnPrimStep ==
  ASSUME Consistent, ReturnPrim
  PROVE  Consistent' /\ Kept /\ (Lively => Lively')
<1> DEFINE n == Top.cb.next
           s == Front(stack)
           V == Work(Front(stack), ticks)
<1>1. Running /\ Top.t = "user" /\ ~Fails(exc)
  BY Zenon DEF ReturnPrim, Returned, InUser, Fails
<1>2. PICK q \in DOMAIN prims :
        /\ Become(then([Pop(Here) EXCEPT !.adopts[n] = q], q, "settle", "settle", n)) /\ sync' = sync /\ escaped' = escaped
  BY DEF ReturnPrim
<1> DEFINE B == [adopts EXCEPT ![n] = q]
<1>3. /\ n \in 1 .. Len(prims) /\ n > 2 /\ Pending(prims, n) /\ adopts[n] = 0
      /\ NotWaiting(prims, V, n) /\ NoArg(prims, V, n)
      /\ ~IsTask(V, "user", n) /\ ~IsTask(V, "settle", n) /\ CalledBack(calls, n)
      /\ s # <<>> /\ s[Len(s)].t = "try" /\ s[Len(s)].p = n /\ s \in Seq(Tasks)
      /\ OneTry(s) /\ Held(prims, s, adopts, 0) /\ OK(prims, s, ticks, regs, calls, adopts)
  BY <1>1, UserTop
<1>4. /\ Sane(prims, V, regs, calls, adopts) /\ q \in 1 .. Len(prims) /\ n \in Nat /\ exc \in Values /\ n # 0
  <2>1. Sane(prims, V, regs, calls, adopts) /\ prims \in Seq(PrimRecords)
    BY <1>3 DEF OK, Sane, Typed
  <2>2. exc \in Values
    BY DEF Consistent
  <2>3. q \in 1 .. Len(prims)
    BY <2>1
  <2> HIDE DEF n, V
  <2>4. n \in Nat /\ n # 0
    BY <1>3
  <2> QED BY <2>1, <2>2, <2>3, <2>4
<1>5. [Pop(Here) EXCEPT !.adopts[n] = q] = St(prims, s, ticks, exc, regs, calls, B)
  <2>1. Pop(Here) = St(prims, s, ticks, exc, regs, calls, adopts)
    BY StateIs
  <2>2. St(prims, s, ticks, exc, regs, calls, adopts).adopts = adopts
    BY DEF St
  <2>3. \A D : [St(prims, s, ticks, exc, regs, calls, adopts) EXCEPT !.adopts = D] = St(prims, s, ticks, exc, regs, calls, D)
    BY DEF St
  <2>4. [Pop(Here) EXCEPT !.adopts[n] = q] = [St(prims, s, ticks, exc, regs, calls, adopts) EXCEPT !.adopts = B]
    BY <2>1, <2>2
  <2> HIDE DEF B
  <2> QED BY <2>3, <2>4
<1> HIDE DEF n, s, V
<1>6. Sane(prims, V, regs, calls, B) /\ B[n] = q /\ \A m \in 1 .. Len(prims) : m # n => B[m] = adopts[m]
  <2>1. /\ Pending(prims, n) /\ n > 2 /\ CalledBack(calls, n) /\ ~IsTask(V, "user", n) /\ ~IsTask(V, "settle", n)
        /\ NoArg(prims, V, n) /\ NotWaiting(prims, V, n) /\ n \in 1 .. Len(prims)
    BY <1>3
  <2> QED BY <1>4, <2>1, Adopts
<1> HIDE DEF B
<1>7. OK(prims, s, ticks, regs, calls, B)
  BY <1>3, <1>6 DEF OK, s, V
<1>8. Held(prims, s, B, n)
  <2>1. \A l \in 1 .. Len(s) : s[l].t = "try" => s[l].p \in 1 .. Len(prims)
    BY <1>3, TriesTyped
  <2> QED BY <1>3, <1>6, <2>1 DEF Held, Done
<1>9. Fine(prims, s, ticks, regs, calls, B, n, Len(prims))
  BY <1>3, <1>7, <1>8 DEF Fine
<1>10. Handled(prims, Work(s, ticks), B, q, "settle", "settle", n)
  BY <1>3, <1>6 DEF Handled, Unsettled, V, s
<1>11. PICK st : st = then(St(prims, s, ticks, exc, regs, calls, B), q, "settle", "settle", n)
  OBVIOUS
<1>12. PICK Q, u, v, S : /\ st = St(Q, u, v, exc, S, calls, Append(B, 0))
                         /\ Fine(Q, u, v, S, calls, Append(B, 0), n, Len(prims) + 1) /\ (u = s \/ CallsWith(u, n))
                         /\ Continues(prims, s, ticks, regs, B, Q, u, v, S, Append(B, 0), calls)
                         /\ n # 0 => Adopting(Q, Work(u, v), Append(B, 0), n)
  BY <1>4, <1>9, <1>10, <1>11, ThenIs
<1>13. Become(St(Q, u, v, exc, S, calls, Append(B, 0)))
  BY <1>2, <1>5, <1>11, <1>12
<1>14. Deciding(u, n)
  BY <1>3, <1>12 DEF Deciding, CallsWith
<1>15. Consistent'
  BY <1>1, <1>2, <1>4, <1>12, <1>13, <1>14, Leads
<1>16. Kept
  <2>1. prims' = Q
    BY <1>13, StateIs
  <2> QED BY <1>12, <2>1, SameKept DEF Continues
<1>17. Append(B, 0)[n] # 0
  <2>1. B \in Seq(Nat) /\ Len(B) = Len(prims)
    BY <1>6 DEF Sane, Typed
  <2>2. \A m \in 1 .. Len(B) : Append(B, 0)[m] = B[m]
    BY <2>1
  <2>3. q # 0
    BY <1>4
  <2> QED BY <1>3, <1>6, <2>1, <2>2, <2>3
<1>18. ASSUME Lives(prims, stack, ticks, regs, calls, adopts) PROVE Lives(Q, u, v, S, calls, Append(B, 0))
  <2>1. Heard(prims, Work(stack, ticks), regs, calls, adopts, {}) /\ SettleUser(stack)
    BY <1>18 DEF Lives
  <2>2. Top.t # "settle" /\ Top.t # "call" /\ Top.t # "each" /\ Top.cb.next \in {n} /\ {} \subseteq {n}
    BY <1>1 DEF n
  <2>3. Heard(prims, V, regs, calls, adopts, {n})
    BY <1>1, <2>1, <2>2, TopLess DEF V
  <2>4. SettleUser(s)
    BY <1>1, <2>1, TopUser DEF s
  <2>5. Heard(prims, V, regs, calls, B, {n})
    BY <1>4, <1>6, <2>3, HeardAdopts
  <2>6. Heard(Q, Work(u, v), S, calls, Append(B, 0), {n}) /\ SettleUser(u)
    BY <1>12, <2>4, <2>5 DEF Continues, V, s
  <2> DEFINE U == Work(u, v)
             D == Append(B, 0)
  <2>7. Heard(Q, U, S, calls, D, {n}) /\ D[n] # 0 /\ Adopting(Q, U, D, n)
    BY <1>4, <1>12, <1>17, <2>6
  <2> HIDE DEF U, D
  <2>8. Heard(Q, U, S, calls, D, {})
    <3>1. Comes(Q, U, D, n)
      BY <2>7 DEF Comes
    <3> QED BY <2>7, <3>1, HeardMet
  <2> QED BY <2>6, <2>8 DEF Lives, U, D
<1>19. Lively => Lively'
  <2>1. \A r \in 1 .. Len(regs) : r \in 1 .. Len(S) /\ S[r] = regs[r]
    BY <1>12 DEF Continues, Same
  <2> QED BY <1>1, <1>2, <1>13, <1>18, <2>1, LivesOn
<1> QED BY <1>15, <1>16, <1>19

\* The step of the task in progress.
LEMMA StepCases ==
  ASSUME Running, Top.t \in {"settle", "each", "call", "try", "user"}, NEW e, exc # e \/ ~InUser,
         Become(CASE exc # e -> Unwind
                  [] exc = e /\ Top.t = "settle" -> settle(Pop(Here), Top.p, Top.how, Top.x)
                  [] exc = e /\ Top.t = "each"   -> EachStep
                  [] exc = e /\ Top.t = "call"   -> CallStep
                  [] exc = e /\ Top.t = "try"    -> Pop(Here))
  PROVE  \/ exc # e /\ Become(Unwind)
         \/ exc = e /\ Top.t = "settle" /\ Become(settle(Pop(Here), Top.p, Top.how, Top.x))
         \/ exc = e /\ Top.t = "each" /\ Become(EachStep)
         \/ exc = e /\ Top.t = "call" /\ Become(CallStep)
         \/ exc = e /\ Top.t = "try" /\ Become(Pop(Here))
<1>1. Top.t = "user" => exc # e
  BY DEF InUser
<1>2. CASE exc # e
  BY <1>2
<1>3. CASE exc = e /\ Top.t = "settle"
  BY <1>3
<1>4. CASE exc = e /\ Top.t = "each"
  BY <1>4
<1>5. CASE exc = e /\ Top.t = "call"
  BY <1>5
<1>6. CASE exc = e /\ Top.t = "try"
  BY <1>6
<1> QED BY <1>1, <1>2, <1>3, <1>4, <1>5, <1>6

\* A step of the innermost task is one of five.
LEMMA StepIs ==
  ASSUME Consistent, Step
  PROVE  /\ Running /\ sync' = sync
         /\ \/ Fails(exc) /\ Become(Unwind)
            \/ ~Fails(exc) /\ Top.t = "settle" /\ Become(settle(Pop(Here), Top.p, Top.how, Top.x))
            \/ ~Fails(exc) /\ Top.t = "each" /\ Become(EachStep)
            \/ ~Fails(exc) /\ Top.t = "call" /\ Become(CallStep)
            \/ ~Fails(exc) /\ Top.t = "try" /\ Become(Pop(Here))
<1>1. Running /\ sync' = sync
  BY Zenon DEF Step
<1>2. Top.t \in {"settle", "each", "call", "try", "user"}
  BY <1>1, TopTask
<1>3. exc # "" \/ ~InUser
  BY Zenon DEF Step
<1>4. Become(CASE exc # "" -> Unwind
               [] exc = "" /\ Top.t = "settle" -> settle(Pop(Here), Top.p, Top.how, Top.x)
               [] exc = "" /\ Top.t = "each"   -> EachStep
               [] exc = "" /\ Top.t = "call"   -> CallStep
               [] exc = "" /\ Top.t = "try"    -> Pop(Here))
  BY Zenon DEF Step
<1>5. \A e : /\ exc # e \/ ~InUser
             /\ Become(CASE exc # e -> Unwind
                         [] exc = e /\ Top.t = "settle" -> settle(Pop(Here), Top.p, Top.how, Top.x)
                         [] exc = e /\ Top.t = "each"   -> EachStep
                         [] exc = e /\ Top.t = "call"   -> CallStep
                         [] exc = e /\ Top.t = "try"    -> Pop(Here))
             => \/ exc # e /\ Become(Unwind)
                \/ exc = e /\ Top.t = "settle" /\ Become(settle(Pop(Here), Top.p, Top.how, Top.x))
                \/ exc = e /\ Top.t = "each" /\ Become(EachStep)
                \/ exc = e /\ Top.t = "call" /\ Become(CallStep)
                \/ exc = e /\ Top.t = "try" /\ Become(Pop(Here))
  BY <1>1, <1>2, StepCases, Zenon
<1>6. \/ exc # "" /\ Become(Unwind)
      \/ exc = "" /\ Top.t = "settle" /\ Become(settle(Pop(Here), Top.p, Top.how, Top.x))
      \/ exc = "" /\ Top.t = "each" /\ Become(EachStep)
      \/ exc = "" /\ Top.t = "call" /\ Become(CallStep)
      \/ exc = "" /\ Top.t = "try" /\ Become(Pop(Here))
  BY <1>3, <1>4, <1>5, Zenon
<1> QED BY <1>1, <1>6, Zenon DEF Fails

\* An error that nothing takes.
LEMMA EscapeStep ==
  ASSUME Consistent, Escape
  PROVE  Consistent'
<1>1. /\ ~Running /\ UNCHANGED <<sync, prims, stack, ticks, regs, calls, adopts>> /\ exc' \in Values
  BY Zenon DEF Escape, Values
<1> HIDE DEF Escape
<1>2. OK(prims, stack, ticks, regs, calls, adopts)'
  BY <1>1 DEF Consistent, OK
<1>3. TriesOK(prims, stack, exc, adopts)'
  <2>1. PICK n \in Nat : OneTry(stack) /\ Held(prims, stack, adopts, n) /\ (n # 0 => Deciding(stack, n))
    BY DEF Consistent, TriesOK
  <2>2. n = 0
    BY <1>1, <2>1 DEF Deciding, Running
  <2> QED BY <1>1, <2>1, <2>2 DEF TriesOK
<1> QED BY <1>1, <1>2, <1>3 DEF Consistent

\* Every action keeps the invariant of what is there.
LEMMA ConsistentNext ==
  ASSUME Consistent, [PmNext]_pmvars
  PROVE  Consistent'
<1>1. CASE Step
  <2>1. /\ Running /\ sync' = sync
        /\ \/ Fails(exc) /\ Become(Unwind)
           \/ ~Fails(exc) /\ Top.t = "settle" /\ Become(settle(Pop(Here), Top.p, Top.how, Top.x))
           \/ ~Fails(exc) /\ Top.t = "each" /\ Become(EachStep)
           \/ ~Fails(exc) /\ Top.t = "call" /\ Become(CallStep)
           \/ ~Fails(exc) /\ Top.t = "try" /\ Become(Pop(Here))
    BY <1>1, StepIs
  <2>2. CASE Fails(exc) /\ Become(Unwind)
    BY <2>1, <2>2, UnwindStep
  <2>3. CASE ~Fails(exc) /\ Top.t = "settle" /\ Become(settle(Pop(Here), Top.p, Top.how, Top.x))
    BY <2>1, <2>3, SettleStep
  <2>4. CASE ~Fails(exc) /\ Top.t = "each" /\ Become(EachStep)
    BY <2>1, <2>4, EachStepped
  <2>5. CASE ~Fails(exc) /\ Top.t = "call" /\ Become(CallStep)
    BY <2>1, <2>5, CallStepped
  <2>6. CASE ~Fails(exc) /\ Top.t = "try" /\ Become(Pop(Here))
    BY <2>1, <2>6, TryStep
  <2> QED BY <2>1, <2>2, <2>3, <2>4, <2>5, <2>6
<1>2. CASE Escape
  BY <1>2, EscapeStep
<1>3. CASE Tick
  BY <1>3, TickStep
<1>4. CASE Then
  BY <1>4, ThenStep
<1>5. CASE End
  BY <1>5, EndStep
<1>6. CASE Settle
  BY <1>6, SettleOwn
<1>7. CASE serial
  BY <1>7, SerialStep
<1>8. CASE ReturnValue
  BY <1>8, ReturnStep
<1>9. CASE ThrowError
  BY <1>9, ThrowStep
<1>10. CASE ReturnPrim
  BY <1>10, ReturnPrimStep
<1>11. CASE UNCHANGED pmvars
  <2>1. UNCHANGED <<sync, prims, stack, ticks, exc, regs, calls, adopts>>
    BY <1>11 DEF pmvars
  <2>2. OK(prims, stack, ticks, regs, calls, adopts)'
    BY <2>1 DEF Consistent, OK
  <2>3. TriesOK(prims, stack, exc, adopts)'
    BY <2>1 DEF Consistent, TriesOK
  <2> QED BY <2>1, <2>2, <2>3 DEF Consistent
<1> QED BY <1>1, <1>2, <1>3, <1>4, <1>5, <1>6, <1>7, <1>8, <1>9, <1>10, <1>11 DEF PmNext

\* The invariant of what is there holds at the start.
LEMMA ConsistentInit ==
  ASSUME PmInit
  PROVE  Consistent
<1> DEFINE W == Work(<<>>, <<>>)
           P == <<NewPrim, NewPrim>>
           A == <<0, 0>>
           none == <<>>
<1>1. /\ prims = P /\ stack = <<>> /\ ticks = <<>> /\ regs = <<>> /\ calls = <<>> /\ adopts = A
  BY Zenon DEF PmInit
<1>2. exc \in Values
  BY Zenon DEF PmInit, Values
<1> HIDE DEF PmInit
<1>3. none \in Seq(Tasks) /\ Len(none) = 0 /\ none \in Seq(Nat \X Kinds \X Nat) /\ none \in Seq(Kinds \X Nat)
  OBVIOUS
<1>4. DOMAIN W = {} /\ W \in [{} -> Tasks]
  <2>1. \A l : l \in DOMAIN W <=> l \in Int /\ l # 0 /\ 0 - Len(none) <= l /\ l <= Len(none)
    BY <1>3, WorkIs
  <2>2. \A l : l \notin DOMAIN W
    BY <1>3, <2>1
  <2>3. W \in [DOMAIN W -> Tasks]
    BY <1>3, WorkIs
  <2> QED BY <2>2, <2>3
<1>5. /\ P \in Seq(PrimRecords) /\ Len(P) = 2 /\ A \in Seq(Nat) /\ Len(A) = 2 /\ \A p \in 1 .. 2 : IsNew(P[p]) /\ A[p] = 0
  <2> DEFINE rec == NewPrim
  <2>1. IsNew(rec) /\ rec \in PrimRecords
    BY NewPrims DEF IsNew
  <2> HIDE DEF rec
  <2>2. /\ <<rec, rec>> \in Seq(PrimRecords) /\ Len(<<rec, rec>>) = 2 /\ \A p \in 1 .. 2 : <<rec, rec>>[p] = rec
    BY <2>1
  <2>3. A \in Seq(Nat) /\ Len(A) = 2 /\ \A p \in 1 .. 2 : A[p] = 0
    OBVIOUS
  <2> QED BY <2>1, <2>2, <2>3 DEF rec
<1> HIDE DEF W, P, A, none
<1>6. \A p \in 1 .. 2, k \in Kinds : Len(ListOf(P, p, k)) = 0
  BY <1>5 DEF ListOf, IsNew
<1>7. Typed(P, W, none, none, A)
  BY <1>3, <1>4, <1>5 DEF Typed
<1>8. RegsOK(P, none) /\ SlotsOK(P, none) /\ Listed(P, none)
  BY <1>3, <1>5, <1>6 DEF RegsOK, SlotsOK, Listed
<1>9. TasksOK(P, W, none) /\ EachOnce(W) /\ DueOnce(P, W) /\ CalledOnce(P, W, none, none)
  BY <1>3, <1>4 DEF TasksOK, EachOnce, DueOnce, CalledOnce
<1>10. WaitingOK(P, W, A) /\ UserOK(P, W, none, A) /\ AdoptOK(P, W, none, A)
  BY <1>4, <1>5, <1>6 DEF WaitingOK, UserOK, AdoptOK
<1>11. ArgOK(P, W, none, A) /\ ArgOnce(P, W)
  <2>1. ArgOK(P, W, none, A)
    BY <1>4, <1>5, <1>6 DEF ArgOK
  <2>2. \A n : Belong(P, W, n, 0)
    BY <1>4, <1>5, <1>6 DEF Belong
  <2> QED BY <2>1, <2>2 DEF ArgOnce
<1>12. Ordered(P, W, none, none)
  BY <1>3, <1>4 DEF Ordered, DueOrder, CallOrder, Shallow
<1>13. Sane(P, W, none, none, A)
  BY <1>7, <1>8, <1>9, <1>10, <1>11 DEF Sane
<1>14. OK(P, none, none, none, none, A)
  <2>1. W = Work(none, none)
    BY DEF W, none
  <2> QED BY <1>3, <1>5, <1>12, <1>13, <2>1 DEF OK
<1>15. TriesOK(P, none, exc, A)
  <2>1. OneTry(none) /\ Held(P, none, A, 0)
    BY <1>3 DEF OneTry, Held
  <2> QED BY <2>1 DEF TriesOK
<1>16. prims = P /\ stack = none /\ ticks = none /\ regs = none /\ calls = none /\ adopts = A
  BY <1>1 DEF none
<1> QED BY <1>2, <1>14, <1>15, <1>16 DEF Consistent

\* What the invariant says of a state.
LEMMA ConsistentSane ==
  ASSUME Consistent
  PROVE  Once /\ InOrder /\ Adopted
<1> DEFINE W == Work(stack, ticks)
<1>1. /\ Sane(prims, W, regs, calls, adopts) /\ (~sync => Ordered(prims, W, regs, calls)) 
  BY DEF Consistent, OK
<1> HIDE DEF W
<1>2. /\ DOMAIN prims = 1 .. Len(prims) /\ DOMAIN regs = 1 .. Len(regs) /\ DOMAIN calls = 1 .. Len(calls)
      /\ \A r \in 1 .. Len(regs) : regs[r][3] \in Nat
  BY <1>1 DEF Sane, Typed
<1>3. Once
  BY <1>1, <1>2 DEF Once, Sane, CalledOnce
<1>4. InOrder
  <2> DEFINE Reg(c) == CHOOSE i \in DOMAIN regs : regs[i][2] = c[1] /\ regs[i][3] = c[2]
  <2> SUFFICES ASSUME ~sync, NEW i \in DOMAIN calls, NEW j \in DOMAIN calls, i < j, calls[i][1] = calls[j][1],
                      regs[Reg(calls[i])][1] = regs[Reg(calls[j])][1]
               PROVE  Reg(calls[i]) < Reg(calls[j])
    BY DEF InOrder
  <2>1. \A c \in DOMAIN calls : /\ Reg(calls[c]) \in DOMAIN regs
                                /\ regs[Reg(calls[c])][2] = calls[c][1] /\ regs[Reg(calls[c])][3] = calls[c][2]
    <3> SUFFICES ASSUME NEW c \in DOMAIN calls
                 PROVE  \E r \in DOMAIN regs : regs[r][2] = calls[c][1] /\ regs[r][3] = calls[c][2]
      OBVIOUS
    <3>1. PICK p \in 1 .. Len(prims) : Given(regs, p, calls[c][1], calls[c][2])
      BY <1>1, <1>2 DEF Sane, CalledOnce
    <3> QED BY <1>2, <3>1 DEF Given, Is
  <2> HIDE DEF Reg
  <2>2. CallOrder(prims, W, regs, calls)
    BY <1>1 DEF Ordered
  <2>3. SamePlace(regs, Reg(calls[i]), Reg(calls[j]))
    BY <2>1 DEF SamePlace
  <2> QED BY <1>2, <2>1, <2>2, <2>3 DEF CallOrder
<1>5. Adopted
  BY <1>1, <1>2 DEF Adopted, Sane, AdoptOK, Agrees, Pending
<1> QED BY <1>3, <1>4, <1>5

-----------------------------------------------------------------------------
(* What is to come, and what stays, action by action.                      *)

\* An action that changes no promise keeps what is settled.
LEMMA SamePrims ==
  ASSUME Consistent, prims' = prims
  PROVE  Kept
BY DEF Kept

\* Task a is begun on the stack.
LEMMA PushHeard ==
  ASSUME NEW P, NEW s \in Seq(Tasks), NEW t \in Seq(Tasks), NEW R, NEW C, NEW D, NEW A, NEW E, NEW F, NEW task \in Tasks,
         Heard(P, Work(s, t), R, C, A, F), task.t \in {"settle", "try", "user"}, \A n : CalledBack(C, n) => CalledBack(D, n),
         Met(P, Work(Append(s, task), t), A, E, F),
         task.t = "settle" =>
           /\ task.p > 2 => Pending(P, task.p) /\ ~IsTask(Work(s, t), "settle", task.p)
           /\ \A r \in 1 .. Len(R) : R[r][3] # 0 /\ R[r][3] = task.p /\ R[r][2] = "fail" /\ P[R[r][1]].s = "e"
                                     /\ ~CalledBack(D, task.p) => Passed(P, R[r][1], task.how, task.x)
  PROVE  Heard(P, Work(Append(s, task), t), R, D, A, E)
<1> DEFINE W == Work(s, t)
           V == Work(Append(s, task), t)
           a == Len(s) + 1
<1>1. Added(V, W, a) /\ V[a] = task
  BY WorkPush
<1>2. Heard(P, W, R, C, A, F) /\ Met(P, V, A, E, F) /\ (task.t = "settle" /\ task.p > 2 => Pending(P, task.p) /\ ~IsTask(W, "settle", task.p))
  OBVIOUS
<1> HIDE DEF W, V, a
<1>3. Heard(P, V, R, D, A, E)
  BY <1>1, <1>2, HeardAdded
<1> QED BY <1>3 DEF V

\* What a task that was begun is for, will come.
LEMMA PushMet ==
  ASSUME NEW P, NEW s \in Seq(Tasks), NEW t \in Seq(Tasks), NEW A, NEW n, NEW task \in Tasks, NEW E, NEW F,
         (task.t = "settle" /\ task.p = n) \/ (task.t = "user" /\ task.cb.next = n),
         A[n] # 0 => task.t = "settle" /\ ~Pending(P, A[n]), \A m \in F : m \in E \/ m = 0 \/ m = n
  PROVE  Met(P, Work(Append(s, task), t), A, E, F)
<1> DEFINE W == Work(s, t)
           V == Work(Append(s, task), t)
           a == Len(s) + 1
<1>1. Added(V, W, a) /\ V[a] = task
  BY WorkPush
<1> HIDE DEF V, W, a
<1>2. a \in DOMAIN V
  BY <1>1 DEF Added
<1>3. Comes(P, V, A, n)
  BY <1>1, <1>2 DEF Comes, IsTask
<1>4. A[n] # 0 => Adopting(P, V, A, n)
  BY <1>1, <1>2 DEF Adopting, IsTask
<1> QED BY <1>3, <1>4 DEF Met, V

\* A task that is begun does not settle n.
LEMMA PushTask ==
  ASSUME NEW s \in Seq(Tasks), NEW t \in Seq(Tasks), NEW n, NEW task \in Tasks, ~IsTask(Work(s, t), "settle", n),
         task.t = "settle" => task.p # n
  PROVE  ~IsTask(Work(Append(s, task), t), "settle", n)
<1> DEFINE W == Work(s, t)
           V == Work(Append(s, task), t)
           a == Len(s) + 1
<1>1. Added(V, W, a) /\ V[a] = task /\ ~IsTask(W, "settle", n)
  BY WorkPush
<1> HIDE DEF V, W, a
<1>2. ~IsTask(V, "settle", n)
  BY <1>1 DEF Added, IsTask
<1> QED BY <1>2 DEF V

\* resolve and reject: all hear of it; one that was settled was settled by the program.
LEMMA SettleLives ==
  ASSUME Consistent, Running, ~Fails(exc), Top.t = "settle", Become(settle(Pop(Here), Top.p, Top.how, Top.x)), sync' = sync,
         escaped' = escaped
  PROVE  Kept /\ (Lively => Lively')
<1> DEFINE W == Work(stack, ticks)
           s == Front(stack)
           V == Work(s, ticks)
           p == Top.p
           l == Len(stack)
<1>1. /\ W[l] = Top /\ l \in DOMAIN W /\ DOMAIN V \subseteq DOMAIN W /\ (\A m \in DOMAIN V : V[m] = W[m]) /\ Top = stack[l]
      /\ Sane(prims, W, regs, calls, adopts) /\ Sane(prims, V, regs, calls, adopts) /\ stack \in Seq(Tasks) /\ stack # <<>>
      /\ s \in Seq(Tasks) /\ ticks \in Seq(Tasks) /\ prims \in Seq(PrimRecords) /\ l \in Nat \ {0} /\ (\A m \in DOMAIN V : m < l)
  BY TopIs DEF OK, Sane, Typed, Consistent
<1>2. p \in 1 .. Len(prims) /\ Top.how \in {"v", "e"} /\ Top.x \in Values /\ p \in Nat
  BY TopTask
<1>3. Pop(Here) = St(prims, s, ticks, exc, regs, calls, adopts)
  BY StateIs
<1>4. \A r \in 1 .. Len(regs) : r \in 1 .. Len(regs) /\ regs[r] = regs[r]
  OBVIOUS
<1>5. ASSUME Heard(prims, W, regs, calls, adopts, {}), SettleUser(stack)
      PROVE  /\ Heard(prims, V, regs, calls, adopts, {p}) /\ SettleUser(s)
             /\ p > 2 => Pending(prims, p) /\ ~IsTask(V, "settle", p)
             /\ \A r \in 1 .. Len(regs) : regs[r][3] # 0 /\ regs[r][3] = p /\ regs[r][2] = "fail" /\ prims[regs[r][1]].s = "e" /\ ~CalledBack(calls, p)
                  => Passed(prims, regs[r][1], Top.how, Top.x)
  <2>1. Heard(prims, V, regs, calls, adopts, {p})
    <3>1. Top.p \in {p} /\ {} \subseteq {p}
      OBVIOUS
    <3> HIDE DEF p
    <3> QED BY <1>5, <3>1, TopLess
  <2>2. SettleUser(s)
    BY <1>5, TopUser
  <2>3. PassesOn(prims, W, regs, calls) /\ SettleOnce(prims, W)
    BY <1>5 DEF Heard
  <2> HIDE DEF W, V, s, l
  <2>4. p > 2 => Pending(prims, p) /\ ~IsTask(V, "settle", p)
    <3> SUFFICES ASSUME p > 2 PROVE Pending(prims, p) /\ ~IsTask(V, "settle", p)
      OBVIOUS
    <3>1. Pending(prims, p) /\ \A m \in DOMAIN W : W[m].t = "settle" /\ W[m].p = p => m = l
      BY <1>1, <2>3 DEF SettleOnce
    <3>2. \A m \in DOMAIN V : m \in DOMAIN W /\ V[m] = W[m] /\ m < l
      BY <1>1
    <3> QED BY <1>1, <3>1, <3>2 DEF IsTask
  <2>5. \A r \in 1 .. Len(regs) : regs[r][3] # 0 /\ regs[r][3] = p /\ regs[r][2] = "fail" /\ prims[regs[r][1]].s = "e" /\ ~CalledBack(calls, p)
          => Passed(prims, regs[r][1], Top.how, Top.x)
    BY <1>1, <2>3 DEF PassesOn, PassesTo
  <2> QED BY <2>1, <2>2, <2>4, <2>5
<1>6. CASE Pending(prims, p)
  <2> DEFINE task == EachTask(p, KindOf(Top.how), Top.x)
  <2>1. PICK st : st = settle(St(prims, s, ticks, exc, regs, calls, adopts), p, Top.how, Top.x)
    OBVIOUS
  <2>2. PICK Q : /\ SettledAs(Q, prims, p, Top.how, Top.x)
                 /\ sync => st = St(Q, Append(s, task), ticks, exc, regs, calls, adopts)
                 /\ ~sync => st = St(Q, s, Append(ticks, task), exc, regs, calls, adopts)
    <3> DEFINE how == Top.how
               x == Top.x
    <3>1. how \in {"v", "e"} /\ x \in Values /\ st = settle(St(prims, s, ticks, exc, regs, calls, adopts), p, how, x)
      BY <1>2, <2>1
    <3> HIDE DEF how, x, s, p, task
    <3>2. \E Q : /\ SettledAs(Q, prims, p, how, x)
                 /\ sync => settle(St(prims, s, ticks, exc, regs, calls, adopts), p, how, x)
                              = St(Q, Append(s, EachTask(p, KindOf(how), x)), ticks, exc, regs, calls, adopts)
                 /\ ~sync => settle(St(prims, s, ticks, exc, regs, calls, adopts), p, how, x)
                              = St(Q, s, Append(ticks, EachTask(p, KindOf(how), x)), exc, regs, calls, adopts)
      BY <1>1, <1>2, <1>6, <3>1, SettleIs
    <3> QED BY <3>1, <3>2 DEF how, x, task
  <2>3. PICK u, v : /\ st = St(Q, u, v, exc, regs, calls, adopts)
                    /\ (u = Append(s, task) /\ v = ticks) \/ (u = s /\ v = Append(ticks, task))
    BY <2>2
  <2>4. Become(St(Q, u, v, exc, regs, calls, adopts))
    BY <1>3, <2>1, <2>3
  <2>5. /\ task \in Tasks /\ task.t = "each" /\ task.p = p /\ task.how = (IF Top.how = "v" THEN "ok" ELSE "fail")
        /\ task.i = 1 /\ KindOf(Top.how) \in Kinds
    <3>1. KindOf(Top.how) \in Kinds /\ KindOf(Top.how) = (IF Top.how = "v" THEN "ok" ELSE "fail")
      BY DEF KindOf, Kinds
    <3> QED BY <1>2, <3>1, TaskTypes
  <2> HIDE DEF task
  <2>6. Kept
    <3>1. prims' = Q /\ DOMAIN prims = 1 .. Len(prims)
      BY <1>1, <2>4, StateIs
    <3>2. \A q \in 1 .. Len(prims) : q # p => Q[q].s = prims[q].s /\ Q[q].x = prims[q].x
      BY <2>2 DEF SettledAs
    <3> QED BY <1>6, <3>1, <3>2 DEF Kept, Pending
  <2>7. PICK a : Added(Work(u, v), V, a) /\ Work(u, v)[a] = task
    <3>1. CASE u = Append(s, task) /\ v = ticks
      BY <1>1, <2>5, <3>1, WorkPush
    <3>2. CASE u = s /\ v = Append(ticks, task)
      <4> DEFINE b == 0 - (Len(ticks) + 1)
      <4>1. Added(Work(s, Append(ticks, task)), Work(s, ticks), b) /\ Work(s, Append(ticks, task))[b] = task
        BY <1>1, <2>5, WorkTick
      <4> HIDE DEF b
      <4> QED BY <3>2, <4>1
    <3> QED BY <2>3, <3>1, <3>2
  <2>8. ASSUME Lives(prims, stack, ticks, regs, calls, adopts) PROVE Lives(Q, u, v, regs, calls, adopts)
    <3>1. /\ Heard(prims, V, regs, calls, adopts, {p}) /\ SettleUser(s)
          /\ p > 2 => ~IsTask(V, "settle", p)
          /\ \A r \in 1 .. Len(regs) : regs[r][3] # 0 /\ regs[r][3] = p /\ regs[r][2] = "fail" /\ prims[regs[r][1]].s = "e" /\ ~CalledBack(calls, p)
               => Passed(prims, regs[r][1], Top.how, Top.x)
      BY <1>5, <2>8 DEF Lives
    <3>2. adopts[p] # 0 => Agrees(prims, Top.how, Top.x, adopts[p])
      BY <1>1, <1>2, <1>6 DEF Sane, AdoptOK
    <3>3. SettleUser(u)
      <4>1. CASE u = Append(s, task)
        BY <1>1, <2>5, <3>1, <4>1, SettleUserPush
      <4> QED BY <2>3, <3>1, <4>1
    <3> DEFINE U == Work(u, v)
    <3>4. /\ Added(U, V, a) /\ U[a].t = "each" /\ U[a].p = p /\ U[a].how = (IF Top.how = "v" THEN "ok" ELSE "fail") /\ U[a].i = 1
      BY <2>5, <2>7
    <3>6. \A r \in 1 .. Len(regs) : regs[r][3] = p /\ regs[r][2] = "fail" /\ prims[regs[r][1]].s = "e" /\ ~CalledBack(calls, p)
               => Passed(prims, regs[r][1], Top.how, Top.x)
      BY <1>2, <3>1
    <3>7. SettledAs(Q, prims, p, Top.how, Top.x) /\ Pending(prims, p) /\ p \in 1 .. Len(prims)
      BY <1>2, <1>6, <2>2
    <3> HIDE DEF U, V, p, W
    <3>5. Heard(Q, U, regs, calls, adopts, {})
      BY <1>1, <1>2, <3>1, <3>2, <3>4, <3>6, <3>7, HeardSettle
    <3> QED BY <3>3, <3>5 DEF Lives, U
  <2>9. Lively => Lively'
    BY <1>4, <2>4, <2>8, LivesOn
  <2> QED BY <2>6, <2>9
<1>7. CASE ~Pending(prims, p)
  <2>1. Become(St(prims, s, ticks, "nope", regs, calls, adopts))
    BY <1>1, <1>2, <1>3, <1>7, SettleIs
  <2>2. Kept
    BY <2>1, StateIs DEF Kept
  <2>3. ASSUME Good(s, regs, "nope", escaped), Lives(prims, stack, ticks, regs, calls, adopts)
        PROVE  Living(prims, s, ticks, regs, calls, adopts, "nope")
    <3>1. Heard(prims, V, regs, calls, adopts, {p}) /\ SettleUser(s) /\ p <= 2
      BY <1>2, <1>5, <1>7, <2>3 DEF Lives
    <3>2. Len(s) = l - 1 /\ \A m \in 1 .. l - 1 : s[m] = stack[m]
      BY <1>1, WorkPop
    <3>3. l # 1
      <4>1. Fails("nope")
        <5>1. \A n \in {"nope"} : Fails(n)
          BY Zenon DEF Fails
        <5> QED BY <5>1
      <4>2. \E m \in 1 .. Len(s) : s[m].t = "try"
        BY <2>3, <4>1 DEF Good
      <4> QED BY <3>2, <4>2
    <3>4. s # <<>> /\ s[Len(s)].t = "user"
      <4>1. stack[l - 1].t = "user"
        <5>1. l \in 1 .. Len(stack) /\ stack[l].t = "settle" /\ stack[l].p <= 2
          BY <1>1, <3>1
        <5> QED BY <2>3, <3>3, <5>1 DEF Lives, SettleUser
      <4>2. l - 1 \in 1 .. l - 1 /\ Len(s) # 0
        BY <1>1, <3>2, <3>3
      <4> QED BY <3>2, <4>1, <4>2
    <3>5. Lost(s, "nope") = {} /\ Thrown(prims, V, s, calls, "nope")
      BY <3>4 DEF Lost, Thrown
    <3>6. Heard(prims, V, regs, calls, adopts, {})
      <4>1. adopts[p] = 0
        BY <1>1, <1>2, <3>1 DEF Sane, AdoptOK
      <4> HIDE DEF V, p
      <4>2. Comes(prims, V, adopts, p)
        BY <1>7 DEF Comes
      <4> QED BY <3>1, <4>1, <4>2, HeardMet
    <3> QED BY <3>1, <3>5, <3>6 DEF Living
  <2>4. Lively => Lively'
    BY <1>4, <2>1, <2>3, LivelyBecomes
  <2> QED BY <2>2, <2>4
<1> QED BY <1>6, <1>7

\* A try is left.
LEMMA TryLives ==
  ASSUME Consistent, Running, ~Fails(exc), Top.t = "try", Become(Pop(Here)), sync' = sync, escaped' = escaped
  PROVE  Kept /\ (Lively => Lively')
<1>1. Become(St(prims, Front(stack), ticks, exc, regs, calls, adopts))
  BY StateIs
<1>2. Kept
  BY <1>1, StateIs DEF Kept
<1>3. ASSUME Lives(prims, stack, ticks, regs, calls, adopts) PROVE Lives(prims, Front(stack), ticks, regs, calls, adopts)
  <2>1. Heard(prims, Work(Front(stack), ticks), regs, calls, adopts, {})
    <3>1. Heard(prims, Work(stack, ticks), regs, calls, adopts, {}) /\ {} \subseteq {}
      BY <1>3 DEF Lives
    <3> QED BY <3>1, TopLess
  <2> QED BY <1>3, <2>1, TopUser DEF Lives
<1>4. \A r \in 1 .. Len(regs) : r \in 1 .. Len(regs) /\ regs[r] = regs[r]
  OBVIOUS
<1> QED BY <1>1, <1>2, <1>3, <1>4, LivesOn

\* A notification goes on: its next callback is called, and the others remain.
LEMMA EachServes ==
  ASSUME NEW P, NEW s \in Seq(Tasks), s # <<>>, NEW t \in Seq(Tasks), NEW R, NEW C, NEW A, Sane(P, Work(s, t), R, C, A),
         s[Len(s)].t = "each", NEW on \in Tasks, NEW task \in Tasks, on = [s[Len(s)] EXCEPT !.i = @ + 1], task.t = "call",
         ~(s[Len(s)].i > Len(ListOf(P, s[Len(s)].p, s[Len(s)].how))),
         task.cb = ListOf(P, s[Len(s)].p, s[Len(s)].how)[s[Len(s)].i], EndGiven(Work(s, t), R)
  PROVE  /\ Serves(Work(Append([s EXCEPT ![Len(s)] = on], task), t), Work(s, t), P)
         /\ EndGiven(Work(Append([s EXCEPT ![Len(s)] = on], task), t), R)
<1> DEFINE top == s[Len(s)]
           l == Len(s)
           u == [s EXCEPT ![Len(s)] = on]
           W == Work(s, t)
           U == Work(u, t)
           V == Work(Append(u, task), t)
           list == ListOf(P, top.p, top.how)
<1>0. l \in Nat \ {0} /\ l \in 1 .. Len(s) /\ Len(t) \in Nat
  OBVIOUS
<1>1. /\ l \in Nat \ {0} /\ l \in 1 .. Len(s) /\ top \in Tasks /\ u \in Seq(Tasks) /\ Len(u) = l /\ u[l] = on
      /\ (\A m \in 1 .. l : m # l => u[m] = s[m]) /\ Len(t) \in Nat
  BY <1>0
<1> HIDE DEF l, u
<1>2. /\ \A m : m \in DOMAIN W <=> m \in Int /\ m # 0 /\ 0 - Len(t) <= m /\ m <= l
      /\ \A m \in 1 .. l : W[m] = s[m]
      /\ \A m \in 1 .. Len(t) : W[0 - m] = t[m]
  BY WorkIs DEF l
<1>3. /\ \A m : m \in DOMAIN U <=> m \in Int /\ m # 0 /\ 0 - Len(t) <= m /\ m <= l
      /\ \A m \in 1 .. l : U[m] = u[m]
      /\ \A m \in 1 .. Len(t) : U[0 - m] = t[m]
  BY <1>1, WorkIs
<1>4. Added(V, U, l + 1) /\ V[l + 1] = task
  BY <1>1, WorkPush
<1> HIDE DEF W, U, V
<1>5. \A m \in DOMAIN W : m # l => m \in DOMAIN U /\ U[m] = W[m]
  <2> SUFFICES ASSUME NEW m \in DOMAIN W, m # l PROVE m \in DOMAIN U /\ U[m] = W[m]
    OBVIOUS
  <2>1. m \in DOMAIN U /\ m \in Int /\ m # 0 /\ 0 - Len(t) <= m /\ m <= l
    BY <1>2, <1>3
  <2>2. CASE m > 0
    <3>1. m \in 1 .. l
      BY <1>1, <2>1, <2>2
    <3> QED BY <1>1, <1>2, <1>3, <2>1, <3>1 DEF l
  <2>3. CASE ~(m > 0)
    <3>1. 0 - m \in 1 .. Len(t) /\ 0 - (0 - m) = m
      BY <1>1, <2>1, <2>3
    <3> QED BY <1>2, <1>3, <2>1, <3>1
  <2> QED BY <2>2, <2>3
<1>6. /\ \A m \in DOMAIN W : m # l => m \in DOMAIN V /\ V[m] = W[m]
      /\ \A m \in DOMAIN V : m = l \/ m = l + 1 \/ (m \in DOMAIN W /\ m # l /\ V[m] = W[m])
      /\ l \in DOMAIN W /\ W[l] = top /\ l \in DOMAIN V /\ V[l] = on /\ l + 1 \in DOMAIN V /\ V[l + 1] = task
  <2>1. /\ \A m \in DOMAIN U : m \in DOMAIN V /\ V[m] = U[m]
        /\ \A m \in DOMAIN V : m \in DOMAIN U \/ m = l + 1
        /\ l + 1 \in DOMAIN V
    BY <1>4 DEF Added
  <2>2. l \in DOMAIN W /\ l \in DOMAIN U /\ l \in 1 .. l
    BY <1>1, <1>2, <1>3
  <2>3. W[l] = top /\ U[l] = on
    BY <1>1, <1>2, <1>3, <2>2 DEF l
  <2>4. \A m : m \in DOMAIN U <=> m \in DOMAIN W
    BY <1>2, <1>3
  <2> QED BY <1>4, <1>5, <2>1, <2>2, <2>3, <2>4
<1>7. /\ top.t = "each" /\ on.t = "each" /\ on.p = top.p /\ on.how = top.how /\ on.i = top.i + 1 /\ top.i \in Nat
  BY <1>1 DEF Tasks
<1>8. top.p \in 1 .. Len(P) /\ top.how \in Kinds /\ top.i > 0 /\ Len(list) \in Nat
  <2>1. TaskOK(P, W, R, l) /\ P \in Seq(PrimRecords)
    BY <1>6 DEF Sane, TasksOK, Typed, W
  <2>2. top.p \in 1 .. Len(P) /\ top.how \in Kinds /\ top.i > 0
    BY <1>6, <1>7, <2>1 DEF TaskOK
  <2>3. P[top.p] \in PrimRecords
    BY <2>1, <2>2
  <2>4. list \in Seq(Cbs)
    BY <2>3 DEF ListOf, PrimRecords
  <2> HIDE DEF list
  <2> QED BY <2>2, <2>4
<1>9. top.i \in 1 .. Len(list) /\ task.cb = list[top.i]
  BY <1>7, <1>8
<1> HIDE DEF top
<1>10. /\ Due(P, W, l) = top.i .. Len(list) /\ \A j : DueCb(P, W, l, j) = list[j]
       /\ Due(P, V, l) = top.i + 1 .. Len(list) /\ \A j : DueCb(P, V, l, j) = list[j]
       /\ Due(P, V, l + 1) = {0} /\ DueCb(P, V, l + 1, 0) = list[top.i]
  BY <1>6, <1>7, <1>9 DEF Due, DueCb
<1> HIDE DEF list
<1>11. ASSUME NEW m \in DOMAIN W, NEW j \in Due(P, W, m)
       PROVE  \E n \in DOMAIN V : \E i \in Due(P, V, n) : DueCb(P, V, n, i) = DueCb(P, W, m, j)
  <2>1. CASE m # l
    <3>1. m \in DOMAIN V /\ V[m] = W[m]
      BY <1>6, <2>1
    <3>2. Due(P, V, m) = Due(P, W, m) /\ DueCb(P, V, m, j) = DueCb(P, W, m, j)
      BY <3>1 DEF Due, DueCb
    <3> QED BY <3>1, <3>2
  <2>2. CASE m = l /\ j = top.i
    <3>1. 0 \in Due(P, V, l + 1) /\ DueCb(P, V, l + 1, 0) = DueCb(P, W, m, j) /\ l + 1 \in DOMAIN V
      BY <1>6, <1>10, <2>2
    <3> QED BY <3>1
  <2>3. CASE m = l /\ j # top.i
    <3>1. j \in top.i .. Len(list)
      BY <1>10, <1>11, <2>3
    <3>2. j \in top.i + 1 .. Len(list)
      BY <1>7, <1>8, <2>3, <3>1
    <3>3. j \in Due(P, V, l) /\ DueCb(P, V, l, j) = DueCb(P, W, m, j) /\ l \in DOMAIN V
      BY <1>6, <1>10, <2>3, <3>2
    <3> QED BY <3>3
  <2> QED BY <2>1, <2>2, <2>3
<1>12. \A m \in DOMAIN W : W[m].t \in {"settle", "user"} => \E n \in DOMAIN V : V[n] = W[m]
  BY <1>6, <1>7
<1>13. \A m \in DOMAIN V : V[m].t = "settle" => m \in DOMAIN W /\ V[m] = W[m]
  BY <1>6, <1>7
<1>14. EndGiven(V, R)
  <2> SUFFICES ASSUME NEW m \in DOMAIN V, V[m].t = "call", V[m].cb.next = 0 PROVE \E r \in 1 .. Len(R) : R[r][3] = 0
    BY DEF EndGiven
  <2>1. CASE m \in DOMAIN W /\ V[m] = W[m]
    BY <2>1 DEF EndGiven, W
  <2>2. CASE m = l + 1
    <3>1. SlotsOK(P, R)
      BY DEF Sane
    <3>2. Given(R, top.p, top.how, list[top.i].next)
      BY <1>8, <1>9, <3>1 DEF SlotsOK, list
    <3>3. list[top.i].next = 0
      BY <1>6, <1>9, <2>2
    <3> QED BY <3>2, <3>3 DEF Given, Is
  <2> QED BY <1>6, <1>7, <2>1, <2>2
<1> QED BY <1>11, <1>12, <1>13, <1>14 DEF Serves, V, W, u

\* A notification that has gone on to its next callback is a task still.
LEMMA Onward ==
  ASSUME NEW task \in Tasks
  PROVE  [task EXCEPT !.i = @ + 1] \in Tasks
BY DEF Tasks

\* Calling the next callback of a list, or ending the list, keeps what is to come.
LEMMA EachLives ==
  ASSUME Consistent, Running, ~Fails(exc), Top.t = "each", Become(EachStep), sync' = sync, escaped' = escaped
  PROVE  Kept /\ (Lively => Lively')
<1> DEFINE list == ListOf(prims, Top.p, Top.how)
           on == [Top EXCEPT !.i = @ + 1]
           s == [stack EXCEPT ![Len(stack)] = on]
           task == CallTask(Top.how, list[Top.i], Top.x)
<1>1. /\ stack \in Seq(Tasks) /\ stack # <<>> /\ Top = stack[Len(stack)] /\ Len(stack) \in 1 .. Len(stack) /\ Top \in Tasks
      /\ Sane(prims, Work(stack, ticks), regs, calls, adopts) /\ ticks \in Seq(Tasks)
  BY TopIs DEF Consistent, OK
<1>2. \A r \in 1 .. Len(regs) : r \in 1 .. Len(regs) /\ regs[r] = regs[r]
  OBVIOUS
<1>3. CASE Top.i > Len(list)
  <2>1. Become(St(prims, Front(stack), ticks, exc, regs, calls, adopts))
    BY <1>3, EachIs
  <2>2. Kept
    BY <2>1, StateIs DEF Kept
  <2>3. ASSUME Lives(prims, stack, ticks, regs, calls, adopts) PROVE Lives(prims, Front(stack), ticks, regs, calls, adopts)
    <3>1. Heard(prims, Work(stack, ticks), regs, calls, adopts, {}) /\ SettleUser(stack) /\ {} \subseteq {}
      BY <2>3 DEF Lives
    <3>2. Heard(prims, Work(Front(stack), ticks), regs, calls, adopts, {})
      BY <1>3, <3>1, TopLess
    <3> QED BY <3>1, <3>2, TopUser DEF Lives
  <2> QED BY <1>2, <2>1, <2>2, <2>3, LivesOn
<1>4. CASE ~(Top.i > Len(list))
  <2>1. Become(St(prims, Append(s, task), ticks, exc, regs, calls, adopts))
    BY <1>4, EachIs
  <2>2. Kept
    BY <2>1, StateIs DEF Kept
  <2>3. Top.i \in Nat /\ Top.p \in 1 .. Len(prims) /\ Top.how \in Kinds /\ Top.x \in Values
    <3>1. Top.i \in Nat
      BY <1>1 DEF Tasks
    <3> QED BY <3>1, TopTask
  <2>4. on \in Tasks
    BY <1>1, Onward
  <2>5. list[Top.i] \in Cbs
    <3>1. Top.i > 0 /\ prims \in Seq(PrimRecords)
      <4>1. TaskOK(prims, Work(stack, ticks), regs, Len(stack)) /\ Work(stack, ticks)[Len(stack)] = Top
              /\ Sane(prims, Work(stack, ticks), regs, calls, adopts)
        BY TopIs
      <4> QED BY <4>1 DEF TaskOK, Sane, Typed
    <3>2. prims[Top.p] \in PrimRecords
      BY <3>1, <2>3
    <3>3. list \in Seq(Cbs)
      BY <3>2, <2>3 DEF ListOf, PrimRecords
    <3> HIDE DEF list
    <3>4. Len(list) \in Nat /\ Top.i \in 1 .. Len(list)
      BY <3>1, <3>3, <2>3, <1>4
    <3> QED BY <3>3, <3>4
  <2>6. task \in Tasks /\ task.t = "call" /\ task.cb = list[Top.i]
    <3> HIDE DEF list
    <3> QED BY <2>3, <2>5, CallTasks
  <2>7. ASSUME Lives(prims, stack, ticks, regs, calls, adopts) PROVE Lives(prims, Append(s, task), ticks, regs, calls, adopts)
    <3> DEFINE W == Work(stack, ticks)
               V == Work(Append(s, task), ticks)
    <3>1. Heard(prims, W, regs, calls, adopts, {}) /\ SettleUser(stack) /\ EndGiven(W, regs)
      BY <2>7 DEF Lives, Heard
    <3>2. Serves(V, W, prims) /\ EndGiven(V, regs)
      <4>1. on = [stack[Len(stack)] EXCEPT !.i = @ + 1] /\ stack[Len(stack)].t = "each" 
              /\ ~(stack[Len(stack)].i > Len(ListOf(prims, stack[Len(stack)].p, stack[Len(stack)].how)))
              /\ task.cb = ListOf(prims, stack[Len(stack)].p, stack[Len(stack)].how)[stack[Len(stack)].i]
        BY <1>1, <1>4, <2>6
      <4> HIDE DEF task, on, list
      <4> QED BY <1>1, <2>4, <2>6, <3>1, <4>1, EachServes
    <3>3. s \in Seq(Tasks) /\ Len(s) = Len(stack) /\ \A m \in 1 .. Len(s) : s[m] = IF m = Len(stack) THEN on ELSE stack[m]
      <4> HIDE DEF on
      <4> QED BY <1>1, <2>4
    <3>4. on.t = "each"
      BY <1>1 DEF Tasks
    <3> HIDE DEF V, W, task, s, on
    <3>5. Heard(prims, V, regs, calls, adopts, {})
      BY <3>1, <3>2, HeardServed
    <3>6. SettleUser(s)
      <4> SUFFICES ASSUME NEW m \in 1 .. Len(s), s[m].t = "settle", s[m].p <= 2, m # 1 PROVE s[m - 1].t = "user"
        BY DEF SettleUser
      <4>1. m \in 1 .. Len(stack) /\ s[m] = stack[m]
        BY <3>3, <3>4
      <4>2. stack[m - 1].t = "user"
        BY <3>1, <4>1 DEF SettleUser
      <4>3. m - 1 \in 1 .. Len(s) /\ m - 1 # Len(stack)
        BY <1>1, <4>1, <3>3
      <4> QED BY <3>3, <4>2, <4>3
    <3>7. SettleUser(Append(s, task))
      BY <2>6, <3>3, <3>6, SettleUserPush
    <3> QED BY <3>5, <3>7 DEF Lives, V
  <2> QED BY <1>2, <2>1, <2>2, <2>7, LivesOn
<1> QED BY <1>3, <1>4

\* A tick begins: what it was to do is now on the stack.
LEMMA TickServes ==
  ASSUME NEW e, NEW t, NEW s, NEW u, Ticked(e, t, s, u), NEW P, NEW R, TasksOK(P, Work(e, t), R), EndGiven(Work(e, t), R)
  PROVE  Serves(Work(s, u), Work(e, t), P) /\ EndGiven(Work(s, u), R) /\ SettleUser(s)
<1> DEFINE W == Work(e, t)
           V == Work(s, u)
           f(l) == IF l = 0 - 1 THEN 1 ELSE l + 1
           g(l) == IF l > 0 THEN 0 - 1 ELSE l - 1
<1>1. /\ \A l : l \in DOMAIN V <=> l \in Int /\ l # 0 /\ 0 - (Len(t) - 1) <= l /\ l <= 1
      /\ V[1] = t[1] /\ \A l \in 1 .. Len(t) - 1 : V[0 - l] = t[l + 1]
      /\ \A l : l \in DOMAIN W <=> l \in Int /\ l # 0 /\ 0 - Len(t) <= l /\ l <= 0
      /\ \A l \in 1 .. Len(t) : W[0 - l] = t[l]
      /\ s \in Seq(Tasks) /\ u \in Seq(Tasks) /\ Len(s) = 1 /\ Len(t) \in Nat \ {0}
  BY DEF Ticked
<1>2. TasksOK(P, W, R) /\ EndGiven(W, R) /\ V[1] = s[1]
  <2>1. 1 \in 1 .. Len(s)
    BY <1>1
  <2> QED BY <1>1, <2>1, WorkIs
<1> HIDE DEF V, W
<1>3. \A l \in DOMAIN V : g(l) \in DOMAIN W /\ V[l] = W[g(l)]
  <2> SUFFICES ASSUME NEW l \in DOMAIN V PROVE g(l) \in DOMAIN W /\ V[l] = W[g(l)]
    OBVIOUS
  <2>1. CASE l > 0
    <3>1. l = 1 /\ g(l) = 0 - 1 /\ 1 \in 1 .. Len(t)
      BY <2>1, <1>1
    <3>2. W[0 - 1] = t[1] /\ 0 - 1 \in DOMAIN W
      BY <1>1
    <3> QED BY <3>1, <3>2, <1>1
  <2>2. CASE ~(l > 0)
    <3>1. l \in Int /\ g(l) = l - 1 /\ 0 - l \in 1 .. Len(t) - 1 /\ (0 - l) + 1 \in 1 .. Len(t)
      BY <2>2, <1>1
    <3>2. V[0 - (0 - l)] = t[(0 - l) + 1] /\ W[0 - ((0 - l) + 1)] = t[(0 - l) + 1]
      BY <1>1, <3>1
    <3>3. 0 - (0 - l) = l /\ 0 - ((0 - l) + 1) = l - 1
      BY <3>1
    <3>4. l - 1 \in DOMAIN W
      <4>1. l - 1 \in Int /\ l - 1 # 0 /\ 0 - Len(t) <= l - 1 /\ l - 1 <= 0
        BY <2>2, <1>1
      <4> QED BY <4>1, <1>1
    <3> QED BY <3>1, <3>2, <3>3, <3>4
  <2> QED BY <2>1, <2>2
<1>4. \A l \in DOMAIN W : f(l) \in DOMAIN V /\ g(f(l)) = l
  <2> SUFFICES ASSUME NEW l \in DOMAIN W PROVE f(l) \in DOMAIN V /\ g(f(l)) = l
    OBVIOUS
  <2>1. l \in Int /\ l # 0 /\ 0 - Len(t) <= l /\ l <= 0 /\ Len(t) \in Nat \ {0}
    BY <1>1
  <2>2. CASE l = 0 - 1
    <3>1. f(l) = 1 /\ g(1) = 0 - 1
      BY <2>2
    <3>2. 1 \in DOMAIN V
      <4>1. 1 \in Int /\ 1 # 0 /\ 0 - (Len(t) - 1) <= 1 /\ 1 <= 1
        BY <2>1
      <4> QED BY <1>1, <4>1
    <3> QED BY <2>2, <3>1, <3>2
  <2>3. CASE l # 0 - 1
    <3>1. f(l) = l + 1 /\ l + 1 \in Int /\ l + 1 # 0 /\ 0 - (Len(t) - 1) <= l + 1 /\ l + 1 <= 1 /\ ~(l + 1 > 0)
      BY <2>1, <2>3
    <3>2. l + 1 \in DOMAIN V
      BY <1>1, <3>1
    <3>3. g(l + 1) = l
      BY <2>1, <3>1
    <3> QED BY <3>1, <3>2, <3>3
  <2> QED BY <2>2, <2>3
<1>5. \A l \in DOMAIN W : f(l) \in DOMAIN V /\ V[f(l)] = W[l]
  BY <1>3, <1>4
<1> HIDE DEF f, g
<1>6. \A l \in DOMAIN W : l < 0 /\ W[l].t \in {"each", "call"}
  BY <1>1, <1>2 DEF TasksOK, TaskOK
<1>7. ASSUME NEW l \in DOMAIN W, NEW j \in Due(P, W, l)
      PROVE  \E m \in DOMAIN V : \E i \in Due(P, V, m) : DueCb(P, V, m, i) = DueCb(P, W, l, j)
  <2>1. f(l) \in DOMAIN V /\ V[f(l)] = W[l]
    BY <1>5
  <2>2. Due(P, V, f(l)) = Due(P, W, l) /\ DueCb(P, V, f(l), j) = DueCb(P, W, l, j)
    BY <2>1 DEF Due, DueCb
  <2> QED BY <2>1, <2>2
<1>8. \A m \in DOMAIN V : V[m].t # "settle"
  BY <1>3, <1>6
<1>9. \A m \in DOMAIN W : W[m].t \in {"settle", "user"} => \E l \in DOMAIN V : V[l] = W[m]
  BY <1>5
<1>10. EndGiven(V, R)
  BY <1>2, <1>3 DEF EndGiven
<1>11. SettleUser(s)
  BY <1>1 DEF SettleUser
<1> QED BY <1>7, <1>8, <1>9, <1>10, <1>11 DEF Serves, V, W

\* A tick keeps what is to come.
LEMMA TickLives ==
  ASSUME Consistent, Tick
  PROVE  Kept /\ (Lively => Lively')
<1> DEFINE s == <<ticks[1]>>
           u == Tail(ticks)
<1>1. /\ stack = <<>> /\ ticks \in Seq(Tasks) /\ ticks # <<>> /\ TasksOK(prims, Work(stack, ticks), regs)
  BY DEF Consistent, OK, Tick, Running, Sane
<1>2. Ticked(stack, ticks, s, u)
  BY <1>1, WorkTicked
<1>3. /\ stack' = s /\ ticks' = u /\ sync' = sync /\ prims' = prims /\ exc' = exc /\ regs' = regs /\ calls' = calls
      /\ adopts' = adopts /\ escaped' = escaped
  BY DEF Tick
<1>4. ~Fails(exc)
  BY Zenon DEF Tick, Fails
<1> HIDE DEF s, u, Tick
<1>5. Become(St(prims, s, u, exc, regs, calls, adopts))
  BY <1>3 DEF Become, St
<1>6. ASSUME Lives(prims, stack, ticks, regs, calls, adopts) PROVE Lives(prims, s, u, regs, calls, adopts)
  <2>1. Heard(prims, Work(stack, ticks), regs, calls, adopts, {}) /\ EndGiven(Work(stack, ticks), regs)
    BY <1>6 DEF Lives, Heard
  <2>2. Serves(Work(s, u), Work(stack, ticks), prims) /\ EndGiven(Work(s, u), regs) /\ SettleUser(s)
    BY <1>1, <1>2, <2>1, TickServes
  <2>3. Heard(prims, Work(s, u), regs, calls, adopts, {})
    BY <2>1, <2>2, HeardServed
  <2> QED BY <2>2, <2>3 DEF Lives
<1>7. \A r \in 1 .. Len(regs) : r \in 1 .. Len(regs) /\ regs[r] = regs[r]
  OBVIOUS
<1> QED BY <1>3, <1>4, <1>5, <1>6, <1>7, LivesOn DEF Kept

\* The callback of a call.
LEMMA TopCb ==
  ASSUME Consistent, Running, Top.t = "call"
  PROVE  /\ Top.cb.h \in {"end", "none", "user", "settle"} /\ (Top.cb.next = 0 <=> Top.cb.h = "end")
         /\ (Top.cb.arg = 0 <=> Top.cb.h # "settle") /\ (Top.cb.next = 0 => Top.how = "fail")
<1> DEFINE W == Work(stack, ticks)
           l == Len(stack)
<1>1. W[l] = Top /\ TaskOK(prims, W, regs, l)
  BY TopIs
<1> HIDE DEF W, l
<1>2. CbOK(Top.cb, Top.how)
  BY <1>1 DEF TaskOK
<1> QED BY <1>2 DEF CbOK

\* A function that a then gave to callback or errback is called, in its try.
LEMMA CallTried ==
  ASSUME Consistent, Running, Top.t = "call", Lives(prims, stack, ticks, regs, calls, adopts),
         NEW n, n = Top.cb.next, n # 0, NEW a, a = Top.cb.arg, NEW s, s = Append(Front(stack), TryTask(n))
  PROVE  /\ s \in Seq(Tasks) /\ s # <<>> /\ s[Len(s)].t = "try" /\ SettleUser(s) /\ ticks \in Seq(Tasks)
         /\ Heard(prims, Work(s, ticks), regs, calls, adopts, {n, a})
         /\ n \in 1 .. Len(prims) /\ n > 2 /\ Pending(prims, n) /\ ~IsTask(Work(s, ticks), "settle", n) /\ adopts[n] = 0
         /\ \A r \in 1 .. Len(regs) : regs[r][3] = n =>
              Top.x = prims[regs[r][1]].x /\ Matches(Top.how, prims[regs[r][1]].s)
         /\ a # 0 => /\ a \in 1 .. Len(prims) /\ a > 2 /\ a # n /\ CalledBack(calls, a) /\ Pending(prims, a)
                     /\ ~IsTask(Work(s, ticks), "settle", a) /\ ~Pending(prims, adopts[a])
<1> DEFINE W == Work(stack, ticks)
           V == Work(Front(stack), ticks)
           l == Len(stack)
           task == TryTask(n)
<1>1. /\ l \in DOMAIN W /\ W[l] = Top /\ Without(V, W, l) /\ Sane(prims, W, regs, calls, adopts) /\ Front(stack) \in Seq(Tasks)
      /\ ticks \in Seq(Tasks) /\ DOMAIN V \subseteq DOMAIN W /\ (\A m \in DOMAIN V : V[m] = W[m])
  BY TopIs DEF Consistent, OK
<1>2. n \in Nat /\ a \in Nat
  BY TopTask
<1>3. task \in Tasks /\ task.t = "try" /\ task.p = n
  BY <1>2, TaskTypes
<1>4. Heard(prims, W, regs, calls, adopts, {}) /\ SettleUser(stack)
  BY DEF Lives
<1>5. Heard(prims, V, regs, calls, adopts, {n, a}) /\ SettleUser(Front(stack))
  <2>1. {} \subseteq {n, a} /\ Top.cb.next \in {n, a} /\ Top.cb.arg \in {n, a}
    OBVIOUS
  <2>2. Heard(prims, V, regs, calls, adopts, {n, a})
    <3> DEFINE F == {n, a}
               E == {}
    <3>1. /\ Top.t # "settle" /\ Top.t # "each" /\ Top.t # "user" /\ E \subseteq F /\ Top.cb.next \in F /\ Top.cb.arg \in F
          /\ Heard(prims, Work(stack, ticks), regs, calls, adopts, E)
      BY <1>4, <2>1
    <3> HIDE DEF E, F
    <3>2. Heard(prims, Work(Front(stack), ticks), regs, calls, adopts, F)
      BY <3>1, TopLess
    <3> QED BY <3>2 DEF F
  <2> QED BY <1>4, <2>2, TopUser
<1> HIDE DEF task, l
<1>6. s \in Seq(Tasks) /\ s # <<>> /\ s[Len(s)] = task
  BY <1>1, <1>3 DEF task
<1>7. SettleUser(s)
  BY <1>1, <1>3, <1>5, SettleUserPush DEF task
<1>8. Heard(prims, Work(s, ticks), regs, calls, adopts, {n, a})
  <2>1. Met(prims, Work(Append(Front(stack), task), ticks), adopts, {n, a}, {n, a})
    BY DEF Met
  <2>2. Heard(prims, Work(Append(Front(stack), task), ticks), regs, calls, adopts, {n, a})
    BY <1>1, <1>3, <1>5, <2>1, PushHeard
  <2> QED BY <2>2 DEF task
<1> HIDE DEF W, V
<1>9. /\ n \in 1 .. Len(prims) /\ n > 2 /\ Untouched(prims, V, adopts, n)
      /\ \E p \in 1 .. Len(prims) : Given(regs, p, Top.how, n) /\ Matches(Top.how, prims[p].s) /\ Top.x = prims[p].x
  <2>1. W[l].t = "call" /\ W[l].cb.next = n
    BY <1>1
  <2> DEFINE nx == W[l].cb.next
             hw == W[l].how
  <2>2. nx # 0
    BY <2>1
  <2> HIDE DEF l
  <2>3. /\ nx \in 1 .. Len(prims) /\ nx > 2 /\ NotDue(prims, V, nx) /\ NotWaiting(prims, V, nx) /\ NotArgued(prims, V, nx)
        /\ Untouched(prims, V, adopts, nx) /\ ~CalledBack(calls, nx)
        /\ \E p \in 1 .. Len(prims) : Given(regs, p, hw, nx) /\ Matches(hw, prims[p].s) /\ W[l].x = prims[p].x
    <3>1. l \in DOMAIN W /\ W[l].t = "call" /\ Without(V, W, l) /\ Sane(prims, W, regs, calls, adopts)
      BY <1>1, <2>1
    <3> QED BY <2>2, <3>1, CallFacts
  <2> QED BY <1>1, <2>1, <2>3
<1>10. ~IsTask(Work(s, ticks), "settle", n)
  <2>1. ~IsTask(Work(Front(stack), ticks), "settle", n)
    BY <1>9 DEF Untouched, V
  <2>2. ~IsTask(Work(Append(Front(stack), task), ticks), "settle", n)
    BY <1>1, <1>3, <2>1, PushTask
  <2> QED BY <2>2 DEF task
<1>11. ASSUME NEW r \in 1 .. Len(regs), regs[r][3] = n
       PROVE  Top.x = prims[regs[r][1]].x /\ Matches(Top.how, prims[regs[r][1]].s)
  <2>1. PICK p \in 1 .. Len(prims) : Given(regs, p, Top.how, n) /\ Matches(Top.how, prims[p].s) /\ Top.x = prims[p].x
    BY <1>9
  <2>2. PICK q \in 1 .. Len(regs) : regs[q][1] = p /\ regs[q][3] = n
    BY <2>1 DEF Given, Is
  <2>3. regs[r][1] = regs[q][1]
    BY <1>1, <1>11, <2>2 DEF Sane, RegsOK
  <2> QED BY <2>1, <2>2, <2>3
<1>12. ASSUME a # 0
       PROVE  /\ a \in 1 .. Len(prims) /\ a > 2 /\ a # n /\ CalledBack(calls, a) /\ Pending(prims, a)
              /\ ~IsTask(Work(s, ticks), "settle", a) /\ ~Pending(prims, adopts[a])
  <2>1. W[l].t = "call" /\ W[l].cb.arg = a
    BY <1>1
  <2>2. a \in 1 .. Len(prims) /\ Unsettled(prims, W, a) /\ ~Pending(prims, adopts[a])
    <3>1. /\ W[l].cb.arg \in 1 .. Len(prims) /\ Unsettled(prims, W, W[l].cb.arg)
          /\ Agrees(prims, IF W[l].how = "ok" THEN "v" ELSE "e", W[l].x, adopts[W[l].cb.arg])
      BY <1>1, <1>12, <2>1, CallFacts
    <3> QED BY <2>1, <3>1 DEF Agrees
  <2>3. adopts[a] # 0
    <3>1. Given(regs, adopts[a], W[l].how, W[l].cb.next)
      BY <1>1, <1>12, <2>1 DEF Sane, ArgOK
    <3>2. \A r \in 1 .. Len(regs) : regs[r][1] \in 1 .. Len(prims)
      BY <1>1 DEF Sane, RegsOK
    <3> QED BY <3>1, <3>2 DEF Given, Is
  <2>4. a > 2 /\ CalledBack(calls, a)
    BY <1>1, <2>2, <2>3 DEF Sane, AdoptOK
  <2>5. a # n
    BY <1>9, <2>3 DEF Untouched
  <2>6. ~IsTask(V, "settle", a)
    BY <1>1, <2>2 DEF Unsettled, IsTask
  <2>7. ~IsTask(Work(Append(Front(stack), task), ticks), "settle", a)
    BY <1>1, <1>3, <2>6, PushTask DEF V
  <2> QED BY <2>2, <2>4, <2>5, <2>7 DEF task, Unsettled
<1>13. s[Len(s)].t = "try" /\ Pending(prims, n) /\ adopts[n] = 0
  BY <1>3, <1>6, <1>9 DEF Untouched
<1> QED BY <1>1, <1>6, <1>7, <1>8, <1>9, <1>10, <1>11, <1>12, <1>13

\* A promise of a then without a function is settled as the one it hangs on.
LEMMA NoneLives ==
  ASSUME Consistent, Running, Top.t = "call", Lives(prims, stack, ticks, regs, calls, adopts), Top.cb.h = "none"
  PROVE  Lives(prims, Append(Tried, SettleTask(Top.cb.next, SettledIn, Top.x)), ticks, regs, calls, adopts)
<1>1. PICK n, a, s, how : /\ n = Top.cb.next /\ a = Top.cb.arg /\ s = Append(Front(stack), TryTask(n)) 
                          /\ s = Tried /\ how = SettledIn /\ how = (IF Top.how = "ok" THEN "v" ELSE "e")
  BY DEF Tried, SettledIn
<1>2. n # 0 /\ a = 0
  BY <1>1, TopCb
<1>3. /\ s \in Seq(Tasks) /\ SettleUser(s) /\ ticks \in Seq(Tasks)
      /\ Heard(prims, Work(s, ticks), regs, calls, adopts, {n, a})
      /\ n \in 1 .. Len(prims) /\ n > 2 /\ Pending(prims, n) /\ ~IsTask(Work(s, ticks), "settle", n) /\ adopts[n] = 0
      /\ \A r \in 1 .. Len(regs) : regs[r][3] = n =>
           Top.x = prims[regs[r][1]].x /\ Matches(Top.how, prims[regs[r][1]].s)
  BY <1>1, <1>2, CallTried
<1> DEFINE task == SettleTask(n, how, Top.x)
<1>4. task \in Tasks /\ task.t = "settle" /\ task.p = n /\ task.how = how /\ task.x = Top.x
  <2>1. n \in Nat /\ how \in {"v", "e"} /\ Top.x \in Values
    BY <1>1, TopTask
  <2> QED BY <2>1, TaskTypes
<1> HIDE DEF task
<1>5. Met(prims, Work(Append(s, task), ticks), adopts, {}, {n, a})
  <2>1. \A m \in {n, a} : m \in {} \/ m = 0 \/ m = n
    BY <1>2
  <2> QED BY <1>3, <1>4, <2>1, PushMet
<1>6. \A r \in 1 .. Len(regs) : regs[r][3] # 0 /\ regs[r][3] = task.p /\ regs[r][2] = "fail" /\ prims[regs[r][1]].s = "e"
        /\ ~CalledBack(calls, task.p) => Passed(prims, regs[r][1], task.how, task.x)
  BY <1>1, <1>3, <1>4 DEF Passed, Matches
<1>7. Heard(prims, Work(Append(s, task), ticks), regs, calls, adopts, {})
  BY <1>3, <1>4, <1>5, <1>6, PushHeard
<1>8. SettleUser(Append(s, task))
  BY <1>3, <1>4, SettleUserPush
<1> QED BY <1>1, <1>7, <1>8 DEF Lives, task

\* A function is called, in its try.
LEMMA UserLives ==
  ASSUME Consistent, Running, Top.t = "call", Lives(prims, stack, ticks, regs, calls, adopts), Top.cb.h = "user"
  PROVE  Lives(prims, Append(Tried, UserTask(Top.how, Top.cb, Top.x)), ticks, regs, Append(calls, <<Top.how, Top.cb.next>>), adopts)
<1>1. PICK n, a, s : /\ n = Top.cb.next /\ a = Top.cb.arg /\ s = Append(Front(stack), TryTask(n)) /\ s = Tried
  BY DEF Tried
<1>2. n # 0 /\ a = 0
  BY <1>1, TopCb
<1>3. /\ s \in Seq(Tasks) /\ SettleUser(s) /\ ticks \in Seq(Tasks)
      /\ Heard(prims, Work(s, ticks), regs, calls, adopts, {n, a}) /\ adopts[n] = 0
  BY <1>1, <1>2, CallTried
<1> DEFINE task == UserTask(Top.how, Top.cb, Top.x)
           C == Append(calls, <<Top.how, n>>)
<1>4. task \in Tasks /\ task.t = "user" /\ task.cb = Top.cb
  <2>1. Top.how \in Kinds /\ Top.cb \in Cbs /\ Top.x \in Values
    BY TopTask
  <2> QED BY <2>1, TaskTypes
<1>5. \A m : CalledBack(calls, m) => CalledBack(C, m)
  <2>1. calls \in Seq(Kinds \X Nat)
    BY TopIs DEF Sane, Typed
  <2>2. \A c \in 1 .. Len(calls) : c \in 1 .. Len(C) /\ C[c] = calls[c]
    BY <2>1
  <2> HIDE DEF C
  <2> QED BY <2>2 DEF CalledBack
<1> HIDE DEF task, C
<1>6. Met(prims, Work(Append(s, task), ticks), adopts, {}, {n, a})
  <2>1. \A m \in {n, a} : m \in {} \/ m = 0 \/ m = n
    BY <1>2
  <2> DEFINE F == {n, a}
             E == {}
  <2>2. /\ task.cb.next = n /\ adopts[n] = 0 /\ (\A m \in F : m \in E \/ m = 0 \/ m = n)
        /\ s \in Seq(Tasks) /\ ticks \in Seq(Tasks)
    BY <1>1, <1>3, <1>4, <2>1
  <2> HIDE DEF E, F
  <2>3. Met(prims, Work(Append(s, task), ticks), adopts, E, F)
    BY <1>4, <2>2, PushMet
  <2> QED BY <2>3 DEF E, F
<1>7. Heard(prims, Work(Append(s, task), ticks), regs, C, adopts, {})
  BY <1>3, <1>4, <1>5, <1>6, PushHeard
<1>8. SettleUser(Append(s, task))
  BY <1>3, <1>4, SettleUserPush
<1> QED BY <1>1, <1>7, <1>8 DEF Lives, task, C

\* What adopts a promise is settled as that promise is, and the then of its own with it.
LEMMA PrimLives ==
  ASSUME Consistent, Running, Top.t = "call", Lives(prims, stack, ticks, regs, calls, adopts), Top.cb.h = "settle"
  PROVE  Lives(prims, Append(Append(Tried, SettleTask(Top.cb.next, "v", "prim")), SettleTask(Top.cb.arg, SettledIn, Top.x)), ticks,
               regs, calls, adopts)
<1>1. PICK n, a, s, how : /\ n = Top.cb.next /\ a = Top.cb.arg /\ s = Append(Front(stack), TryTask(n)) 
                          /\ s = Tried /\ how = SettledIn /\ how = (IF Top.how = "ok" THEN "v" ELSE "e")
  BY DEF Tried, SettledIn
<1>2. n # 0 /\ a # 0
  BY <1>1, TopCb
<1>3. /\ s \in Seq(Tasks) /\ SettleUser(s) /\ ticks \in Seq(Tasks)
      /\ Heard(prims, Work(s, ticks), regs, calls, adopts, {n, a})
      /\ n \in 1 .. Len(prims) /\ n > 2 /\ Pending(prims, n) /\ ~IsTask(Work(s, ticks), "settle", n) /\ adopts[n] = 0
      /\ a \in 1 .. Len(prims) /\ a > 2 /\ a # n /\ CalledBack(calls, a) /\ Pending(prims, a)
      /\ ~IsTask(Work(s, ticks), "settle", a) /\ ~Pending(prims, adopts[a])
  BY <1>1, <1>2, CallTried
<1> DEFINE t1 == SettleTask(n, "v", "prim")
           t2 == SettleTask(a, how, Top.x)
           u == Append(s, t1)
<1>4. t1 \in Tasks /\ t1.t = "settle" /\ t1.p = n /\ t1.how = "v" /\ t1.x = "prim"
  <2>1. n \in Nat /\ "v" \in {"v", "e"} /\ "prim" \in Values
    BY <1>3 DEF Values
  <2> QED BY <2>1, TaskTypes
<1>5. t2 \in Tasks /\ t2.t = "settle" /\ t2.p = a
  <2>1. a \in Nat /\ how \in {"v", "e"} /\ Top.x \in Values
    BY <1>1, TopTask
  <2> QED BY <2>1, TaskTypes
<1> HIDE DEF t1, t2
<1>6. Heard(prims, Work(u, ticks), regs, calls, adopts, {a})
  <2>1. Met(prims, Work(Append(s, t1), ticks), adopts, {a}, {n, a})
    <3>1. \A m \in {n, a} : m \in {a} \/ m = 0 \/ m = n
      OBVIOUS
    <3> QED BY <1>3, <1>4, <3>1, PushMet
  <2>2. \A r : Passed(prims, regs[r][1], t1.how, t1.x)
    BY <1>4 DEF Passed
  <2> QED BY <1>3, <1>4, <2>1, <2>2, PushHeard
<1>7. u \in Seq(Tasks) /\ SettleUser(u) /\ ~IsTask(Work(u, ticks), "settle", a)
  <2>1. SettleUser(u)
    BY <1>3, <1>4, SettleUserPush
  <2>2. ~IsTask(Work(u, ticks), "settle", a)
    BY <1>3, <1>4, PushTask
  <2> QED BY <1>3, <1>4, <2>1, <2>2
<1> HIDE DEF u
<1>8. Heard(prims, Work(Append(u, t2), ticks), regs, calls, adopts, {})
  <2>1. Met(prims, Work(Append(u, t2), ticks), adopts, {}, {a})
    <3>1. \A m \in {a} : m \in {} \/ m = 0 \/ m = a
      OBVIOUS
    <3> QED BY <1>3, <1>5, <1>7, <3>1, PushMet
  <2> QED BY <1>3, <1>5, <1>6, <1>7, <2>1, PushHeard
<1>9. SettleUser(Append(u, t2))
  BY <1>3, <1>5, <1>7, SettleUserPush
<1> QED BY <1>1, <1>8, <1>9 DEF Lives, t1, t2, u

\* end throws what nothing can take.
LEMMA EndLives ==
  ASSUME Consistent, Running, Top.t = "call", Top.cb.h = "end", Lives(prims, stack, ticks, regs, calls, adopts),
         Good(Front(stack), regs, Top.x, escaped)
  PROVE  Living(prims, Front(stack), ticks, regs, calls, adopts, Top.x)
<1> DEFINE W == Work(stack, ticks)
           V == Work(Front(stack), ticks)
           l == Len(stack)
<1>1. Top.cb.next = 0 /\ Top.cb.arg = 0
  BY TopCb
<1>2. Heard(prims, W, regs, calls, adopts, {}) /\ SettleUser(stack)
  BY DEF Lives
<1>3. Heard(prims, V, regs, calls, adopts, {}) /\ SettleUser(Front(stack))
  <2>1. {} \subseteq {0} /\ Top.cb.next \in {0} /\ Top.cb.arg \in {0}
    BY <1>1
  <2>2. Heard(prims, V, regs, calls, adopts, {0})
    BY <1>2, <2>1, TopLess
  <2>3. \A n \in {0} : n \in {} \/ n = 0 \/ (Comes(prims, V, adopts, n) /\ (adopts[n] # 0 => Adopting(prims, V, adopts, n)))
    OBVIOUS
  <2> HIDE DEF V
  <2>4. Heard(prims, V, regs, calls, adopts, {})
    BY <2>2, <2>3, HeardMet
  <2> QED BY <1>2, <2>4, TopUser
<1>4. ~Fails(Top.x)
  <2> SUFFICES ASSUME Fails(Top.x) PROVE FALSE
    OBVIOUS
  <2>1. PICK m \in 1 .. Len(Front(stack)) : Front(stack)[m].t = "try"
    BY DEF Good
  <2>2. /\ W[l] = Top /\ l \in DOMAIN W /\ stack \in Seq(Tasks) /\ stack # <<>> /\ ticks \in Seq(Tasks) /\ l \in Nat \ {0}
        /\ (~sync => Ordered(prims, W, regs, calls))
    BY TopIs DEF Consistent, OK
  <2>3. CASE sync
    <3>1. \E r \in 1 .. Len(regs) : regs[r][3] = 0
      BY <1>1, <1>2, <2>2 DEF Heard, EndGiven
    <3> QED BY <2>3, <3>1 DEF Good
  <2>4. CASE ~sync
    <3>1. m \in 1 .. l - 1 /\ Front(stack)[m] = stack[m]
      BY <2>2, WorkPop
    <3>2. m \in 1 .. l /\ 0 < m /\ m < l
      BY <2>2, <3>1
    <3>3. m \in DOMAIN W /\ W[m] = stack[m]
      <4>1. m \in Int /\ m # 0 /\ 0 - Len(ticks) <= m /\ m <= Len(stack)
        <5>1. Len(ticks) \in Nat
          BY <2>2
        <5> QED BY <3>2, <5>1
      <4> QED BY <2>2, <3>2, <4>1, WorkIs
    <3>4. l > 0 /\ Shallow(W)
      BY <2>2, <2>4 DEF Ordered
    <3> HIDE DEF W, l
    <3>5. W[m].t = "each"
      BY <2>2, <3>2, <3>3, <3>4 DEF Shallow
    <3> QED BY <2>1, <3>1, <3>3, <3>5
  <2> QED BY <2>3, <2>4
<1>5. Lives(prims, Front(stack), ticks, regs, calls, adopts)
  BY <1>3 DEF Lives
<1> QED BY <1>4, <1>5, Unthrown

\* What a then gave is called.
LEMMA CallLives ==
  ASSUME Consistent, Running, ~Fails(exc), Top.t = "call", Become(CallStep), sync' = sync, escaped' = escaped
  PROVE  Kept /\ (Lively => Lively')
<1>1. \A r \in 1 .. Len(regs) : r \in 1 .. Len(regs) /\ regs[r] = regs[r]
  OBVIOUS
<1>2. CASE Top.cb.h = "end"
  <2>1. Top.how = "fail"
    BY <1>2, TopCb
  <2>2. Become(St(prims, Front(stack), ticks, Top.x, regs, calls, adopts))
    BY <1>2, <2>1, CallIs
  <2>3. Kept
    BY <2>2, StateIs DEF Kept
  <2>4. Good(Front(stack), regs, Top.x, escaped) /\ Lives(prims, stack, ticks, regs, calls, adopts)
          => Living(prims, Front(stack), ticks, regs, calls, adopts, Top.x)
    BY <1>2, EndLives
  <2> QED BY <1>1, <2>2, <2>3, <2>4, LivelyBecomes
<1>3. CASE Top.cb.h = "none"
  <2> DEFINE s == Append(Tried, SettleTask(Top.cb.next, SettledIn, Top.x))
  <2>1. Become(St(prims, s, ticks, exc, regs, calls, adopts))
    BY <1>3, CallIs
  <2>2. Lives(prims, stack, ticks, regs, calls, adopts) => Lives(prims, s, ticks, regs, calls, adopts)
    BY <1>3, NoneLives
  <2> HIDE DEF s
  <2>3. Kept
    BY <2>1, StateIs DEF Kept
  <2> QED BY <1>1, <2>1, <2>2, <2>3, LivesOn
<1>4. CASE Top.cb.h = "user"
  <2> DEFINE s == Append(Tried, UserTask(Top.how, Top.cb, Top.x))
             C == Append(calls, <<Top.how, Top.cb.next>>)
  <2>1. Become(St(prims, s, ticks, exc, regs, C, adopts))
    BY <1>4, CallIs
  <2>2. Lives(prims, stack, ticks, regs, calls, adopts) => Lives(prims, s, ticks, regs, C, adopts)
    BY <1>4, UserLives
  <2> HIDE DEF s, C
  <2>3. Kept
    BY <2>1, StateIs DEF Kept
  <2> QED BY <1>1, <2>1, <2>2, <2>3, LivesOn
<1>5. CASE Top.cb.h = "settle"
  <2> DEFINE s == Append(Append(Tried, SettleTask(Top.cb.next, "v", "prim")), SettleTask(Top.cb.arg, SettledIn, Top.x))
  <2>1. Become(St(prims, s, ticks, exc, regs, calls, adopts))
    BY <1>5, CallIs
  <2>2. Lives(prims, stack, ticks, regs, calls, adopts) => Lives(prims, s, ticks, regs, calls, adopts)
    BY <1>5, PrimLives
  <2> HIDE DEF s
  <2>3. Kept
    BY <2>1, StateIs DEF Kept
  <2> QED BY <1>1, <2>1, <2>2, <2>3, LivesOn
<1>6. Top.cb.h \in {"end", "none", "user", "settle"}
  BY TopCb
<1> QED BY <1>2, <1>3, <1>4, <1>5, <1>6

\* A function returns a value: the promise it decides is settled with it.
LEMMA ReturnLives ==
  ASSUME Consistent, ReturnValue
  PROVE  Kept /\ (Lively => Lively')
<1> DEFINE n == Top.cb.next
           s == Front(stack)
           V == Work(Front(stack), ticks)
           task == SettleTask(n, "v", "value")
<1>1. /\ Running /\ Top.t = "user" /\ Become(Push(Pop(Here), task)) /\ sync' = sync /\ escaped' = escaped
  BY DEF ReturnValue, Returned, InUser
<1>2. ~Fails(exc)
  BY Zenon DEF ReturnValue, Returned, Fails
<1>3. /\ n \in 1 .. Len(prims) /\ n \in Nat /\ n > 2 /\ adopts[n] = 0 /\ Pending(prims, n) /\ ~IsTask(V, "settle", n) /\ CalledBack(calls, n)
      /\ s \in Seq(Tasks) /\ ticks \in Seq(Tasks)
  BY <1>1, UserTop DEF Consistent, OK
<1>4. task \in Tasks /\ task.t = "settle" /\ task.p = n /\ task.how = "v"
  <2>1. "value" \in Values
    BY DEF Values
  <2> QED BY <1>3, <2>1, TaskTypes
<1>5. Become(St(prims, Append(s, task), ticks, exc, regs, calls, adopts))
  BY <1>1, StateIs
<1>6. ASSUME Lives(prims, stack, ticks, regs, calls, adopts) PROVE Lives(prims, Append(s, task), ticks, regs, calls, adopts)
  <2>1. Heard(prims, Work(stack, ticks), regs, calls, adopts, {}) /\ SettleUser(stack)
    BY <1>6 DEF Lives
  <2>2. Heard(prims, Work(s, ticks), regs, calls, adopts, {n}) /\ SettleUser(s)
    <3>1. {} \subseteq {n} /\ Top.cb.next \in {n} /\ Top.t # "settle" /\ Top.t # "call" /\ Top.t # "each"
      BY <1>1
    <3>2. Heard(prims, Work(s, ticks), regs, calls, adopts, {n})
      BY <1>1, <2>1, <3>1, TopLess
    <3> QED BY <1>1, <2>1, <3>2, TopUser
  <2> HIDE DEF task, n, s
  <2>3. Met(prims, Work(Append(s, task), ticks), adopts, {}, {n})
    <3>1. \A m \in {n} : m \in {} \/ m = 0 \/ m = n
      OBVIOUS
    <3> QED BY <1>3, <1>4, <3>1, PushMet
  <2>4. ~IsTask(Work(s, ticks), "settle", n)
    BY <1>3 DEF s
  <2>5. Heard(prims, Work(Append(s, task), ticks), regs, calls, adopts, {})
    BY <1>3, <1>4, <2>2, <2>3, <2>4, PushHeard
  <2>6. SettleUser(Append(s, task))
    BY <1>3, <1>4, <2>2, SettleUserPush
  <2> QED BY <2>5, <2>6 DEF Lives
<1>7. \A r \in 1 .. Len(regs) : r \in 1 .. Len(regs) /\ regs[r] = regs[r]
  OBVIOUS
<1> HIDE DEF task, s
<1>8. Kept
  BY <1>5, StateIs DEF Kept
<1> QED BY <1>1, <1>2, <1>5, <1>6, <1>7, <1>8, LivesOn

\* An error is thrown in a function, out of its try.
LEMMA UserThrows ==
  ASSUME Consistent, Running, Top.t = "user", NEW X, Fails(X), Heard(prims, Work(stack, ticks), regs, calls, adopts, {}), SettleUser(stack)
  PROVE  Living(prims, Front(stack), ticks, regs, calls, adopts, X)
<1> DEFINE n == Top.cb.next
           s == Front(stack)
           V == Work(Front(stack), ticks)
<1>1. /\ n \in 1 .. Len(prims) /\ Pending(prims, n) /\ adopts[n] = 0 /\ ~IsTask(V, "settle", n) /\ CalledBack(calls, n)
      /\ s # <<>> /\ s[Len(s)].t = "try" /\ s[Len(s)].p = n
  BY UserTop
<1>2. Heard(prims, V, regs, calls, adopts, {n}) /\ SettleUser(s)
  <2>1. {} \subseteq {n} /\ Top.cb.next \in {n} /\ Top.t # "settle" /\ Top.t # "call" /\ Top.t # "each"
    OBVIOUS
  <2>2. Heard(prims, V, regs, calls, adopts, {n})
    BY <2>1, TopLess
  <2> QED BY <2>2, TopUser
<1>3. Lost(s, X) = {n}
  <2>1. n \in Nat
    BY <1>1
  <2> HIDE DEF n, s
  <2> QED BY <1>1, <2>1 DEF Lost
<1>4. Thrown(prims, V, s, calls, X)
  BY <1>1 DEF Thrown
<1> QED BY <1>2, <1>3, <1>4 DEF Living

\* What is to come, in the state to which an action leads.
LEMMA LivelyIs ==
  ASSUME NEW P, NEW s, NEW t, NEW X, NEW R, NEW C, NEW A, Become(St(P, s, t, X, R, C, A)), sync' = sync, escaped' = escaped
  PROVE  Lively' <=> (Good(s, R, X, escaped) => Living(P, s, t, R, C, A, X))
<1>1. /\ prims' = P /\ stack' = s /\ ticks' = t /\ exc' = X /\ regs' = R /\ calls' = C /\ adopts' = A
  BY StateIs
<1> QED BY <1>1 DEF Lively, Good, Living

\* A function throws.
LEMMA ThrowLives ==
  ASSUME Consistent, ThrowError
  PROVE  Kept /\ (Lively => Lively')
<1> DEFINE s == Front(stack)
<1>1. /\ Running /\ Top.t = "user" /\ Become([Pop(Here) EXCEPT !.exc = "err"]) /\ sync' = sync /\ escaped' = escaped
  BY DEF ThrowError, Returned, InUser
<1>2. ~Fails(exc)
  BY Zenon DEF ThrowError, Returned, Fails
<1>3. PICK X : X = "err" /\ Fails(X)
  <2>1. \A n \in {"err"} : Fails(n)
    BY Zenon DEF Fails
  <2> QED BY <2>1
<1>4. Become(St(prims, s, ticks, X, regs, calls, adopts))
  <2>1. Pop(Here) = St(prims, s, ticks, exc, regs, calls, adopts)
    BY StateIs
  <2>2. [St(prims, s, ticks, exc, regs, calls, adopts) EXCEPT !.exc = X] = St(prims, s, ticks, X, regs, calls, adopts)
    BY DEF St
  <2> QED BY <1>1, <1>3, <2>1, <2>2
<1>5. Kept
  BY <1>4, StateIs DEF Kept
<1>6. Lives(prims, stack, ticks, regs, calls, adopts) => Living(prims, s, ticks, regs, calls, adopts, X)
  BY <1>1, <1>3, UserThrows DEF Lives
<1>7. \A r \in 1 .. Len(regs) : r \in 1 .. Len(regs) /\ regs[r] = regs[r]
  OBVIOUS
<1> HIDE DEF s
<1> QED BY <1>1, <1>2, <1>4, <1>5, <1>6, <1>7, LivelyBecomes

\* A try takes an error: the promise of its then is settled with it.
LEMMA TryTakes ==
  ASSUME Consistent, Running, Fails(exc), Top.t = "try", NEW task, task = SettleTask(Top.p, "e", exc),
         Living(prims, stack, ticks, regs, calls, adopts, exc)
  PROVE  Lives(prims, Append(Front(stack), task), ticks, regs, calls, adopts)
<1> DEFINE s == Front(stack)
           V == Work(s, ticks)
           W == Work(stack, ticks)
           p == Top.p
<1>1. /\ s \in Seq(Tasks) /\ ticks \in Seq(Tasks) /\ exc \in Values /\ Top = stack[Len(stack)] /\ stack # <<>>
      /\ DOMAIN V \subseteq DOMAIN W /\ (\A m \in DOMAIN V : V[m] = W[m]) /\ Sane(prims, W, regs, calls, adopts)
  BY TopIs DEF Consistent, OK
<1>2. p \in 1 .. Len(prims) /\ p \in Nat
  BY TopTask
<1>3. Heard(prims, W, regs, calls, adopts, {p})
  <2>1. Lost(stack, exc) = {p}
    BY <1>1, <1>2 DEF Lost
  <2> QED BY <2>1 DEF Living
<1>4. Pending(prims, p) /\ CalledBack(calls, p) /\ ~IsTask(W, "settle", p) /\ SettleUser(stack)
  BY <1>1 DEF Living, Thrown
<1>5. adopts[p] = 0
  <2>1. Done(prims, adopts, p)
    BY TopTries
  <2> QED BY <1>4, <2>1 DEF Done
<1>6. p > 2
  <2> HIDE DEF W, p
  <2> QED BY <1>1, <1>2, <1>4, TaskFacts
<1>7. Heard(prims, V, regs, calls, adopts, {p}) /\ SettleUser(s)
  <2>1. {p} \subseteq {p} /\ Top.t # "settle" /\ Top.t # "user" /\ Top.t # "call" /\ Top.t # "each"
    OBVIOUS
  <2>2. Heard(prims, V, regs, calls, adopts, {p})
    BY <1>3, <2>1, TopLess
  <2> QED BY <1>4, <2>2, TopUser
<1>8. task \in Tasks /\ task.t = "settle" /\ task.p = p
  <2>1. \A how \in {"v", "e"} : SettleTask(p, how, exc) \in Tasks /\ SettleTask(p, how, exc).t = "settle" /\ SettleTask(p, how, exc).p = p
    BY <1>1, <1>2, TaskTypes
  <2> QED BY <2>1
<1>9. ~IsTask(V, "settle", p)
  <2> HIDE DEF V, W, p
  <2> QED BY <1>1, <1>4 DEF IsTask
<1> HIDE DEF W, p, s
<1>10. Met(prims, Work(Append(s, task), ticks), adopts, {}, {p})
  <2>1. \A m \in {p} : m \in {} \/ m = 0 \/ m = p
    OBVIOUS
  <2> QED BY <1>1, <1>5, <1>8, <2>1, PushMet
<1>11. Heard(prims, Work(Append(s, task), ticks), regs, calls, adopts, {})
  BY <1>1, <1>4, <1>7, <1>8, <1>9, <1>10, PushHeard
<1>12. SettleUser(Append(s, task))
  BY <1>1, <1>2, <1>6, <1>7, <1>8, SettleUserPush
<1> QED BY <1>11, <1>12 DEF Lives, s

\* An error leaves a task.
LEMMA UnwindLives ==
  ASSUME Consistent, Running, Fails(exc), Become(Unwind), sync' = sync, escaped' = escaped
  PROVE  Kept /\ (Lively => Lively')
<1> DEFINE s == Front(stack)
           task == SettleTask(Top.p, "e", exc)
<1>1. Pop(Here) = St(prims, s, ticks, exc, regs, calls, adopts)
  BY StateIs
<1>2. /\ stack \in Seq(Tasks) /\ stack # <<>> /\ Top = stack[Len(stack)] /\ Len(stack) \in 1 .. Len(stack)
      /\ \A m \in 1 .. Len(s) : m \in 1 .. Len(stack) /\ s[m] = stack[m]
  <2>1. stack \in Seq(Tasks) /\ stack # <<>> /\ Top = stack[Len(stack)] /\ ticks \in Seq(Tasks)
    BY TopIs DEF Consistent, OK
  <2>2. Len(s) = Len(stack) - 1 /\ Len(stack) \in Nat \ {0} /\ \A m \in 1 .. Len(stack) - 1 : s[m] = stack[m]
    BY <2>1, WorkPop
  <2> QED BY <2>1, <2>2
<1>3. CASE Top.t # "try"
  <2>1. Become(St(prims, s, ticks, exc, regs, calls, adopts))
    BY <1>1, <1>3 DEF Unwind
  <2>2. Kept
    BY <2>1, StateIs DEF Kept
  <2>3. ASSUME Lively, Good(s, regs, exc, escaped) PROVE Living(prims, s, ticks, regs, calls, adopts, exc)
    <3>1. Good(stack, regs, exc, escaped)
      BY <1>2, <2>3 DEF Good
    <3>2. Living(prims, stack, ticks, regs, calls, adopts, exc)
      BY <2>3, <3>1 DEF Lively
    <3>3. Top.t = "user" /\ Lost(stack, exc) = {}
      BY <1>2, <1>3, <3>2 DEF Living, Thrown, Lost
    <3> QED BY <3>2, <3>3, UserThrows DEF Living
  <2>4. Lively' <=> (Good(s, regs, exc, escaped) => Living(prims, s, ticks, regs, calls, adopts, exc))
    BY <2>1, LivelyIs
  <2> QED BY <2>2, <2>3, <2>4
<1>4. CASE Top.t = "try"
  <2> DEFINE u == Append(s, task)
  <2>1. Become(St(prims, u, ticks, "", regs, calls, adopts))
    <3>1. Unwind = [Push(Pop(Here), task) EXCEPT !.exc = ""]
      BY <1>4 DEF Unwind
    <3>2. Push(Pop(Here), task) = St(prims, u, ticks, exc, regs, calls, adopts)
      BY <1>1, StateIs
    <3>3. \A w, e : [St(prims, w, ticks, exc, regs, calls, adopts) EXCEPT !.exc = e] = St(prims, w, ticks, e, regs, calls, adopts)
      BY DEF St
    <3>4. \A e : [Push(Pop(Here), task) EXCEPT !.exc = e] = St(prims, u, ticks, e, regs, calls, adopts)
      BY <3>2, <3>3
    <3> QED BY <3>1, <3>4, Zenon
  <2> HIDE DEF u
  <2>2. ASSUME NEW X, ~Fails(X), Become(St(prims, u, ticks, X, regs, calls, adopts)) PROVE Kept /\ (Lively => Lively')
    <3>1. Kept
      BY <2>2, StateIs DEF Kept
    <3>2. ASSUME Lively, Good(u, regs, X, escaped) PROVE Living(prims, u, ticks, regs, calls, adopts, X)
      <4>1. Good(stack, regs, exc, escaped)
        BY <1>2, <1>4, <3>2 DEF Good
      <4>2. Living(prims, stack, ticks, regs, calls, adopts, exc)
        BY <3>2, <4>1 DEF Lively
      <4>3. Lives(prims, u, ticks, regs, calls, adopts)
        BY <1>4, <4>2, TryTakes DEF u
      <4> QED BY <2>2, <4>3, Unthrown
    <3>3. Lively' <=> (Good(u, regs, X, escaped) => Living(prims, u, ticks, regs, calls, adopts, X))
      BY <2>2, LivelyIs
    <3> QED BY <3>1, <3>2, <3>3
  <2>3. ~Fails("")
    BY Zenon DEF Fails
  <2> QED BY <2>1, <2>2, <2>3, Zenon
<1> QED BY <1>3, <1>4

\* An error that nothing takes: from then on nothing is promised.
LEMMA EscapeLives ==
  ASSUME Escape
  PROVE  Kept /\ (Lively => Lively')
<1>1. prims' = prims /\ escaped' = escaped \cup {exc}
  BY Zenon DEF Escape
<1> HIDE DEF Escape
<1>2. escaped' # {}
  BY <1>1
<1> QED BY <1>1, <1>2 DEF Kept, Lively, Good

\* At the start nobody waits for anything.
LEMMA LivelyInit ==
  ASSUME PmInit
  PROVE  Lively
<1> DEFINE none == <<>>
           W == Work(none, none)
           A == <<0, 0>>
           P == <<NewPrim, NewPrim>>
<1>1. stack = none /\ ticks = none /\ regs = none /\ calls = none /\ adopts = A /\ prims = P
  BY Zenon DEF PmInit
<1>2. ~Fails(exc)
  BY Zenon DEF PmInit, Fails
<1> HIDE DEF PmInit
<1>3. none \in Seq(Tasks) /\ Len(none) = 0
  OBVIOUS
<1>4. \A l : l \notin DOMAIN W
  <2>1. \A l : l \in DOMAIN W <=> l \in Int /\ l # 0 /\ 0 - Len(none) <= l /\ l <= Len(none)
    BY <1>3, WorkIs
  <2> QED BY <1>3, <2>1
<1>5. Len(P) = 2 /\ \A n \in 1 .. 2 : A[n] = 0
  <2> DEFINE rec == NewPrim
  <2> HIDE DEF rec
  <2>1. Len(<<rec, rec>>) = 2
    OBVIOUS
  <2>2. \A n \in 1 .. 2 : A[n] = 0
    OBVIOUS
  <2> QED BY <2>1, <2>2 DEF rec
<1> HIDE DEF W, A, P, none
<1>6. Heard(P, W, none, none, A, {})
  BY <1>3, <1>4, <1>5 DEF Heard, PassesOn, SettleOnce, EndGiven
<1>7. SettleUser(none)
  BY <1>3 DEF SettleUser
<1>8. Lives(prims, stack, ticks, regs, calls, adopts)
  BY <1>1, <1>6, <1>7 DEF Lives, W
<1> QED BY <1>2, <1>8, Unthrown DEF Lively

\* Every step keeps what is settled, and leaves what is still to come.
LEMMA LivelyNext ==
  ASSUME Consistent, [PmNext]_pmvars
  PROVE  Kept /\ (Lively => Lively')
<1>1. CASE Step
  <2>1. /\ Running /\ sync' = sync
        /\ \/ Fails(exc) /\ Become(Unwind)
           \/ ~Fails(exc) /\ Top.t = "settle" /\ Become(settle(Pop(Here), Top.p, Top.how, Top.x))
           \/ ~Fails(exc) /\ Top.t = "each" /\ Become(EachStep)
           \/ ~Fails(exc) /\ Top.t = "call" /\ Become(CallStep)
           \/ ~Fails(exc) /\ Top.t = "try" /\ Become(Pop(Here))
    BY <1>1, StepIs
  <2>0. escaped' = escaped
    BY <1>1, Zenon DEF Step
  <2>2. CASE Fails(exc) /\ Become(Unwind)
    BY <2>0, <2>1, <2>2, UnwindLives
  <2>3. CASE ~Fails(exc) /\ Top.t = "settle" /\ Become(settle(Pop(Here), Top.p, Top.how, Top.x))
    BY <2>0, <2>1, <2>3, SettleLives
  <2>4. CASE ~Fails(exc) /\ Top.t = "each" /\ Become(EachStep)
    BY <2>0, <2>1, <2>4, EachLives
  <2>5. CASE ~Fails(exc) /\ Top.t = "call" /\ Become(CallStep)
    BY <2>0, <2>1, <2>5, CallLives
  <2>6. CASE ~Fails(exc) /\ Top.t = "try" /\ Become(Pop(Here))
    BY <2>0, <2>1, <2>6, TryLives
  <2> QED BY <2>1, <2>2, <2>3, <2>4, <2>5, <2>6
<1>2. CASE Escape
  BY <1>2, EscapeLives
<1>3. CASE Tick
  BY <1>3, TickLives
<1>4. CASE Then
  BY <1>4, ThenStep
<1>5. CASE End
  BY <1>5, EndStep
<1>6. CASE Settle
  BY <1>6, SettleOwn
<1>7. CASE serial
  BY <1>7, SerialStep
<1>8. CASE ReturnValue
  BY <1>8, ReturnLives
<1>9. CASE ThrowError
  BY <1>9, ThrowLives
<1>10. CASE ReturnPrim
  BY <1>10, ReturnPrimStep
<1>11. CASE UNCHANGED pmvars
  <2>1. UNCHANGED <<sync, prims, stack, ticks, exc, regs, calls, adopts, escaped>>
    BY <1>11 DEF pmvars
  <2> QED BY <2>1 DEF Kept, Lively, Good, Living
<1> QED BY <1>1, <1>2, <1>3, <1>4, <1>5, <1>6, <1>7, <1>8, <1>9, <1>10, <1>11 DEF PmNext

\* When nothing is left to do, all has come.
LEMMA QuietPassed ==
  ASSUME Consistent, Lively
  PROVE  PassedOn
<1> DEFINE W == Work(stack, ticks)
<1> SUFFICES ASSUME Quiet, escaped = {}, sync => \A i \in DOMAIN regs : regs[i][3] # 0, NEW i \in DOMAIN regs,
                    regs[i][3] # 0, prims[regs[i][1]].s = (IF regs[i][2] = "ok" THEN "v" ELSE "e")
             PROVE  \/ /\ prims[regs[i][3]].s # "pending"
                       /\ prims[regs[i][1]].s = "e" /\ ~HandledBy(i) =>
                            \/ prims[regs[i][3]].s = "e" /\ prims[regs[i][3]].x = prims[regs[i][1]].x
                            \/ prims[regs[i][3]].x = "prim"
                    \/ adopts[regs[i][3]] # 0 /\ prims[adopts[regs[i][3]]].s = "pending"
  BY DEF PassedOn
<1>1. stack = <<>> /\ ticks = <<>>
  BY Zenon DEF Quiet, Running
<1>2. ~Fails(exc)
  BY Zenon DEF Quiet, Fails
<1> HIDE DEF Quiet
<1>3. \A l : l \notin DOMAIN W
  <2>1. stack \in Seq(Tasks) /\ ticks \in Seq(Tasks) /\ Len(stack) = 0 /\ Len(ticks) = 0
    BY <1>1
  <2>2. \A l : l \in DOMAIN W <=> l \in Int /\ l # 0 /\ 0 - Len(ticks) <= l /\ l <= Len(stack)
    BY <2>1, WorkIs
  <2> QED BY <2>1, <2>2
<1>4. /\ DOMAIN regs = 1 .. Len(regs) /\ DOMAIN calls = 1 .. Len(calls) /\ (\A r \in 1 .. Len(regs) : regs[r][2] \in Kinds)
      /\ \A r \in 1 .. Len(regs) : regs[r][3] # 0 => regs[r][3] \in 1 .. Len(prims)
  <2>1. regs \in Seq(Nat \X Kinds \X Nat) /\ calls \in Seq(Kinds \X Nat) /\ RegsOK(prims, regs)
    BY DEF Consistent, OK, Sane, Typed
  <2> QED BY <2>1 DEF RegsOK
<1>5. Good(stack, regs, exc, escaped)
  BY <1>2, <1>4 DEF Good
<1>6. Heard(prims, W, regs, calls, adopts, {})
  <2>1. Living(prims, stack, ticks, regs, calls, adopts, exc)
    BY <1>5 DEF Lively
  <2> QED BY <1>2, <2>1, Unthrown DEF Lives
<1> HIDE DEF W
<1> DEFINE n == regs[i][3]
<1>7. Matches(regs[i][2], prims[regs[i][1]].s) /\ n \in 1 .. Len(prims) /\ i \in 1 .. Len(regs)
  BY <1>4 DEF Matches, Kinds
<1>8. ~Pending(prims, n) \/ adopts[n] # 0
  <2>1. Comes(prims, W, adopts, n)
    BY <1>6, <1>7 DEF Heard
  <2> QED BY <1>3, <2>1 DEF Comes, IsTask, IsDue
<1>9. CASE ~Pending(prims, n)
  <2>1. ASSUME prims[regs[i][1]].s = "e", ~HandledBy(i)
        PROVE  (prims[n].s = "e" /\ prims[n].x = prims[regs[i][1]].x) \/ prims[n].x = "prim"
    <3>1. regs[i][2] = "fail"
      BY <1>4, <1>7, <2>1 DEF Kinds
    <3>2. ~CalledBack(calls, n)
      BY <1>4, <2>1 DEF CalledBack, HandledBy, ToSet
    <3>3. PassesTo(prims, W, regs[i][1], n)
      BY <1>6, <1>7, <2>1, <3>1, <3>2 DEF Heard, PassesOn
    <3> QED BY <1>9, <3>3 DEF PassesTo, Passed
  <2> QED BY <1>9, <2>1 DEF Pending
<1>10. CASE Pending(prims, n)
  <2>1. adopts[n] # 0 /\ Adopting(prims, W, adopts, n)
    BY <1>6, <1>7, <1>8, <1>10 DEF Heard
  <2>2. Pending(prims, adopts[n])
    BY <1>3, <1>10, <2>1 DEF Adopting, IsTask, IsArg
  <2> QED BY <2>1, <2>2 DEF Pending
<1> QED BY <1>9, <1>10

\* Promises are kept, however many there are and however they depend on each other: what
\* is settled stays so; of a then one function is called, once; with ticks functions are
\* called in the order in which they were given; what adopts a promise is settled as it
\* is; and when nothing is left to do everyone has heard (2726-2888).
THEOREM PromisesAreKept == PmSpec => PromisesKept
<1>1. PmInit => Consistent /\ Lively
  BY ConsistentInit, LivelyInit
<1>2. Consistent /\ Lively /\ [PmNext]_pmvars => Consistent' /\ Lively'
  BY ConsistentNext, LivelyNext
<1>3. Consistent /\ [PmNext]_pmvars => [Kept]_pmvars
  BY LivelyNext
<1>4. Consistent /\ Lively => Once /\ InOrder /\ Adopted /\ PassedOn
  BY ConsistentSane, QuietPassed
<1> QED BY <1>1, <1>2, <1>3, <1>4, PTL DEF PmSpec, PromisesKept, StaysSettled
=============================================================================
