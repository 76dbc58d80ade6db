-------------------------------- MODULE Prim --------------------------------
(***************************************************************************)
(* prim, the promises of html/jquery-require-sample/r.js.  What is called  *)
(* back waits for the next tick, or, in a build, is called at once, within *)
(* whatever settles the promise (prim.nextTick, 22735): an error that a    *)
(* callback throws then goes through all the calls around it.              *)
(*                                                                         *)
(* The calls in progress are tasks on a stack, the innermost last.  While  *)
(* a function of the program runs it can itself use promises.              *)
(***************************************************************************)
EXTENDS Integers, Sequences, SequencesExt, FiniteSets

CONSTANTS MaxPrims, MaxPrimOps

VARIABLES sync,       \* nextTick calls at once
          prims,      \* [s, x, ok, fail]: "pending", "v" or "e"; its value; its callbacks
          stack, ticks,
          exc,        \* the error that is being thrown, "" for none
          escaped,    \* errors thrown out of everything
          primOps,    \* operations of the program
          regs,       \* callbacks registered: <<promise, "ok" or "fail", prim of its then>>, in order
          calls,      \* the functions called, the same way
          adopts      \* for each then: the promise that its function returned, 0 for none
pmvars == <<sync, prims, stack, ticks, exc, escaped, primOps, regs, calls, adopts>>

NewPrim == [s |-> "pending", x |-> "", ok |-> <<>>, fail |-> <<>>]
\* A callback: the function of a then (h), the prim it concerns and the one it settles.
Cb(h, arg, next) == [h |-> h, arg |-> arg, next |-> next]
Here == [prims |-> prims, stack |-> stack, ticks |-> ticks, exc |-> exc, regs |-> regs, calls |-> calls, adopts |-> adopts]
Become(st) == /\ prims' = st.prims /\ stack' = st.stack /\ ticks' = st.ticks /\ exc' = st.exc
              /\ regs' = st.regs /\ calls' = st.calls /\ adopts' = st.adopts
Task(t, p, how, i, cb, x) == [t |-> t, p |-> p, how |-> how, i |-> i, cb |-> cb, x |-> x]
NoCb == Cb("", 0, 0)
SettleTask(p, how, x) == Task("settle", p, how, 0, NoCb, x)
EachTask(p, how, x)   == Task("each", p, how, 1, NoCb, x)
CallTask(how, cb, x)  == Task("call", 0, how, 0, cb, x)
TryTask(next)         == Task("try", next, "", 0, NoCb, "")
UserTask(how, cb, x)  == Task("user", 0, how, 0, cb, x)
Push(st, task) == [st EXCEPT !.stack = Append(@, task)]
Pop(st) == [st EXCEPT !.stack = Front(@)]
-----------------------------------------------------------------------------
nextTick(st, task) == IF sync THEN Push(st, task) ELSE [st EXCEPT !.ticks = Append(@, task)]
notify(st, p, how, x) == nextTick(st, EachTask(p, IF how = "v" THEN "ok" ELSE "fail", x))
\* check: a promise is settled once.
check(st, p) == st.prims[p].s = "pending"
\* resolve and reject.
settle(st, p, how, x) ==
  IF check(st, p) THEN notify([st EXCEPT !.prims[p].s = how, !.prims[p].x = x], p, how, x)
  ELSE [st EXCEPT !.exc = "nope"]
\* Mutant: a callback for a promise that is settled waits for it to be settled.
addWaiting(st, p, how, cb) ==
  LET t == [st EXCEPT !.regs = Append(@, <<p, how, cb.next>>)]
  IN IF how = "ok" THEN [t EXCEPT !.prims[p].ok = Append(@, cb)] ELSE [t EXCEPT !.prims[p].fail = Append(@, cb)]
\* callback and errback.
addCallback(st, p, how, cb) ==
  LET t == [st EXCEPT !.regs = Append(@, <<p, how, cb.next>>)]
      q == st.prims[p]
  IN IF how = "ok"
     THEN IF q.s = "v" THEN nextTick(t, CallTask("ok", cb, q.x)) ELSE [t EXCEPT !.prims[p].ok = Append(@, cb)]
     ELSE IF q.s = "e" THEN nextTick(t, CallTask("fail", cb, q.x)) ELSE [t EXCEPT !.prims[p].fail = Append(@, cb)]
\* then: errback comes before callback (2766).
then(st, p, yes, no, arg) ==
  LET next == Len(st.prims) + 1
      made == [st EXCEPT !.prims = Append(@, NewPrim), !.adopts = Append(@, 0)]
  IN addCallback(addCallback(made, p, "fail", Cb(no, arg, next)), p, "ok", Cb(yes, arg, next))
-----------------------------------------------------------------------------
Top == Last(stack)
Running == stack # <<>>
\* A function of the program runs.
InUser == IF Running THEN Top.t = "user" ELSE FALSE
\* The next callback of a list that is notified; callbacks added to it meanwhile come, too.
EachStep ==
  LET list == IF Top.how = "ok" THEN prims[Top.p].ok ELSE prims[Top.p].fail
      on   == [Here EXCEPT !.stack[Len(stack)].i = @ + 1]
  IN IF Top.i > Len(list) THEN Pop(Here) ELSE Push(on, CallTask(Top.how, list[Top.i], Top.x))
\* The function that then gave to callback or errback: what it calls, in its try.
CallStep ==
  LET cb == Top.cb
      tried == Push(Pop(Here), TryTask(cb.next))
      passed == Push(tried, SettleTask(cb.next, IF Top.how = "ok" THEN "v" ELSE "e", Top.x))
  IN CASE cb.h = "end"  -> IF Top.how = "fail" THEN [Pop(Here) EXCEPT !.exc = Top.x] ELSE Pop(Here)
       [] cb.h = "none" -> passed
       [] cb.h = "user" -> [Push(tried, UserTask(Top.how, cb, Top.x)) EXCEPT !.calls = Append(@, <<Top.how, cb.next>>)]
       [] cb.h = "settle" ->      \* next.resolve or next.reject of another promise, in a then of its own
            Push(Push(tried, SettleTask(cb.next, "v", "prim")), SettleTask(cb.arg, IF Top.how = "ok" THEN "v" ELSE "e", Top.x))
\* An error leaves a task; at a try it rejects the promise of the then.
Unwind == IF Top.t = "try" THEN [Push(Pop(Here), SettleTask(Top.p, "e", exc)) EXCEPT !.exc = ""] ELSE Pop(Here)
Step ==
  /\ Running /\ (exc # "" \/ ~InUser)
  /\ Become(CASE exc # "" -> Unwind
              [] exc = "" /\ Top.t = "settle" -> settle(Pop(Here), Top.p, Top.how, Top.x)
              [] exc = "" /\ Top.t = "each"   -> EachStep
              [] exc = "" /\ Top.t = "call"   -> CallStep
              [] exc = "" /\ Top.t = "try"    -> Pop(Here))
  /\ UNCHANGED <<sync, escaped, primOps>>
\* Nothing is left that could catch it.
Escape == /\ ~Running /\ exc # "" /\ exc' = "" /\ escaped' = escaped \cup {exc}
          /\ UNCHANGED <<sync, prims, stack, ticks, primOps, regs, calls, adopts>>
Tick == /\ ~Running /\ exc = "" /\ ticks # <<>>
        /\ stack' = <<ticks[1]>> /\ ticks' = Tail(ticks)
        /\ UNCHANGED <<sync, prims, exc, escaped, primOps, regs, calls, adopts>>
-----------------------------------------------------------------------------
(* The program: at the top, or within a function that is called back.      *)
Own == exc = "" /\ (~Running \/ InUser)
Operation(st) == Own /\ primOps < MaxPrimOps /\ primOps' = primOps + 1 /\ Become(st) /\ UNCHANGED <<sync, escaped>>
Room(n) == Len(prims) + n <= MaxPrims
Then    == \E p \in DOMAIN prims, yes, no \in {"user", "none"} : Room(1) /\ Operation(then(Here, p, yes, no, 0))
End     == \E p \in DOMAIN prims : Operation(addCallback(Here, p, "fail", Cb("end", 0, 0)))
\* Only promises that no then made are settled by the program itself.
Settle  == \E p \in DOMAIN prims, how \in {"v", "e"} :
             adopts[p] = 0 /\ p <= 2 /\ Operation(Push(Here, SettleTask(p, how, IF how = "v" THEN "value" ELSE "err")))
\* prim.serial of two functions, one after the other.
serial  == /\ Room(3)
           /\ LET n == Len(prims) + 1
                  begun == [Here EXCEPT !.prims = Append(@, [NewPrim EXCEPT !.s = "v", !.x = "none"]), !.adopts = Append(@, 0)]
              IN Operation(then(then(begun, n, "user", "none", 0), n + 1, "user", "none", 0))
Returned == InUser /\ exc = ""
\* The function returns a value, throws, or returns a promise, on which then is called.
ReturnValue == Returned /\ Become(Push(Pop(Here), SettleTask(Top.cb.next, "v", "value"))) /\ UNCHANGED <<sync, escaped, primOps>>
ThrowError  == Returned /\ Become([Pop(Here) EXCEPT !.exc = "err"]) /\ UNCHANGED <<sync, escaped, primOps>>
ReturnPrim  ==
  \E q \in DOMAIN prims :
    /\ Returned /\ Room(1) /\ q < Top.cb.next
    /\ Become(then([Pop(Here) EXCEPT !.adopts[Top.cb.next] = q], q, "settle", "settle", Top.cb.next))
    /\ UNCHANGED <<sync, escaped, primOps>>
PmInit == /\ sync \in BOOLEAN /\ prims = <<NewPrim, NewPrim>> /\ stack = <<>> /\ ticks = <<>> /\ exc = ""
          /\ escaped = {} /\ primOps = 0 /\ regs = <<>> /\ calls = <<>> /\ adopts = <<0, 0>>
PmNext == Step \/ Escape \/ Tick \/ Then \/ End \/ Settle \/ serial \/ ReturnValue \/ ThrowError \/ ReturnPrim
PmSpec == PmInit /\ [][PmNext]_pmvars
-----------------------------------------------------------------------------
\* Of a then one function is called, once, whatever is settled twice and whatever
\* throws (2741-2749, 2818-2856).
Once == \A i, j \in DOMAIN calls : i # j => calls[i][2] # calls[j][2]
Kept == \A p \in DOMAIN prims : prims[p].s # "pending" => prims'[p].s = prims[p].s /\ prims'[p].x = prims[p].x
\* A promise keeps the way it was settled, and its value (2741-2749).
StaysSettled == [][Kept]_pmvars
\* With ticks, the functions of a promise are called in the order in which they were
\* given to it, before it was settled or after (2751-2787).
InOrder ==
  LET Reg(c) == CHOOSE i \in DOMAIN regs : regs[i][2] = c[1] /\ regs[i][3] = c[2]
  IN ~sync => \A i, j \in DOMAIN calls :
       i < j /\ calls[i][1] = calls[j][1] /\ regs[Reg(calls[i])][1] = regs[Reg(calls[j])][1] => Reg(calls[i]) < Reg(calls[j])
\* A then whose function returns a promise is settled as that promise is, not before it:
\* so the functions of a serial run one after the other (2827-2831, 2871-2879).
Adopted == \A n \in DOMAIN prims : adopts[n] # 0 /\ prims[n].s # "pending" /\ prims[n].x # "nope" =>
             prims[adopts[n]].s = prims[n].s /\ prims[adopts[n]].x = prims[n].x
Quiet == ~Running /\ ticks = <<>> /\ exc = ""
HandledBy(i) == \E c \in ToSet(calls) : c[2] = regs[i][3]
\* When all is quiet and no error has escaped, what hangs on a settled promise is settled,
\* but for what waits for another, and an error that no function took is passed on as it is.
PassedOn ==
  Quiet /\ escaped = {} /\ (sync => \A i \in DOMAIN regs : regs[i][3] # 0) => \A i \in DOMAIN regs :
    LET p == prims[regs[i][1]]   n == regs[i][3] IN
    n # 0 /\ p.s = (IF regs[i][2] = "ok" THEN "v" ELSE "e") =>
      \/ prims[n].s # "pending" /\ (p.s = "e" /\ ~HandledBy(i) =>
                                   (prims[n].s = "e" /\ prims[n].x = p.x) \/ prims[n].x = "prim")
      \/ adopts[n] # 0 /\ prims[adopts[n]].s = "pending"
\* Together: promises settle once, and everyone hears of it once, in order, also through
\* promises that were passed on or adopted.
PromisesKept == [](Once /\ InOrder /\ Adopted /\ PassedOn) /\ StaysSettled
=============================================================================
