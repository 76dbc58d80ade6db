-------------------------------- MODULE Ajax --------------------------------
(***************************************************************************)
(* jQuery.ajax (html/njs/jquery-1.7.2.js): the life of requests, from the  *)
(* prefilters to the last global event, with the timeout, the abort, the   *)
(* answer of the server and the callbacks of the page racing one another.  *)
(*                                                                         *)
(* ajax() and done() call the page back (prefilters, beforeSend, the       *)
(* events ajaxStart, ajaxSend, ajaxComplete and ajaxStop, the callbacks of *)
(* the deferred), and the page may start and abort requests there or throw:*)
(* stack holds the calls in progress, innermost first, each at a pc.       *)
(***************************************************************************)
EXTENDS Integers, Sequences, FiniteSets, FiniteSetTheorems, TLAPS

CONSTANTS Requests, Options,      \* the requests and the settings they may have
          JsonpNames,                  \* the names of jsonp callbacks
          MaxActs                 \* bound on what the page does by itself

VARIABLES opts, rq, stack, active, running, broken, win, acts, threw

avars == <<opts, rq, stack, active, running, broken, win, acts, threw>>

Page == "page"                    \* what window[name] was before any request
Blank == [state |-> 0, begun |-> FALSE, counted |-> FALSE, timer |-> FALSE, transport |-> "none", wire |-> "none",
          outcome |-> "none", dones |-> 0, previous |-> Page, container |-> "none", early |-> FALSE]

Call(r, pc) == [r |-> r, pc |-> pc]
Top == stack[1]
Goto(s, pc) == [s EXCEPT ![1].pc = pc]

\* done: what follows an answer, an abort, a timeout or an error.
done(q, s, r, outcome) ==
  IF q[r].state = 2 THEN [q |-> q, s |-> s]
  ELSE [q |-> [q EXCEPT ![r].state = 2, ![r].timer = FALSE, ![r].transport = "none", ![r].outcome = outcome,
                        ![r].dones = @ + 1],
        s |-> <<Call(r, "deferred")>> \o s]
\* jqXHR.abort: the transport first, whose callback is then gone.
abort(q, s, r, why) ==
  LET cut == IF q[r].transport = "sent" THEN [q EXCEPT ![r].wire = IF opts[r].kind = "jsonp" THEN @ ELSE "none"] ELSE q
  IN done(cut, s, r, why)

\* What the page does when it is called back: a request of its own is begun or
\* aborted, or an exception unwinds every call there is.
Nothing == [do |-> "nothing", r |-> "none"]
PageActs(self) ==
  {Nothing} \cup
  (IF acts = MaxActs THEN {} ELSE
     [do : {"begin"}, r : {r \in Requests : ~rq[r].begun}]
     \cup [do : {"abort"}, r : {r \in Requests : rq[r].begun /\ r \in self}] \cup {[do |-> "throw", r |-> "none"]})

\* With requests q and calls s, the page is called back and does a.
CallBack(q, s, a) ==
  LET cut == abort(q, s, a.r, "abort") IN
  /\ acts' = acts + (IF a.do = "nothing" THEN 0 ELSE 1)
  /\ threw' = (threw \/ a.do = "throw")
  /\ rq' = CASE a.do = "begin" -> [q EXCEPT ![a.r].begun = TRUE]
             [] a.do = "abort" -> cut.q
             [] OTHER -> q
  /\ stack' = CASE a.do = "begin" -> <<Call(a.r, "prefilter")>> \o s
                [] a.do = "abort" -> cut.s
                [] a.do = "throw" -> <<>>
                [] OTHER -> s
-----------------------------------------------------------------------------
(* jQuery.ajax.                                                            *)

At(pc) == stack # <<>> /\ Top.pc = pc /\ UNCHANGED opts

\* The page calls jQuery.ajax or abort from outside.
Outside ==
  /\ stack = <<>>
  /\ \E a \in PageActs(Requests) : a.do \in {"begin", "abort"} /\ CallBack(rq, stack, a)
  /\ UNCHANGED <<opts, active, running, broken, win>>

\* The prefilter of jsonp puts its own function in the window; prefilters of
\* the page are called and may abort.
Prefilter ==
  /\ At("prefilter")
  /\ LET r == Top.r
         q == IF opts[r].kind = "jsonp" THEN [rq EXCEPT ![r].previous = win[opts[r].name]] ELSE rq
     IN /\ win' = IF opts[r].kind = "jsonp" THEN [win EXCEPT ![opts[r].name] = r] ELSE win
        /\ \E a \in PageActs({r}) : CallBack(q, Goto(stack, "start"), a)
  /\ UNCHANGED <<active, running, broken>>

\* ajaxStart, unless a prefilter aborted.
Start ==
  /\ At("start")
  /\ IF rq[Top.r].state = 2
     THEN stack' = Tail(stack) /\ UNCHANGED <<rq, active, running, broken, acts, threw>>
     ELSE IF ~opts[Top.r].global
     THEN stack' = Goto(stack, "beforeSend") /\ UNCHANGED <<rq, active, running, broken, acts, threw>>
     ELSE LET q == [rq EXCEPT ![Top.r].counted = TRUE] IN
          /\ active' = active + 1
          /\ IF active = 0
             THEN /\ running' = TRUE /\ broken' = (broken \/ running)
                  /\ \E a \in PageActs(Requests \ {Top.r}) : CallBack(q, Goto(stack, "beforeSend"), a)
             ELSE rq' = q /\ stack' = Goto(stack, "beforeSend") /\ UNCHANGED <<running, broken, acts, threw>>
  /\ UNCHANGED win

\* beforeSend may return false, which aborts.
BeforeSend ==
  /\ At("beforeSend")
  /\ \/ \E a \in PageActs({Top.r}) : CallBack(rq, Goto(stack, "transport"), a)
     \/ LET d == abort(rq, Goto(stack, "transport"), Top.r, "abort") IN
        opts[Top.r].vetoed /\ rq' = d.q /\ stack' = d.s /\ UNCHANGED <<acts, threw>>
  /\ UNCHANGED <<active, running, broken, win>>

\* The transport is looked up and ajaxSend fired.
Transport ==
  /\ At("transport")
  /\ IF rq[Top.r].state = 2 THEN stack' = Tail(stack) /\ UNCHANGED <<rq, acts, threw>>
     ELSE IF opts[Top.r].kind = "nowhere"
     THEN LET d == done(rq, Tail(stack), Top.r, "notransport") IN rq' = d.q /\ stack' = d.s /\ UNCHANGED <<acts, threw>>
     ELSE LET q == [rq EXCEPT ![Top.r].transport = "ready"] IN
          IF ~opts[Top.r].global THEN rq' = q /\ stack' = Goto(stack, "send") /\ UNCHANGED <<acts, threw>>
          ELSE \E a \in PageActs({Top.r}) : CallBack(q, Goto(stack, "send"), a)
  /\ UNCHANGED <<active, running, broken, win>>

\* The timer is set and the request sent; send may throw. An ajaxSend handler
\* that aborted has taken the transport away: that throws as well.
Send ==
  /\ At("send")
  /\ LET r == Top.r
         q == [rq EXCEPT ![r].timer = opts[r].timeout, ![r].state = 1, ![r].transport = "sent", ![r].wire = "waiting"]
         back == [q EXCEPT ![r].wire = "none"]
         sync == done(back, Tail(stack), r, "ok")
         fail == done(back, Tail(stack), r, "error")
         gone == done([back EXCEPT ![r].early = TRUE], Tail(stack), r, "error")
     IN IF rq[r].transport = "none" THEN rq' = gone.q /\ stack' = gone.s
        ELSE \/ opts[r].kind # "sync" /\ rq' = q /\ stack' = Tail(stack)
             \/ opts[r].kind = "sync" /\ rq' = sync.q /\ stack' = sync.s
             \/ opts[r].kind = "xhr" /\ rq' = fail.q /\ stack' = fail.s
  /\ UNCHANGED <<active, running, broken, win, acts, threw>>
-----------------------------------------------------------------------------
(* The server and the clock, between two turns of the event loop.          *)

\* The callback of XMLHttpRequest: an answer in full, or the file is broken.
Answer(r) ==
  /\ stack = <<>> /\ rq[r].wire = "waiting" /\ rq[r].transport = "sent" /\ opts[r].kind = "xhr"
  /\ \E outcome \in {"ok", "notmodified", "parsererror", "error"} :
       LET d == done([rq EXCEPT ![r].wire = "none"], stack, r, outcome) IN rq' = d.q /\ stack' = d.s
  /\ UNCHANGED <<opts, active, running, broken, win, acts, threw>>

\* A script arrives and calls the function that has its name now; then onload.
\* It cannot be called back when the request was aborted, and still runs.
Script(r) ==
  /\ stack = <<>> /\ rq[r].wire = "waiting" /\ opts[r].kind = "jsonp"
  /\ LET owner == win[opts[r].name]
         q == [rq EXCEPT ![r].wire = "none"]
         fed == IF owner = Page THEN q ELSE [q EXCEPT ![owner].container = r]
         d == done(fed, stack, r, IF fed[r].container # "none" THEN "ok" ELSE "parsererror")
     IN IF rq[r].transport = "sent" THEN rq' = d.q /\ stack' = d.s ELSE rq' = fed /\ UNCHANGED stack
  /\ UNCHANGED <<opts, active, running, broken, win, acts, threw>>

\* The timer runs out: the request is aborted.
Timeout(r) ==
  /\ stack = <<>> /\ rq[r].timer
  /\ LET d == abort([rq EXCEPT ![r].timer = FALSE], stack, r, "timeout") IN rq' = d.q /\ stack' = d.s
  /\ UNCHANGED <<opts, active, running, broken, win, acts, threw>>
-----------------------------------------------------------------------------
(* done, from the deferred on.                                             *)

\* Mutant: the window is left as it is.
DeferredKeeps ==
  /\ At("deferred")
  /\ \E a \in PageActs(Requests) : CallBack(rq, Goto(stack, "complete"), a)
  /\ UNCHANGED <<active, running, broken, win>>
\* jsonp puts back what was in the window, and gives it the answer too if it is
\* a function; then the page's callbacks run.
Deferred ==
  /\ At("deferred")
  /\ LET r == Top.r
         jsonp == opts[r].kind = "jsonp"
         was == rq[r].previous
         q == IF jsonp /\ rq[r].container # "none" /\ was # Page
              THEN [rq EXCEPT ![was].container = rq[r].container] ELSE rq
     IN /\ win' = IF jsonp THEN [win EXCEPT ![opts[r].name] = was] ELSE win
        /\ \E a \in PageActs(Requests) : CallBack(q, Goto(stack, "complete"), a)
  /\ UNCHANGED <<active, running, broken>>

\* The complete callbacks and ajaxComplete.
Complete ==
  /\ At("complete")
  /\ IF rq[Top.r].counted
     THEN \E a \in PageActs(Requests) : CallBack(rq, Goto(stack, "stop"), a)
     ELSE stack' = Tail(stack) /\ UNCHANGED <<rq, acts, threw>>
  /\ UNCHANGED <<active, running, broken, win>>

\* ajaxStop, when this was the last request in progress.
Stop ==
  /\ At("stop")
  /\ active' = active - 1
  /\ IF active = 1
     THEN /\ running' = FALSE /\ broken' = (broken \/ ~running)
          /\ \E a \in PageActs(Requests) : CallBack(rq, Tail(stack), a)
     ELSE stack' = Tail(stack) /\ UNCHANGED <<rq, running, broken, acts, threw>>
  /\ UNCHANGED win

AjInit ==
  /\ opts \in [Requests -> Options]
  /\ rq = [r \in Requests |-> Blank]
  /\ stack = <<>> /\ active = 0 /\ running = FALSE /\ broken = FALSE
  /\ win = [n \in JsonpNames |-> Page] /\ acts = 0 /\ threw = FALSE

Inside == Prefilter \/ Start \/ BeforeSend \/ Transport \/ Send \/ Deferred \/ Complete \/ Stop
AjNext == Outside \/ Inside \/ \E r \in Requests : Answer(r) \/ Script(r) \/ Timeout(r)

\* A call runs to its end, and the clock goes on; a server need not answer.
AjFair == WF_avars(Inside) /\ \A r \in Requests : WF_avars(Timeout(r))
-----------------------------------------------------------------------------
\* A request that an ajaxSend handler aborts is finished twice, although the comment of
\* done says "Called once" (jquery 7456).
Early == \E r \in Requests : rq[r].early

\* Type invariant.
AjTypeOK ==
  /\ active \in 0..Cardinality(Requests) \/ Early
  /\ \A r \in Requests : rq[r].state \in 0..2 /\ (rq[r].dones \in 0..1 \/ rq[r].early)
  /\ \A i \in DOMAIN stack : stack[i].r \in Requests
  /\ \A n \in JsonpNames : win[n] \in Requests \cup {Page}

\* jQuery.active is the number of requests begun and not ended, once all calls
\* have returned: aborts in any callback, late answers and timeouts included.
\* (A callback that throws leaves it too high.)
ActiveCounts ==
  stack = <<>> /\ ~threw /\ ~Early =>
    active = Cardinality({r \in Requests : rq[r].counted /\ rq[r].state < 2})

\* ajaxStart and ajaxStop alternate, and the page shows its indicator exactly
\* while requests are in progress.
StartsAndStops ==
  ~threw /\ ~Early => ~broken /\ (stack = <<>> => (running <=> active > 0))

\* A request that has ended leaves no timer behind, and no function of its own
\* in the window, unless another one took the same name while it was there.
LeavesNothing ==
  stack = <<>> /\ ~threw /\ ~Early => \A r \in Requests : rq[r].state = 2 =>
    /\ ~rq[r].timer
    /\ \A n \in JsonpNames : win[n] = r =>
         \E o \in Requests \ {r} : opts[o].kind = "jsonp" /\ opts[o].name = n /\ rq[o].begun

\* What a jsonp request succeeds with is the answer to it and to no other, as
\* long as no other has the same name.
OwnAnswer ==
  \A r \in Requests :
    opts[r].kind = "jsonp" /\ rq[r].outcome = "ok"
      /\ ~(\E o \in Requests \ {r} : opts[o].kind = "jsonp" /\ opts[o].name = opts[r].name /\ rq[o].begun)
    => rq[r].container = r

\* How a request ended never changes: an answer that comes after the abort or
\* the timeout, or a timeout after the answer, is ignored.
OutcomeFinal ==
  [][\A r \in Requests : rq[r].outcome # "none" /\ ~rq'[r].early => rq'[r].outcome = rq[r].outcome]_avars

\* A request with a timeout ends, whatever the server does.
TimedOutOrEnded ==
  \A r \in Requests : opts[r].timeout /\ rq[r].state = 1 ~> rq[r].state = 2

\* Together: each request has its own answer and cleans up after itself, and what
\* all of them count is right whenever no call is under way.
RequestsSound == AjTypeOK /\ ActiveCounts /\ StartsAndStops /\ LeavesNothing /\ OwnAnswer

-----------------------------------------------------------------------------
(* Proofs.  Liveness (TimedOutOrEnded) is left to TLC.                     *)

\* Requests and calls without what is expected to happen in the end.
AjSpec == AjInit /\ [][AjNext]_avars

\* What the theorems assume of the constants.
Settings ==
  /\ IsFiniteSet(Requests) /\ Page \notin Requests /\ "none" \notin Requests
  /\ Options \subseteq [kind : {"xhr", "jsonp", "sync", "nowhere"}, timeout : BOOLEAN, global : BOOLEAN,
                        vetoed : BOOLEAN, name : JsonpNames]

\* The invariant speaks of requests q, calls s, functions w in the window, ac
\* requests counted, and so on: an action computes some of them in two steps.
Sending == {"prefilter", "start", "beforeSend", "transport", "send"}
Ending == {"deferred", "complete", "stop"}
Frames == [r : Requests, pc : Sending \cup Ending]
Outcomes == {"none", "ok", "notmodified", "parsererror", "error", "abort", "timeout", "notransport"}
Record ==
  [state : 0 .. 2, begun : BOOLEAN, counted : BOOLEAN, timer : BOOLEAN, transport : {"none", "ready", "sent"},
   wire : {"none", "waiting"}, outcome : Outcomes, dones : Nat, previous : Requests \cup {Page},
   container : Requests \cup {"none"}, early : BOOLEAN]
Typed(q, s, w) ==
  q \in [Requests -> Record] /\ s \in Seq(Frames) /\ w \in [JsonpNames -> Requests \cup {Page}]
  /\ opts \in [Requests -> Options]

\* A request that was not begun is blank; one that has not ended has no outcome,
\* and one that has ended has no timer and no transport.
Lived(q) == \A r \in Requests :
  /\ ~q[r].begun => q[r] = Blank
  /\ q[r].state # 2 => q[r].outcome = "none" /\ q[r].dones = 0
  /\ q[r].state = 2 => ~q[r].timer /\ q[r].transport = "none"
  /\ q[r].state = 2 /\ ~q[r].early => q[r].dones = 1

\* A request has one call of ajax() and one of done() at most, the second inside the
\* first if both are there.
Nested(s) == \A i, j \in 1 .. Len(s) : i < j /\ s[i].r = s[j].r => s[i].pc \in Ending /\ s[j].pc \in Sending
Fits(q, f, w) ==
  /\ q[f.r].begun
  /\ f.pc = "prefilter" => q[f.r].state = 0 /\ \A n \in JsonpNames : w[n] # f.r
  /\ f.pc \in {"prefilter", "start"} => ~q[f.r].counted
  /\ f.pc \in Ending => q[f.r].state = 2
  /\ f.pc = "stop" => q[f.r].counted
Stacked(q, s, w) == \A i \in 1 .. Len(s) : Fits(q, s[i], w) /\ (s[i].pc = "prefilter" => i = 1)

\* A function in the window, or kept by another request, is that of a jsonp request
\* of the same name. As long as the name is its own, a request has no answer but its own.
Jsonp(r, n) == opts[r].kind = "jsonp" /\ opts[r].name = n
Alone(q, r) == \A o \in Requests \ {r} : Jsonp(o, opts[r].name) => ~q[o].begun
Owned(q, w) ==
  /\ \A n \in JsonpNames, r \in Requests : w[n] = r => Jsonp(r, n) /\ q[r].begun
  /\ \A o, r \in Requests : q[o].previous = r => 
        o # r /\ opts[o].kind = "jsonp" /\ Jsonp(r, opts[o].name) /\ q[o].begun /\ q[r].begun
  /\ \A r \in Requests : opts[r].kind = "jsonp" /\ Alone(q, r) =>
        q[r].container \in {"none", r} /\ (q[r].outcome = "ok" => q[r].container = r)

\* A request that has ended and whose function is still in the window has yet to take
\* it out.
InCall(s, r, pcs) == \E i \in 1 .. Len(s) : s[i].r = r /\ s[i].pc \in pcs
Cleaned(q, s, w, th) == \A r \in Requests, n \in JsonpNames :
  ~th /\ q[r].state = 2 /\ w[n] = r /\ Alone(q, r) => InCall(s, r, {"deferred"})

\* What active counts: requests that have not ended, or whose done() has not come to
\* ajaxStop.
Counted(q) == {r \in Requests : q[r].counted}
Open(q, s) == {r \in Counted(q) : q[r].state # 2 \/ InCall(s, r, Ending)}
Counts(q, s, ac, ru, br, th) ==
  (\A r \in Requests : ~q[r].early) =>
    /\ ac \in Nat /\ ac <= Cardinality(Counted(q))
    /\ Cardinality(Open(q, s)) <= ac /\ (~th => ac = Cardinality(Open(q, s)))
    /\ (ru <=> ac > 0) /\ ~br
Sound(q, s, w, ac, ru, br, th) ==
  Typed(q, s, w) /\ Lived(q) /\ Nested(s) /\ Stacked(q, s, w) /\ Owned(q, w) /\ Cleaned(q, s, w, th)
  /\ Counts(q, s, ac, ru, br, th)
AjInv == Sound(rq, stack, win, active, running, broken, threw)

\* The calls.
LEMMA Push ==
  ASSUME NEW s \in Seq(Frames), NEW c \in Frames
  PROVE  /\ <<c>> \o s \in Seq(Frames) /\ Len(<<c>> \o s) = Len(s) + 1
         /\ (<<c>> \o s)[1] = c /\ \A i \in 2 .. Len(s) + 1 : (<<c>> \o s)[i] = s[i - 1]
OBVIOUS

LEMMA Pop ==
  ASSUME NEW s \in Seq(Frames), s # <<>>
  PROVE  /\ Tail(s) \in Seq(Frames) /\ Len(Tail(s)) = Len(s) - 1 /\ Len(s) > 0
         /\ \A i \in 1 .. Len(s) - 1 : Tail(s)[i] = s[i + 1]
OBVIOUS

LEMMA Go ==
  ASSUME NEW s \in Seq(Frames), s # <<>>, NEW pc \in Sending \cup Ending
  PROVE  /\ Goto(s, pc) \in Seq(Frames) /\ Len(Goto(s, pc)) = Len(s) /\ Len(s) > 0
         /\ Goto(s, pc)[1] = Call(s[1].r, pc) /\ \A i \in 2 .. Len(s) : Goto(s, pc)[i] = s[i]
<1>1. s \in [1 .. Len(s) -> Frames] /\ Len(s) \in Nat \ {0}
  OBVIOUS
<1>2. s[1] \in Frames
  BY <1>1
<1>3. [s[1] EXCEPT !.pc = pc] = Call(s[1].r, pc) /\ Call(s[1].r, pc) \in Frames
  BY <1>2 DEF Frames, Call
<1>4. Goto(s, pc) = [s EXCEPT ![1] = Call(s[1].r, pc)]
  BY <1>3 DEF Goto
<1> QED BY <1>1, <1>3, <1>4

Fresh(s) == \A i \in 1 .. Len(s) : s[i].pc # "prefilter"
\* What decides whether an ending call of a request is there.
LEMMA InPush ==
  ASSUME NEW s \in Seq(Frames), NEW c \in Frames, NEW r, NEW pcs
  PROVE  InCall(<<c>> \o s, r, pcs) <=> (c.r = r /\ c.pc \in pcs) \/ InCall(s, r, pcs)
<1> DEFINE t == <<c>> \o s
<1>1. Len(s) \in Nat /\ Len(t) = Len(s) + 1 /\ t[1] = c /\ \A i \in 2 .. Len(s) + 1 : t[i] = s[i - 1]
  BY Push
<1>2. \A i \in 1 .. Len(s) : t[i + 1] = s[i]
  BY <1>1
<1> HIDE DEF t
<1> QED BY <1>1, <1>2 DEF InCall

LEMMA InPop ==
  ASSUME NEW s \in Seq(Frames), s # <<>>, NEW r, NEW pcs
  PROVE  InCall(s, r, pcs) <=> (s[1].r = r /\ s[1].pc \in pcs) \/ InCall(Tail(s), r, pcs)
<1> DEFINE t == Tail(s)
<1>1. Len(s) \in Nat /\ Len(s) > 0 /\ Len(t) = Len(s) - 1 /\ \A i \in 1 .. Len(s) - 1 : t[i] = s[i + 1]
  BY Pop
<1>2. \A i \in 2 .. Len(s) : s[i] = t[i - 1]
  BY <1>1
<1> HIDE DEF t
<1>3. ASSUME InCall(s, r, pcs), ~(s[1].r = r /\ s[1].pc \in pcs) PROVE InCall(t, r, pcs)
  <2>1. PICK i \in 1 .. Len(s) : s[i].r = r /\ s[i].pc \in pcs
    BY <1>3 DEF InCall
  <2>2. i \in 2 .. Len(s) /\ i - 1 \in 1 .. Len(t)
    BY <1>1, <1>3, <2>1
  <2> QED BY <1>2, <2>1, <2>2 DEF InCall
<1>4. ASSUME InCall(t, r, pcs) PROVE InCall(s, r, pcs)
  <2>1. PICK i \in 1 .. Len(t) : t[i].r = r /\ t[i].pc \in pcs
    BY <1>4 DEF InCall
  <2>2. i + 1 \in 1 .. Len(s) /\ s[i + 1] = t[i]
    BY <1>1, <2>1
  <2> QED BY <2>1, <2>2 DEF InCall
<1>5. s[1].r = r /\ s[1].pc \in pcs => InCall(s, r, pcs)
  BY <1>1 DEF InCall
<1> QED BY <1>3, <1>4, <1>5 DEF t

LEMMA InGo ==
  ASSUME NEW s \in Seq(Frames), s # <<>>, NEW pc \in Sending \cup Ending, NEW r, NEW pcs
  PROVE  InCall(Goto(s, pc), r, pcs) <=> (s[1].r = r /\ pc \in pcs) \/ InCall(Tail(s), r, pcs)
<1> DEFINE t == Goto(s, pc)
<1>1. t \in Seq(Frames) /\ Len(t) = Len(s) /\ Len(s) \in Nat \ {0} /\ t[1] = Call(s[1].r, pc)
      /\ \A i \in 2 .. Len(s) : t[i] = s[i]
  BY Go
<1>2. t # <<>>
  BY <1>1
<1>3. InCall(t, r, pcs) <=> (t[1].r = r /\ t[1].pc \in pcs) \/ InCall(Tail(t), r, pcs)
  BY <1>1, <1>2, InPop
<1>4. t[1].r = s[1].r /\ t[1].pc = pc
  BY <1>1 DEF Call
<1>5. Len(Tail(t)) = Len(Tail(s)) /\ \A i \in 1 .. Len(Tail(s)) : Tail(t)[i] = Tail(s)[i]
  BY <1>1, <1>2, Pop
<1>6. InCall(Tail(t), r, pcs) <=> InCall(Tail(s), r, pcs)
  BY <1>5 DEF InCall
<1> QED BY <1>3, <1>4, <1>6

\* A push, a pop and a change of place keep the nesting.
LEMMA NestedPush ==
  ASSUME NEW s \in Seq(Frames), NEW c \in Frames, Nested(s),
         \/ ~InCall(s, c.r, Sending \cup Ending)
         \/ c.pc \in Ending /\ ~InCall(s, c.r, Ending)
  PROVE  Nested(<<c>> \o s)
<1> DEFINE t == <<c>> \o s
<1>1. Len(s) \in Nat /\ Len(t) = Len(s) + 1 /\ t[1] = c /\ \A i \in 2 .. Len(s) + 1 : t[i] = s[i - 1]
  BY Push
<1>2. s \in [1 .. Len(s) -> Frames]
  OBVIOUS
<1> SUFFICES ASSUME NEW i \in 1 .. Len(t), NEW j \in 1 .. Len(t), i < j, t[i].r = t[j].r
             PROVE  t[i].pc \in Ending /\ t[j].pc \in Sending
  BY DEF Nested
<1> HIDE DEF t
<1>3. j - 1 \in 1 .. Len(s) /\ t[j] = s[j - 1] /\ s[j - 1] \in Frames
  BY <1>1, <1>2
<1>4. CASE i = 1
  <2>1. s[j - 1].r = c.r /\ s[j - 1].pc \in Sending \cup Ending
    BY <1>1, <1>3, <1>4 DEF Frames
  <2>2. c.pc \in Ending /\ s[j - 1].pc \notin Ending
    BY <1>3, <2>1 DEF InCall
  <2> QED BY <1>1, <1>3, <1>4, <2>1, <2>2
<1>5. CASE i # 1
  BY <1>1, <1>3, <1>5 DEF Nested
<1> QED BY <1>4, <1>5

LEMMA NestedPop ==
  ASSUME NEW s \in Seq(Frames), s # <<>>, Nested(s)
  PROVE  Nested(Tail(s)) /\ \A pcs \in {Sending, Ending} : s[1].pc \in pcs => ~InCall(Tail(s), s[1].r, pcs)
<1> DEFINE t == Tail(s)
<1>1. Len(s) \in Nat /\ Len(s) > 0 /\ Len(t) = Len(s) - 1 /\ \A i \in 1 .. Len(s) - 1 : t[i] = s[i + 1]
  BY Pop
<1> HIDE DEF t
<1>2. Nested(t)
  BY <1>1 DEF Nested
<1>3. ASSUME NEW i \in 1 .. Len(t), t[i].r = s[1].r PROVE s[1].pc \in Ending /\ t[i].pc \in Sending
  <2>1. 1 \in 1 .. Len(s) /\ i + 1 \in 1 .. Len(s) /\ 1 < i + 1 /\ s[i + 1] = t[i]
    BY <1>1
  <2> QED BY <1>3, <2>1 DEF Nested
<1>4. Sending \cap Ending = {}
  BY DEF Sending, Ending
<1> QED BY <1>2, <1>3, <1>4 DEF InCall, t

LEMMA NestedGo ==
  ASSUME NEW s \in Seq(Frames), s # <<>>, NEW pc \in Sending \cup Ending, Nested(s),
         (s[1].pc \in Sending /\ pc \in Sending) \/ (s[1].pc \in Ending /\ pc \in Ending)
  PROVE  Nested(Goto(s, pc))
<1> DEFINE t == Goto(s, pc)
<1>1. Len(t) = Len(s) /\ Len(s) \in Nat \ {0} /\ t[1] = Call(s[1].r, pc) /\ \A i \in 2 .. Len(s) : t[i] = s[i]
  BY Go
<1>2. t[1].r = s[1].r /\ t[1].pc = pc
  BY <1>1 DEF Call
<1> HIDE DEF t
<1>3. Sending \cap Ending = {}
  BY DEF Sending, Ending
<1> SUFFICES ASSUME NEW i \in 1 .. Len(t), NEW j \in 1 .. Len(t), i < j, t[i].r = t[j].r
             PROVE  t[i].pc \in Ending /\ t[j].pc \in Sending
  BY DEF Nested, t
<1>4. j \in 2 .. Len(s) /\ t[j] = s[j] /\ s[i].r = s[j].r
  BY <1>1, <1>2
<1>5. s[i].pc \in Ending /\ s[j].pc \in Sending
  BY <1>1, <1>4 DEF Nested
<1>6. t[i].pc \in Ending
  BY <1>1, <1>2, <1>3, <1>5
<1> QED BY <1>4, <1>5, <1>6

\* The same of what is true of each call.
LEMMA StackedPush ==
  ASSUME NEW q, NEW w, NEW s \in Seq(Frames), NEW c \in Frames, Stacked(q, s, w), Fresh(s), Fits(q, c, w)
  PROVE  Stacked(q, <<c>> \o s, w)
<1> DEFINE t == <<c>> \o s
<1>1. Len(s) \in Nat /\ Len(t) = Len(s) + 1 /\ t[1] = c /\ \A i \in 2 .. Len(s) + 1 : t[i] = s[i - 1]
  BY Push
<1> HIDE DEF t
<1>2. ASSUME NEW i \in 1 .. Len(t) PROVE Fits(q, t[i], w) /\ (t[i].pc = "prefilter" => i = 1)
  <2>1. CASE i = 1
    BY <1>1, <2>1
  <2>2. CASE i # 1
    <3>1. i - 1 \in 1 .. Len(s) /\ t[i] = s[i - 1]
      BY <1>1, <2>2
    <3> QED BY <3>1 DEF Stacked, Fresh
  <2> QED BY <2>1, <2>2
<1> QED BY <1>2 DEF Stacked, t

LEMMA StackedPop ==
  ASSUME NEW q, NEW w, NEW s \in Seq(Frames), s # <<>>, Stacked(q, s, w)
  PROVE  Stacked(q, Tail(s), w) /\ Fresh(Tail(s)) /\ Fits(q, s[1], w) /\ s[1] \in Frames
<1> DEFINE t == Tail(s)
<1>1. Len(s) \in Nat /\ Len(s) > 0 /\ Len(t) = Len(s) - 1 /\ \A i \in 1 .. Len(s) - 1 : t[i] = s[i + 1]
  BY Pop
<1>2. s[1] \in Frames /\ Fits(q, s[1], w)
  BY <1>1 DEF Stacked
<1> HIDE DEF t
<1>3. ASSUME NEW i \in 1 .. Len(t) PROVE Fits(q, t[i], w) /\ t[i].pc # "prefilter"
  <2>1. i + 1 \in 1 .. Len(s) /\ i + 1 # 1 /\ t[i] = s[i + 1]
    BY <1>1
  <2> QED BY <2>1 DEF Stacked
<1> QED BY <1>2, <1>3 DEF Stacked, Fresh, t

LEMMA StackedGo ==
  ASSUME NEW q, NEW w, NEW s \in Seq(Frames), s # <<>>, Stacked(q, s, w),
         NEW pc \in (Sending \cup Ending) \ {"prefilter"}, Fits(q, Call(s[1].r, pc), w)
  PROVE  Stacked(q, Goto(s, pc), w) /\ Fresh(Goto(s, pc))
<1> DEFINE t == Goto(s, pc)
<1>1. Len(t) = Len(s) /\ Len(s) \in Nat \ {0} /\ t[1] = Call(s[1].r, pc) /\ \A i \in 2 .. Len(s) : t[i] = s[i]
  BY Go
<1>2. t[1].pc = pc
  BY <1>1 DEF Call
<1> HIDE DEF t
<1>3. ASSUME NEW i \in 1 .. Len(t) PROVE Fits(q, t[i], w) /\ t[i].pc # "prefilter"
  <2>1. CASE i = 1
    BY <1>1, <1>2, <2>1
  <2>2. CASE i # 1
    <3>1. i \in 2 .. Len(s) /\ t[i] = s[i] /\ i \in 1 .. Len(s)
      BY <1>1, <2>2
    <3> QED BY <2>2, <3>1 DEF Stacked
  <2> QED BY <2>1, <2>2
<1> QED BY <1>3 DEF Stacked, Fresh, t

\* Other requests, other functions in the window, the same calls.
LEMMA StackedSame ==
  ASSUME NEW q, NEW w, NEW s \in Seq(Frames), Stacked(q, s, w), NEW p, NEW v,
         \A i \in 1 .. Len(s) : Fits(q, s[i], w) => Fits(p, s[i], v)
  PROVE  Stacked(p, s, v)
BY DEF Stacked

\* A request without done() under way may end.
LEMMA NotEnding ==
  ASSUME NEW q, NEW w, NEW s \in Seq(Frames), Stacked(q, s, w), NEW r \in Requests
  PROVE  /\ q[r].state # 2 => ~InCall(s, r, Ending)
         /\ ~q[r].begun => ~InCall(s, r, Sending \cup Ending)
BY DEF Stacked, Fits, InCall

LEMMA CountsFinite ==
  ASSUME Settings, NEW q, NEW s
  PROVE  /\ Open(q, s) \subseteq Counted(q) /\ Counted(q) \subseteq Requests
         /\ IsFiniteSet(Counted(q)) /\ IsFiniteSet(Open(q, s))
         /\ Cardinality(Counted(q)) \in Nat /\ Cardinality(Open(q, s)) \in Nat
         /\ Cardinality(Counted(q)) <= Cardinality(Requests) /\ Cardinality(Requests) \in Nat
<1>1. Open(q, s) \subseteq Counted(q) /\ Counted(q) \subseteq Requests
  BY DEF Open, Counted
<1>2. IsFiniteSet(Requests) /\ Cardinality(Requests) \in Nat
  BY FS_CardinalityType DEF Settings
<1>3. IsFiniteSet(Counted(q)) /\ Cardinality(Counted(q)) <= Cardinality(Requests)
  BY <1>1, <1>2, FS_Subset
<1>4. IsFiniteSet(Open(q, s))
  BY <1>1, <1>3, FS_Subset
<1> QED BY <1>1, <1>2, <1>3, <1>4, FS_CardinalityType

\* The same requests in the balance, the same balance.
LEMMA CountsSame ==
  ASSUME NEW q, NEW s, NEW p, NEW t, NEW ac, NEW ru, NEW br, NEW th,
         Counts(q, s, ac, ru, br, th), Counted(p) = Counted(q), Open(p, t) = Open(q, s),
         \A r \in Requests : q[r].early => p[r].early
  PROVE  Counts(p, t, ac, ru, br, th)
BY DEF Counts

\* done() ends a request that has not ended, and goes on with its callbacks.
LEMMA DoneKeeps ==
  ASSUME NEW q, NEW s, NEW w, NEW ac, NEW ru, NEW br, NEW th, Sound(q, s, w, ac, ru, br, th), Fresh(s),
         NEW r \in Requests, q[r].begun, NEW o \in Outcomes \ {"none"},
         o = "ok" /\ opts[r].kind = "jsonp" /\ Alone(q, r) => q[r].container = r
  PROVE  /\ Sound(done(q, s, r, o).q, done(q, s, r, o).s, w, ac, ru, br, th) /\ Fresh(done(q, s, r, o).s)
         /\ \A x \in Requests : done(q, s, r, o).q[x].begun = q[x].begun
<1> DEFINE p == [q EXCEPT ![r].state = 2, ![r].timer = FALSE, ![r].transport = "none", ![r].outcome = o, ![r].dones = @ + 1]
           c == Call(r, "deferred")
           t == <<c>> \o s
<1>1. CASE q[r].state = 2
  <2>1. done(q, s, r, o) = [q |-> q, s |-> s]
    BY <1>1 DEF done
  <2> QED BY <2>1
<1>2. CASE q[r].state # 2
  <2>1. done(q, s, r, o).q = p /\ done(q, s, r, o).s = t
    BY <1>2 DEF done
  <2>2. q \in [Requests -> Record] /\ s \in Seq(Frames) /\ c \in Frames
    BY DEF Sound, Typed, Frames, Call, Ending
  <2>3. /\ p \in [Requests -> Record] /\ \A x \in Requests \ {r} : p[x] = q[x]
        /\ p[r].state = 2 /\ p[r].begun = q[r].begun /\ p[r].counted = q[r].counted /\ ~p[r].timer /\ p[r].transport = "none"
        /\ p[r].outcome = o /\ p[r].dones = q[r].dones + 1 /\ p[r].previous = q[r].previous
        /\ p[r].container = q[r].container /\ p[r].early = q[r].early
    <3> DEFINE m == [q[r] EXCEPT !.state = 2, !.timer = FALSE, !.transport = "none", !.outcome = o, !.dones = q[r].dones + 1]
    <3>1. q[r] \in Record
      BY <2>2
    <3>2. p = [q EXCEPT ![r] = m]
      OBVIOUS
    <3>3. m \in Record
      <4>1. q[r].dones + 1 \in Nat /\ 2 \in 0 .. 2 /\ FALSE \in BOOLEAN /\ "none" \in {"none", "ready", "sent"} /\ o \in Outcomes
        BY <3>1 DEF Record
      <4> QED BY <3>1, <4>1 DEF Record
    <3>4. /\ m.state = 2 /\ m.begun = q[r].begun /\ m.counted = q[r].counted /\ ~m.timer /\ m.transport = "none"
          /\ m.outcome = o /\ m.dones = q[r].dones + 1 /\ m.previous = q[r].previous
          /\ m.container = q[r].container /\ m.early = q[r].early
      BY <3>1 DEF Record
    <3> HIDE DEF m, p
    <3> QED BY <2>2, <3>2, <3>3, <3>4
  <2> HIDE DEF p
  <2>4. \A x \in Requests : /\ p[x].begun = q[x].begun /\ p[x].counted = q[x].counted /\ p[x].early = q[x].early
                            /\ p[x].previous = q[x].previous /\ p[x].container = q[x].container
    BY <2>3
  <2>5. t \in Seq(Frames) /\ c.r = r /\ c.pc = "deferred"
    BY <2>2, Push DEF Call
  <2>6. ~InCall(s, r, Ending) /\ Stacked(q, s, w)
    BY <1>2, <2>2, NotEnding DEF Sound
  <2>7. Typed(p, t, w)
    BY <2>3, <2>5 DEF Sound, Typed
  <2>8. Lived(p)
    <3> SUFFICES ASSUME NEW x \in Requests
                 PROVE  /\ ~p[x].begun => p[x] = Blank
                        /\ p[x].state # 2 => p[x].outcome = "none" /\ p[x].dones = 0
                        /\ p[x].state = 2 => ~p[x].timer /\ p[x].transport = "none"
                        /\ p[x].state = 2 /\ ~p[x].early => p[x].dones = 1
      BY DEF Lived
    <3>1. CASE x = r
      <4>1. q[r].dones = 0
        BY <1>2 DEF Sound, Lived
      <4>2. p[r].begun /\ p[r].dones = 1
        BY <2>3, <4>1
      <4> QED BY <2>3, <3>1, <4>2
    <3>2. CASE x # r
      BY <2>3, <3>2 DEF Sound, Lived
    <3> QED BY <3>1, <3>2
  <2>9. Nested(t)
    BY <2>2, <2>5, <2>6, NestedPush DEF Sound, Ending
  <2>10. Stacked(p, t, w) /\ Fresh(t)
    <3>1. ASSUME NEW i \in 1 .. Len(s), Fits(q, s[i], w) PROVE Fits(p, s[i], w)
      <4>1. s[i] \in Frames
        BY <2>2
      <4>2. s[i].r \in Requests /\ s[i].pc # "prefilter"
        BY <4>1 DEF Frames, Fresh
      <4> QED BY <2>3, <2>4, <3>1, <4>2 DEF Fits
    <3>2. Stacked(p, s, w)
      BY <2>2, <2>6, <3>1, StackedSame
    <3>3. Fits(p, c, w)
      BY <2>3, <2>5 DEF Fits, Ending
    <3>4. Fresh(t)
      <4>1. Len(s) \in Nat /\ Len(t) = Len(s) + 1 /\ t[1] = c /\ \A i \in 2 .. Len(s) + 1 : t[i] = s[i - 1]
        BY <2>2, Push
      <4> HIDE DEF t
      <4>2. ASSUME NEW i \in 1 .. Len(t) PROVE t[i].pc # "prefilter"
        <5>1. CASE i = 1
          BY <2>5, <4>1, <5>1
        <5>2. CASE i # 1
          <6>1. i - 1 \in 1 .. Len(s) /\ t[i] = s[i - 1]
            BY <4>1, <5>2
          <6> QED BY <6>1 DEF Fresh
        <5> QED BY <5>1, <5>2
      <4> QED BY <4>2 DEF Fresh
    <3> QED BY <2>2, <3>2, <3>3, <3>4, StackedPush
  <2>11. \A x \in Requests : Alone(p, x) <=> Alone(q, x)
    BY <2>4 DEF Alone
  <2>12. Owned(p, w)
    <3>1. \A n \in JsonpNames, x \in Requests : w[n] = x => Jsonp(x, n) /\ p[x].begun
      BY <2>4 DEF Sound, Owned
    <3>2. \A y, x \in Requests : p[y].previous = x =>
             y # x /\ opts[y].kind = "jsonp" /\ Jsonp(x, opts[y].name) /\ p[y].begun /\ p[x].begun
      BY <2>4 DEF Sound, Owned
    <3>3. ASSUME NEW x \in Requests, opts[x].kind = "jsonp", Alone(p, x)
          PROVE  p[x].container \in {"none", x} /\ (p[x].outcome = "ok" => p[x].container = x)
      <4>1. Alone(q, x) /\ q[x].container \in {"none", x} /\ (q[x].outcome = "ok" => q[x].container = x)
        BY <2>11, <3>3 DEF Sound, Owned
      <4>2. CASE x = r
        BY <2>3, <3>3, <4>1, <4>2
      <4>3. CASE x # r
        BY <2>3, <4>1, <4>3
      <4> QED BY <4>2, <4>3
    <3> QED BY <3>1, <3>2, <3>3 DEF Owned
  <2>13. \A x, pcs : InCall(t, x, pcs) <=> (x = r /\ "deferred" \in pcs) \/ InCall(s, x, pcs)
    BY <2>2, <2>5, InPush
  <2>14. Cleaned(p, t, w, th)
    <3> SUFFICES ASSUME NEW x \in Requests, NEW n \in JsonpNames, ~th, p[x].state = 2, w[n] = x, Alone(p, x)
                 PROVE  InCall(t, x, {"deferred"})
      BY DEF Cleaned
    <3>1. CASE x = r
      BY <2>13, <3>1
    <3>2. CASE x # r
      BY <2>3, <2>11, <2>13, <3>2 DEF Sound, Cleaned
    <3> QED BY <3>1, <3>2
  <2>15. Counts(p, t, ac, ru, br, th)
    <3>1. Counted(p) = Counted(q)
      BY <2>4 DEF Counted
    <3>2. Open(p, t) = Open(q, s)
      <4>1. ASSUME NEW x \in Counted(q)
            PROVE  p[x].state # 2 \/ InCall(t, x, Ending) <=> q[x].state # 2 \/ InCall(s, x, Ending)
        <5>1. x \in Requests /\ "deferred" \in Ending
          BY DEF Counted, Ending
        <5>2. CASE x = r
          BY <1>2, <2>13, <5>1, <5>2
        <5>3. CASE x # r
          BY <2>3, <2>13, <5>1, <5>3
        <5> QED BY <5>2, <5>3
      <4> QED BY <3>1, <4>1 DEF Open
    <3> QED BY <2>4, <3>1, <3>2, CountsSame DEF Sound
  <2> HIDE DEF t
  <2> QED BY <2>1, <2>4, <2>7, <2>8, <2>9, <2>10, <2>12, <2>14, <2>15 DEF Sound
<1> QED BY <1>1, <1>2

\* Other fields than those of the invariant: the answer that is under way, and the
\* timer of a request that has not ended.
Alike(q, p, s) == \A x \in Requests :
  /\ ~q[x].begun => p[x] = q[x]
  /\ p[x].begun = q[x].begun /\ p[x].counted = q[x].counted /\ p[x].early = q[x].early
  /\ p[x].outcome = q[x].outcome /\ p[x].dones = q[x].dones /\ p[x].previous = q[x].previous
  /\ p[x].container = q[x].container /\ (p[x].state = 2 <=> q[x].state = 2)
  /\ InCall(s, x, {"prefilter"}) => p[x].state = q[x].state
  /\ q[x].state = 2 => p[x].timer = q[x].timer /\ p[x].transport = q[x].transport
LEMMA WireKeeps ==
  ASSUME NEW q, NEW s, NEW w, NEW ac, NEW ru, NEW br, NEW th, Sound(q, s, w, ac, ru, br, th),
         NEW p \in [Requests -> Record], Alike(q, p, s)
  PROVE  Sound(p, s, w, ac, ru, br, th)
<1>1. \A x \in Requests : /\ p[x].begun = q[x].begun /\ p[x].counted = q[x].counted /\ p[x].early = q[x].early
                          /\ p[x].outcome = q[x].outcome /\ p[x].dones = q[x].dones /\ p[x].previous = q[x].previous
                          /\ p[x].container = q[x].container /\ (p[x].state = 2 <=> q[x].state = 2)
  BY DEF Alike
<1>2. Typed(p, s, w) /\ s \in Seq(Frames)
  BY DEF Sound, Typed
<1>3. Lived(p)
  <2> SUFFICES ASSUME NEW x \in Requests
               PROVE  /\ ~p[x].begun => p[x] = Blank
                      /\ p[x].state # 2 => p[x].outcome = "none" /\ p[x].dones = 0
                      /\ p[x].state = 2 => ~p[x].timer /\ p[x].transport = "none"
                      /\ p[x].state = 2 /\ ~p[x].early => p[x].dones = 1
    BY DEF Lived
  <2>1. ~p[x].begun => p[x] = Blank
    BY DEF Sound, Lived, Alike
  <2>2. p[x].state = 2 => ~p[x].timer /\ p[x].transport = "none"
    BY DEF Sound, Lived, Alike
  <2> QED BY <1>1, <2>1, <2>2 DEF Sound, Lived
<1>4. Stacked(p, s, w)
  <2>1. ASSUME NEW i \in 1 .. Len(s), Fits(q, s[i], w) PROVE Fits(p, s[i], w)
    <3>1. s[i] \in Frames
      BY <1>2
    <3>2. s[i].r \in Requests
      BY <3>1 DEF Frames
    <3>3. s[i].pc = "prefilter" => p[s[i].r].state = q[s[i].r].state
      BY <3>2 DEF InCall, Alike
    <3> QED BY <1>1, <2>1, <3>2, <3>3 DEF Fits
  <2> QED BY <1>2, <2>1, StackedSame DEF Sound
<1>5. \A x \in Requests : Alone(p, x) <=> Alone(q, x)
  BY <1>1 DEF Alone
<1>6. Owned(p, w)
  <2>1. \A n \in JsonpNames, x \in Requests : w[n] = x => Jsonp(x, n) /\ p[x].begun
    BY <1>1 DEF Sound, Owned
  <2>2. \A y, x \in Requests : p[y].previous = x =>
           y # x /\ opts[y].kind = "jsonp" /\ Jsonp(x, opts[y].name) /\ p[y].begun /\ p[x].begun
    BY <1>1 DEF Sound, Owned
  <2>3. \A x \in Requests : opts[x].kind = "jsonp" /\ Alone(p, x) =>
           p[x].container \in {"none", x} /\ (p[x].outcome = "ok" => p[x].container = x)
    BY <1>1, <1>5 DEF Sound, Owned
  <2> QED BY <2>1, <2>2, <2>3 DEF Owned
<1>7. Cleaned(p, s, w, th)
  BY <1>1, <1>5 DEF Sound, Cleaned
<1>8. Counts(p, s, ac, ru, br, th)
  <2>1. Counted(p) = Counted(q)
    BY <1>1 DEF Counted
  <2>2. Open(p, s) = Open(q, s)
    BY <1>1, <2>1 DEF Open, Counted
  <2> QED BY <1>1, <2>1, <2>2, CountsSame DEF Sound
<1> QED BY <1>2, <1>3, <1>4, <1>6, <1>7, <1>8 DEF Sound

\* jqXHR.abort.
LEMMA AbortKeeps ==
  ASSUME NEW q, NEW s, NEW w, NEW ac, NEW ru, NEW br, NEW th, Sound(q, s, w, ac, ru, br, th), Fresh(s),
         NEW r \in Requests, q[r].begun, NEW o \in {"abort", "timeout"}
  PROVE  Sound(abort(q, s, r, o).q, abort(q, s, r, o).s, w, ac, ru, br, th) /\ Fresh(abort(q, s, r, o).s)
<1>1. q \in [Requests -> Record] /\ q[r] \in Record
  BY DEF Sound, Typed
<1>2. PICK p : p = (IF q[r].transport = "sent" THEN [q EXCEPT ![r].wire = IF opts[r].kind = "jsonp" THEN @ ELSE "none"] ELSE q)
  OBVIOUS
<1>3. abort(q, s, r, o) = done(p, s, r, o)
  BY <1>2 DEF abort
<1>4. Sound(p, s, w, ac, ru, br, th) /\ p[r].begun
  <2>1. CASE q[r].transport = "sent"
    <3>1. PICK v \in {"none", "waiting"} : p = [q EXCEPT ![r] = [q[r] EXCEPT !.wire = v]]
      BY <1>1, <1>2, <2>1 DEF Record
    <3>2. [q[r] EXCEPT !.wire = v] \in Record
      BY <1>1 DEF Record
    <3>3. p \in [Requests -> Record] /\ p[r] = [q[r] EXCEPT !.wire = v] /\ \A x \in Requests \ {r} : p[x] = q[x]
      BY <1>1, <3>1, <3>2
    <3>4. /\ p[r].begun = q[r].begun /\ p[r].counted = q[r].counted /\ p[r].early = q[r].early
          /\ p[r].outcome = q[r].outcome /\ p[r].dones = q[r].dones /\ p[r].previous = q[r].previous
          /\ p[r].container = q[r].container /\ p[r].state = q[r].state /\ p[r].timer = q[r].timer
          /\ p[r].transport = q[r].transport
      BY <1>1, <3>3 DEF Record
    <3>5. Alike(q, p, s)
      BY <3>3, <3>4 DEF Alike
    <3> QED BY <3>3, <3>4, <3>5, WireKeeps
  <2>2. CASE q[r].transport # "sent"
    BY <1>2, <2>2
  <2> QED BY <2>1, <2>2
<1>5. o \in Outcomes \ {"none"} /\ o # "ok"
  BY DEF Outcomes
<1> QED BY <1>3, <1>4, <1>5, DoneKeeps

\* A call returns: a part of ajax(), or done() of a request that was not counted.
LEMMA PopKeeps ==
  ASSUME NEW q, NEW s, NEW w, NEW ac, NEW ru, NEW br, NEW th, Sound(q, s, w, ac, ru, br, th), s # <<>>,
         s[1].pc \in Sending \/ (s[1].pc = "complete" /\ ~q[s[1].r].counted)
  PROVE  Sound(q, Tail(s), w, ac, ru, br, th) /\ Fresh(Tail(s))
<1>1. s \in Seq(Frames) /\ Tail(s) \in Seq(Frames) /\ s[1] \in Frames
  BY Pop, StackedPop DEF Sound, Typed
<1>2. Nested(Tail(s)) /\ Stacked(q, Tail(s), w) /\ Fresh(Tail(s))
  BY <1>1, NestedPop, StackedPop DEF Sound
<1>3. \A x, pcs : InCall(s, x, pcs) <=> (s[1].r = x /\ s[1].pc \in pcs) \/ InCall(Tail(s), x, pcs)
  BY <1>1, InPop
<1>4. s[1].pc # "deferred" /\ (s[1].pc \in Ending => ~q[s[1].r].counted)
  BY DEF Sending, Ending
<1>5. Cleaned(q, Tail(s), w, th)
  BY <1>3, <1>4 DEF Sound, Cleaned
<1>6. Open(q, Tail(s)) = Open(q, s)
  <2>1. ASSUME NEW x \in Counted(q) PROVE InCall(s, x, Ending) <=> InCall(Tail(s), x, Ending)
    BY <1>3, <1>4 DEF Counted
  <2> QED BY <2>1 DEF Open
<1>7. Counts(q, Tail(s), ac, ru, br, th)
  BY <1>6 DEF Counts, Sound
<1> QED BY <1>1, <1>2, <1>5, <1>7 DEF Sound, Typed

\* A call goes on to its next place, with nothing else done.
LEMMA GoKeeps ==
  ASSUME NEW q, NEW s, NEW w, NEW ac, NEW ru, NEW br, NEW th, Sound(q, s, w, ac, ru, br, th), s # <<>>,
         NEW pc \in {"start", "beforeSend", "transport", "send", "stop"}, pc = "start" => ~q[s[1].r].counted,
         (s[1].pc \in Sending /\ pc \in Sending) \/ (s[1].pc = "complete" /\ pc = "stop" /\ q[s[1].r].counted)
  PROVE  Sound(q, Goto(s, pc), w, ac, ru, br, th) /\ Fresh(Goto(s, pc))
<1>1. s \in Seq(Frames) /\ pc \in (Sending \cup Ending) \ {"prefilter"} /\ s[1] \in Frames /\ Fits(q, s[1], w)
  BY StackedPop DEF Sound, Typed, Sending, Ending
<1>2. Goto(s, pc) \in Seq(Frames)
  BY <1>1, Go
<1>3. Nested(Goto(s, pc))
  BY <1>1, NestedGo DEF Sound, Ending
<1>4. Fits(q, Call(s[1].r, pc), w)
  BY <1>1 DEF Fits, Call, Ending, Sending
<1>5. Stacked(q, Goto(s, pc), w) /\ Fresh(Goto(s, pc))
  BY <1>1, <1>4, StackedGo DEF Sound
<1>6. \A x, pcs : InCall(s, x, pcs) <=> (s[1].r = x /\ s[1].pc \in pcs) \/ InCall(Tail(s), x, pcs)
  BY <1>1, InPop
<1>7. \A x, pcs : InCall(Goto(s, pc), x, pcs) <=> (s[1].r = x /\ pc \in pcs) \/ InCall(Tail(s), x, pcs)
  BY <1>1, InGo
<1>8. (s[1].pc \in Ending <=> pc \in Ending) /\ s[1].pc # "deferred"
  BY DEF Sending, Ending
<1>9. Cleaned(q, Goto(s, pc), w, th)
  BY <1>6, <1>7, <1>8 DEF Sound, Cleaned
<1>10. Open(q, Goto(s, pc)) = Open(q, s)
  BY <1>6, <1>7, <1>8 DEF Open
<1>11. Counts(q, Goto(s, pc), ac, ru, br, th)
  BY <1>10 DEF Counts, Sound
<1> QED BY <1>2, <1>3, <1>5, <1>9, <1>11 DEF Sound, Typed

\* What an exception leaves.
LEMMA ThrowKeeps ==
  ASSUME Settings, NEW q, NEW s, NEW w, NEW ac, NEW ru, NEW br, NEW th, Sound(q, s, w, ac, ru, br, th)
  PROVE  Sound(q, <<>>, w, ac, ru, br, TRUE)
<1>1. Len(<<>>) = 0 /\ <<>> \in Seq(Frames)
  OBVIOUS
<1>2. Nested(<<>>) /\ Stacked(q, <<>>, w) /\ Cleaned(q, <<>>, w, TRUE)
  BY <1>1 DEF Nested, Stacked, Cleaned
<1>3. Open(q, <<>>) \subseteq Open(q, s)
  BY <1>1 DEF Open, InCall
<1>4. Cardinality(Open(q, <<>>)) <= Cardinality(Open(q, s))
  BY <1>3, CountsFinite, FS_Subset
<1>5. Counts(q, <<>>, ac, ru, br, TRUE)
  BY <1>4, CountsFinite DEF Sound, Counts
<1> QED BY <1>1, <1>2, <1>5 DEF Sound, Typed

\* jQuery.ajax is called for a request that was not begun.
LEMMA BeginKeeps ==
  ASSUME Settings, NEW q, NEW s, NEW w, NEW ac, NEW ru, NEW br, NEW th, Sound(q, s, w, ac, ru, br, th), Fresh(s),
         NEW r \in Requests, ~q[r].begun
  PROVE  Sound([q EXCEPT ![r].begun = TRUE], <<Call(r, "prefilter")>> \o s, w, ac, ru, br, th)
<1> DEFINE p == [q EXCEPT ![r].begun = TRUE]
           c == Call(r, "prefilter")
           t == <<c>> \o s
<1>1. q \in [Requests -> Record] /\ s \in Seq(Frames) /\ c \in Frames /\ c.r = r /\ c.pc = "prefilter"
      /\ t \in Seq(Frames)
  <2>1. c \in Frames
    BY DEF Frames, Call, Sending
  <2> QED BY <2>1, Push DEF Sound, Typed, Call
<1>2. q[r] = Blank
  BY DEF Sound, Lived
<1>3. /\ p \in [Requests -> Record] /\ \A x \in Requests \ {r} : p[x] = q[x]
      /\ p[r] = [Blank EXCEPT !.begun = TRUE]
  <2>1. [q[r] EXCEPT !.begun = TRUE] \in Record
    <3>1. q[r] \in Record
      BY <1>1
    <3> QED BY <3>1 DEF Record
  <2>2. p = [q EXCEPT ![r] = [Blank EXCEPT !.begun = TRUE]]
    BY <1>2
  <2> HIDE DEF p
  <2> QED BY <1>1, <1>2, <2>1, <2>2
<1>4. /\ p[r].begun /\ p[r].state = 0 /\ p[r].counted = FALSE /\ p[r].timer = FALSE /\ p[r].transport = "none"
      /\ p[r].outcome = "none" /\ p[r].dones = 0 /\ p[r].previous = Page /\ p[r].container = "none" /\ p[r].early = FALSE
      /\ q[r].state = 0 /\ q[r].counted = FALSE /\ q[r].early = FALSE
  BY <1>2, <1>3 DEF Blank
<1> HIDE DEF p
<1>5. Typed(p, t, w)
  BY <1>1, <1>3 DEF Sound, Typed
<1>6. Lived(p)
  <2> SUFFICES ASSUME NEW x \in Requests
               PROVE  /\ ~p[x].begun => p[x] = Blank
                      /\ p[x].state # 2 => p[x].outcome = "none" /\ p[x].dones = 0
                      /\ p[x].state = 2 => ~p[x].timer /\ p[x].transport = "none"
                      /\ p[x].state = 2 /\ ~p[x].early => p[x].dones = 1
    BY DEF Lived
  <2>1. CASE x = r
    BY <1>4, <2>1
  <2>2. CASE x # r
    BY <1>3, <2>2 DEF Sound, Lived
  <2> QED BY <2>1, <2>2
<1>7. ~InCall(s, r, Sending \cup Ending) /\ Stacked(q, s, w)
  BY <1>1, NotEnding DEF Sound
<1>8. Nested(t)
  BY <1>1, <1>7, NestedPush DEF Sound
<1>9. Stacked(p, t, w)
  <2>1. ASSUME NEW i \in 1 .. Len(s), Fits(q, s[i], w) PROVE Fits(p, s[i], w)
    <3>1. s[i] \in Frames
      BY <1>1
    <3>2. s[i].r \in Requests /\ s[i].pc \in Sending \cup Ending
      BY <3>1 DEF Frames
    <3>3. s[i].r # r
      BY <1>7, <3>2 DEF InCall
    <3> QED BY <1>3, <2>1, <3>2, <3>3 DEF Fits
  <2>2. Stacked(p, s, w)
    BY <1>1, <1>7, <2>1, StackedSame
  <2>3. \A n \in JsonpNames : w[n] # r
    BY DEF Sound, Owned
  <2>4. Fits(p, c, w)
    BY <1>1, <1>4, <2>3 DEF Fits, Ending
  <2> QED BY <1>1, <2>2, <2>4, StackedPush
<1>10. \A x \in Requests : q[x].begun => p[x].begun
  BY <1>3
<1>11. \A x \in Requests : Alone(p, x) => Alone(q, x)
  BY <1>10 DEF Alone
<1>12. Owned(p, w)
  <2>1. \A n \in JsonpNames, x \in Requests : w[n] = x => Jsonp(x, n) /\ p[x].begun
    BY <1>10 DEF Sound, Owned
  <2>2. ASSUME NEW y \in Requests, NEW x \in Requests, p[y].previous = x
        PROVE  y # x /\ opts[y].kind = "jsonp" /\ Jsonp(x, opts[y].name) /\ p[y].begun /\ p[x].begun
    <3>1. y # r
      BY <1>4, <2>2 DEF Settings
    <3>2. q[y].previous = x
      BY <1>3, <2>2, <3>1
    <3> QED BY <1>10, <3>2 DEF Sound, Owned
  <2>3. ASSUME NEW x \in Requests, opts[x].kind = "jsonp", Alone(p, x)
        PROVE  p[x].container \in {"none", x} /\ (p[x].outcome = "ok" => p[x].container = x)
    <3>1. CASE x = r
      BY <1>4, <3>1
    <3>2. CASE x # r
      BY <1>3, <1>11, <2>3, <3>2 DEF Sound, Owned
    <3> QED BY <3>1, <3>2
  <2> QED BY <2>1, <2>2, <2>3 DEF Owned
<1>13. \A x, pcs : InCall(t, x, pcs) <=> (x = r /\ "prefilter" \in pcs) \/ InCall(s, x, pcs)
  BY <1>1, InPush
<1>14. Cleaned(p, t, w, th)
  <2> SUFFICES ASSUME NEW x \in Requests, NEW n \in JsonpNames, ~th, p[x].state = 2, w[n] = x, Alone(p, x)
               PROVE  InCall(t, x, {"deferred"})
    BY DEF Cleaned
  <2>1. x # r
    BY <1>4
  <2>2. InCall(s, x, {"deferred"})
    BY <1>3, <1>11, <2>1 DEF Sound, Cleaned
  <2> QED BY <1>13, <2>2
<1>15. Counts(p, t, ac, ru, br, th)
  <2>1. ASSUME NEW x \in Requests
        PROVE  p[x].counted = q[x].counted /\ p[x].early = q[x].early /\ (p[x].state = 2 <=> q[x].state = 2)
    <3>1. CASE x = r
      BY <1>4, <3>1
    <3>2. CASE x # r
      BY <1>3, <3>2
    <3> QED BY <3>1, <3>2
  <2>2. Counted(p) = Counted(q)
    BY <2>1 DEF Counted
  <2>3. "prefilter" \notin Ending
    BY DEF Ending
  <2>4. Open(p, t) = Open(q, s)
    BY <1>13, <2>1, <2>2, <2>3 DEF Open, Counted
  <2> QED BY <2>1, <2>2, <2>4, CountsSame DEF Sound
<1> QED BY <1>5, <1>6, <1>8, <1>9, <1>12, <1>14, <1>15 DEF Sound, p

\* The page is called back and begins or aborts a request, throws, or does nothing.
LEMMA CallBackKeeps ==
  ASSUME Settings, NEW q, NEW s, NEW w, NEW ac, NEW ru, NEW br, Sound(q, s, w, ac, ru, br, threw), Fresh(s),
         \A x \in Requests : q[x].begun = rq[x].begun, NEW self \in SUBSET Requests,
         NEW a \in PageActs(self), CallBack(q, s, a)
  PROVE  Sound(rq', stack', w, ac, ru, br, threw')
<1>1. CASE a.do = "throw"
  <2>1. rq' = q /\ stack' = <<>> /\ threw' = TRUE
    BY <1>1 DEF CallBack
  <2> QED BY <2>1, ThrowKeeps
<1>2. CASE a.do = "nothing"
  <2>1. rq' = q /\ stack' = s /\ (threw' <=> threw)
    BY <1>2 DEF CallBack
  <2> QED BY <2>1 DEF Sound, Cleaned, Counts
<1>3. CASE a.do = "begin"
  <2>1. a.r \in Requests /\ ~rq[a.r].begun
    BY <1>3 DEF PageActs, Nothing
  <2>2. rq' = [q EXCEPT ![a.r].begun = TRUE] /\ stack' = <<Call(a.r, "prefilter")>> \o s /\ (threw' <=> threw)
    BY <1>3 DEF CallBack
  <2>3. Sound(rq', stack', w, ac, ru, br, threw)
    BY <2>1, <2>2, BeginKeeps
  <2> QED BY <2>2, <2>3 DEF Sound, Cleaned, Counts
<1>4. CASE a.do = "abort"
  <2>1. a.r \in Requests /\ rq[a.r].begun
    BY <1>4 DEF PageActs, Nothing
  <2>2. rq' = abort(q, s, a.r, "abort").q /\ stack' = abort(q, s, a.r, "abort").s /\ (threw' <=> threw)
    BY <1>4 DEF CallBack
  <2>3. Sound(rq', stack', w, ac, ru, br, threw)
    BY <2>1, <2>2, AbortKeeps
  <2> QED BY <2>2, <2>3 DEF Sound, Cleaned, Counts
<1>5. a.do \in {"nothing", "begin", "abort", "throw"}
  BY DEF PageActs, Nothing
<1> QED BY <1>1, <1>2, <1>3, <1>4, <1>5

\* The prefilter of jsonp takes the name.
LEMMA TakeName ==
  ASSUME Settings, NEW q, NEW s, NEW w, NEW ac, NEW ru, NEW br, NEW th, Sound(q, s, w, ac, ru, br, th), Fresh(s),
         NEW r \in Requests, q[r].begun, q[r].state # 2, opts[r].kind = "jsonp", \A n \in JsonpNames : w[n] # r
  PROVE  LET p == [q EXCEPT ![r].previous = w[opts[r].name]] IN
         Sound(p, s, [w EXCEPT ![opts[r].name] = r], ac, ru, br, th) /\ \A x \in Requests : p[x].begun = q[x].begun
<1> DEFINE p == [q EXCEPT ![r].previous = w[opts[r].name]]
           v == [w EXCEPT ![opts[r].name] = r]
<1>1. q \in [Requests -> Record] /\ q[r] \in Record /\ s \in Seq(Frames) /\ w \in [JsonpNames -> Requests \cup {Page}]
      /\ opts[r].name \in JsonpNames
  BY DEF Sound, Typed, Settings
<1>2. /\ p \in [Requests -> Record] /\ \A x \in Requests \ {r} : p[x] = q[x]
      /\ p[r] = [q[r] EXCEPT !.previous = w[opts[r].name]]
  <2>1. [q[r] EXCEPT !.previous = w[opts[r].name]] \in Record
    BY <1>1 DEF Record
  <2> QED BY <1>1, <2>1
<1>3. /\ p[r].begun = q[r].begun /\ p[r].counted = q[r].counted /\ p[r].early = q[r].early
      /\ p[r].outcome = q[r].outcome /\ p[r].dones = q[r].dones /\ p[r].previous = w[opts[r].name]
      /\ p[r].container = q[r].container /\ p[r].state = q[r].state /\ p[r].timer = q[r].timer
      /\ p[r].transport = q[r].transport
  BY <1>1, <1>2 DEF Record
<1> HIDE DEF p
<1>4. \A x \in Requests : /\ p[x].begun = q[x].begun /\ p[x].counted = q[x].counted /\ p[x].early = q[x].early
                          /\ p[x].outcome = q[x].outcome /\ p[x].dones = q[x].dones
                          /\ p[x].container = q[x].container /\ p[x].state = q[x].state /\ p[x].timer = q[x].timer
                          /\ p[x].transport = q[x].transport
  BY <1>2, <1>3
<1>5. v \in [JsonpNames -> Requests \cup {Page}] /\ v[opts[r].name] = r /\ \A n \in JsonpNames \ {opts[r].name} : v[n] = w[n]
  BY <1>1
<1> HIDE DEF v
<1>6. Typed(p, s, v)
  BY <1>1, <1>2, <1>5 DEF Sound, Typed
<1>7. Lived(p)
  <2>1. \A x \in Requests : ~p[x].begun => p[x] = q[x]
    BY <1>2, <1>4
  <2> QED BY <1>4, <2>1 DEF Sound, Lived
<1>8. Stacked(p, s, v)
  <2>1. ASSUME NEW i \in 1 .. Len(s), Fits(q, s[i], w) PROVE Fits(p, s[i], v)
    <3>1. s[i] \in Frames
      BY <1>1
    <3>2. s[i].r \in Requests /\ s[i].pc # "prefilter"
      BY <3>1 DEF Frames, Fresh
    <3> QED BY <1>4, <2>1, <3>2 DEF Fits
  <2> QED BY <1>1, <2>1, StackedSame DEF Sound
<1>9. \A x \in Requests : Alone(p, x) <=> Alone(q, x)
  BY <1>4 DEF Alone
<1>10. Owned(p, v)
  <2>1. ASSUME NEW n \in JsonpNames, NEW x \in Requests, v[n] = x PROVE Jsonp(x, n) /\ p[x].begun
    <3>1. CASE n = opts[r].name
      BY <1>4, <1>5, <2>1, <3>1 DEF Jsonp
    <3>2. CASE n # opts[r].name
      BY <1>4, <1>5, <2>1, <3>2 DEF Sound, Owned
    <3> QED BY <3>1, <3>2
  <2>2. ASSUME NEW y \in Requests, NEW x \in Requests, p[y].previous = x
        PROVE  y # x /\ opts[y].kind = "jsonp" /\ Jsonp(x, opts[y].name) /\ p[y].begun /\ p[x].begun
    <3>1. CASE y = r
      <4>1. w[opts[r].name] = x /\ x # r
        BY <1>1, <1>3, <2>2, <3>1
      <4> QED BY <1>1, <1>4, <3>1, <4>1 DEF Sound, Owned
    <3>2. CASE y # r
      BY <1>2, <1>4, <2>2, <3>2 DEF Sound, Owned
    <3> QED BY <3>1, <3>2
  <2>3. \A x \in Requests : opts[x].kind = "jsonp" /\ Alone(p, x) =>
           p[x].container \in {"none", x} /\ (p[x].outcome = "ok" => p[x].container = x)
    BY <1>4, <1>9 DEF Sound, Owned
  <2> QED BY <2>1, <2>2, <2>3 DEF Owned
<1>11. Cleaned(p, s, v, th)
  <2> SUFFICES ASSUME NEW x \in Requests, NEW n \in JsonpNames, ~th, p[x].state = 2, v[n] = x, Alone(p, x)
               PROVE  InCall(s, x, {"deferred"})
    BY DEF Cleaned
  <2>1. x # r /\ w[n] = x
    BY <1>4, <1>5
  <2> QED BY <1>4, <1>9, <2>1 DEF Sound, Cleaned
<1>12. Counts(p, s, ac, ru, br, th)
  <2>1. Counted(p) = Counted(q)
    BY <1>4 DEF Counted
  <2>2. Open(p, s) = Open(q, s)
    BY <1>4, <2>1 DEF Open, Counted
  <2> QED BY <1>4, <2>1, <2>2, CountsSame DEF Sound
<1>13. Sound(p, s, v, ac, ru, br, th)
  BY <1>6, <1>7, <1>8, <1>10, <1>11, <1>12 DEF Sound
<1> QED BY <1>4, <1>13 DEF p, v

\* done() of a jsonp request gives the name back.
LEMMA GiveBack ==
  ASSUME Settings, NEW q, NEW s, NEW w, NEW ac, NEW ru, NEW br, NEW th, Sound(q, s, w, ac, ru, br, th), s # <<>>,
         s[1].pc = "deferred",
         NEW v, v = IF opts[s[1].r].kind = "jsonp" THEN [w EXCEPT ![opts[s[1].r].name] = q[s[1].r].previous] ELSE w
  PROVE  Sound(q, Goto(s, "complete"), v, ac, ru, br, th) /\ Fresh(Goto(s, "complete"))
<1> DEFINE r == s[1].r
           t == Goto(s, "complete")
           m == opts[r].name
<1>1. s \in Seq(Frames) /\ "complete" \in Ending /\ s[1] \in Frames /\ Fits(q, s[1], w)
  BY StackedPop DEF Sound, Typed, Ending
<1>2. r \in Requests /\ q[r].begun /\ q[r].state = 2 /\ m \in JsonpNames /\ w \in [JsonpNames -> Requests \cup {Page}]
      /\ q \in [Requests -> Record] /\ q[r].previous \in Requests \cup {Page}
  <2>1. r \in Requests /\ q[r].begun /\ q[r].state = 2
    BY <1>1 DEF Fits, Frames, Ending
  <2>2. q \in [Requests -> Record] /\ w \in [JsonpNames -> Requests \cup {Page}] /\ m \in JsonpNames
    BY <2>1 DEF Sound, Typed, Settings
  <2>3. q[r] \in Record
    BY <2>1, <2>2
  <2> QED BY <2>1, <2>2, <2>3 DEF Record
<1>3. v \in [JsonpNames -> Requests \cup {Page}] /\ \A n \in JsonpNames :
        v[n] = IF opts[r].kind = "jsonp" /\ n = m THEN q[r].previous ELSE w[n]
  BY <1>2
<1>4. t \in Seq(Frames) /\ Nested(t)
  <2>1. t \in Seq(Frames)
    BY <1>1, Go
  <2> QED BY <1>1, <2>1, NestedGo DEF Sound, Ending
<1>5. Stacked(q, t, v) /\ Fresh(t)
  <2>1. Fits(q, Call(r, "complete"), w)
    BY <1>1 DEF Fits, Call, Ending
  <2>2. Stacked(q, t, w) /\ Fresh(t)
    BY <1>1, <2>1, StackedGo DEF Sound
  <2>3. \A i \in 1 .. Len(t) : Fits(q, t[i], w) => Fits(q, t[i], v)
    BY <2>2 DEF Fits, Fresh
  <2> QED BY <1>4, <2>2, <2>3, StackedSame
<1>6. \A x, pcs : InCall(s, x, pcs) <=> (r = x /\ "deferred" \in pcs) \/ InCall(Tail(s), x, pcs)
  BY <1>1, InPop
<1>7. \A x, pcs : InCall(t, x, pcs) <=> (r = x /\ "complete" \in pcs) \/ InCall(Tail(s), x, pcs)
  BY <1>1, InGo
<1> HIDE DEF t, r, m
<1>8. Owned(q, v)
  <2>1. ASSUME NEW n \in JsonpNames, NEW x \in Requests, v[n] = x PROVE Jsonp(x, n) /\ q[x].begun
    BY <1>2, <1>3, <2>1 DEF Sound, Owned, m
  <2> QED BY <2>1 DEF Sound, Owned
<1>9. Cleaned(q, t, v, th)
  <2> SUFFICES ASSUME NEW x \in Requests, NEW n \in JsonpNames, ~th, q[x].state = 2, v[n] = x, Alone(q, x)
               PROVE  InCall(t, x, {"deferred"})
    BY DEF Cleaned
  <2>1. CASE x = r
    <3>1. w[n] # x \/ (Jsonp(r, n) /\ n = m /\ opts[r].kind = "jsonp")
      BY <2>1 DEF Sound, Owned, Jsonp, m
    <3>2. q[r].previous # r
      BY <1>2 DEF Sound, Owned
    <3> QED BY <1>3, <2>1, <3>1, <3>2
  <2>2. CASE x # r
    <3>1. q[r].previous # x \/ opts[r].kind # "jsonp"
      <4>1. ASSUME q[r].previous = x, opts[r].kind = "jsonp" PROVE FALSE
        <5>1. Jsonp(x, m)
          BY <1>2, <4>1 DEF Sound, Owned, m
        <5>2. Jsonp(r, opts[x].name)
          BY <4>1, <5>1 DEF Jsonp, m
        <5> QED BY <1>2, <2>2, <5>2 DEF Alone
      <4> QED BY <4>1
    <3>2. w[n] = x
      BY <1>3, <3>1
    <3>3. InCall(s, x, {"deferred"})
      BY <3>2 DEF Sound, Cleaned
    <3> QED BY <1>6, <1>7, <2>2, <3>3
  <2> QED BY <2>1, <2>2
<1>10. "deferred" \in Ending /\ Open(q, t) = Open(q, s)
  <2>1. "deferred" \in Ending
    BY DEF Ending
  <2> QED BY <1>1, <1>6, <1>7, <2>1 DEF Open
<1>11. Counts(q, t, ac, ru, br, th)
  BY <1>10, CountsSame DEF Sound
<1>12. Typed(q, t, v)
  BY <1>3, <1>4 DEF Sound, Typed
<1> QED BY <1>4, <1>5, <1>8, <1>9, <1>11, <1>12 DEF Sound, t

\* The function of a request is called with the answer to request c.
Fed(q, r, c) == [q EXCEPT ![r].container = c]
LEMMA FeedKeeps ==
  ASSUME Settings, NEW q, NEW s, NEW w, NEW ac, NEW ru, NEW br, NEW th, Sound(q, s, w, ac, ru, br, th),
         NEW r \in Requests, q[r].begun, NEW c \in Requests, Alone(q, r) => c = r, NEW p, p = Fed(q, r, c)
  PROVE  /\ Sound(p, s, w, ac, ru, br, th)
         /\ \A x \in Requests : /\ p[x].begun = q[x].begun /\ p[x].previous = q[x].previous
                                /\ p[x].state = q[x].state /\ (q[x].container # "none" => p[x].container # "none")
<1>1. q \in [Requests -> Record] /\ q[r] \in Record /\ s \in Seq(Frames) /\ c # "none"
  BY DEF Sound, Typed, Settings
<1>2. /\ p \in [Requests -> Record] /\ \A x \in Requests \ {r} : p[x] = q[x]
      /\ p[r] = [q[r] EXCEPT !.container = c]
  <2>1. [q[r] EXCEPT !.container = c] \in Record
    BY <1>1 DEF Record
  <2>2. p = [q EXCEPT ![r] = [q[r] EXCEPT !.container = c]]
    BY DEF Fed
  <2> QED BY <1>1, <2>1, <2>2
<1>3. /\ p[r].begun = q[r].begun /\ p[r].counted = q[r].counted /\ p[r].early = q[r].early
      /\ p[r].outcome = q[r].outcome /\ p[r].dones = q[r].dones /\ p[r].previous = q[r].previous
      /\ p[r].container = c /\ p[r].state = q[r].state /\ p[r].timer = q[r].timer
      /\ p[r].transport = q[r].transport
  BY <1>1, <1>2 DEF Record
<1>4. \A x \in Requests : /\ p[x].begun = q[x].begun /\ p[x].counted = q[x].counted /\ p[x].early = q[x].early
                          /\ p[x].outcome = q[x].outcome /\ p[x].dones = q[x].dones /\ p[x].previous = q[x].previous
                          /\ p[x].state = q[x].state /\ p[x].timer = q[x].timer
                          /\ p[x].transport = q[x].transport /\ (q[x].container # "none" => p[x].container # "none")
  <2> SUFFICES ASSUME NEW x \in Requests
               PROVE  /\ p[x].begun = q[x].begun /\ p[x].counted = q[x].counted /\ p[x].early = q[x].early
                      /\ p[x].outcome = q[x].outcome /\ p[x].dones = q[x].dones /\ p[x].previous = q[x].previous
                      /\ p[x].state = q[x].state /\ p[x].timer = q[x].timer
                      /\ p[x].transport = q[x].transport /\ (q[x].container # "none" => p[x].container # "none")
    OBVIOUS
  <2>1. CASE x = r
    BY <1>1, <1>3, <2>1
  <2>2. CASE x # r
    BY <1>2, <2>2
  <2> QED BY <2>1, <2>2
<1>5. Typed(p, s, w)
  BY <1>2 DEF Sound, Typed
<1>6. Lived(p)
  <2>1. \A x \in Requests : ~p[x].begun => p[x] = q[x]
    BY <1>2, <1>4
  <2> QED BY <1>4, <2>1 DEF Sound, Lived
<1>7. Stacked(p, s, w)
  <2>1. ASSUME NEW i \in 1 .. Len(s), Fits(q, s[i], w) PROVE Fits(p, s[i], w)
    <3>1. s[i] \in Frames
      BY <1>1
    <3>2. s[i].r \in Requests
      BY <3>1 DEF Frames
    <3> QED BY <1>4, <2>1, <3>2 DEF Fits
  <2> QED BY <1>1, <2>1, StackedSame DEF Sound
<1>8. \A x \in Requests : Alone(p, x) <=> Alone(q, x)
  BY <1>4 DEF Alone
<1>9. Owned(p, w)
  <2>1. \A n \in JsonpNames, x \in Requests : w[n] = x => Jsonp(x, n) /\ p[x].begun
    BY <1>4 DEF Sound, Owned
  <2>2. \A y, x \in Requests : p[y].previous = x =>
           y # x /\ opts[y].kind = "jsonp" /\ Jsonp(x, opts[y].name) /\ p[y].begun /\ p[x].begun
    BY <1>4 DEF Sound, Owned
  <2>3. ASSUME NEW x \in Requests, opts[x].kind = "jsonp", Alone(p, x)
        PROVE  p[x].container \in {"none", x} /\ (p[x].outcome = "ok" => p[x].container = x)
    <3>1. CASE x = r
      BY <1>3, <1>8, <2>3, <3>1
    <3>2. CASE x # r
      BY <1>2, <1>8, <2>3, <3>2 DEF Sound, Owned
    <3> QED BY <3>1, <3>2
  <2> QED BY <2>1, <2>2, <2>3 DEF Owned
<1>10. Cleaned(p, s, w, th)
  BY <1>4, <1>8 DEF Sound, Cleaned
<1>11. Counts(p, s, ac, ru, br, th)
  <2>1. Counted(p) = Counted(q)
    BY <1>4 DEF Counted
  <2>2. Open(p, s) = Open(q, s)
    BY <1>4, <2>1 DEF Open, Counted
  <2> QED BY <1>4, <2>1, <2>2, CountsSame DEF Sound
<1>12. Sound(p, s, w, ac, ru, br, th)
  BY <1>5, <1>6, <1>7, <1>9, <1>10, <1>11 DEF Sound
<1> QED BY <1>4, <1>12

\* A request is counted, and ajaxStart sent if it is the first.
Numbered(q, r) == [q EXCEPT ![r].counted = TRUE]

LEMMA CountOne ==
  ASSUME Settings, NEW q, NEW s, NEW w, NEW th, Sound(q, s, w, active, running, broken, th),
         NEW r \in Requests, q[r].begun, q[r].state # 2, ~q[r].counted, ~InCall(s, r, {"prefilter", "start"}),
         active = 0 => running' /\ (broken' <=> broken \/ running), active # 0 => (running' <=> running) /\ (broken' <=> broken),
         NEW p, p = Numbered(q, r)
  PROVE  Sound(p, s, w, active + 1, running', broken', th) /\ \A x \in Requests : p[x].begun = q[x].begun
<1>1. q \in [Requests -> Record] /\ q[r] \in Record /\ s \in Seq(Frames)
  BY DEF Sound, Typed
<1>2. /\ p \in [Requests -> Record] /\ \A x \in Requests \ {r} : p[x] = q[x]
      /\ p[r] = [q[r] EXCEPT !.counted = TRUE]
  <2>1. [q[r] EXCEPT !.counted = TRUE] \in Record
    BY <1>1 DEF Record
  <2>2. p = [q EXCEPT ![r] = [q[r] EXCEPT !.counted = TRUE]]
    BY DEF Numbered
  <2> QED BY <1>1, <2>1, <2>2
<1>3. /\ p[r].begun = q[r].begun /\ p[r].counted /\ p[r].early = q[r].early
      /\ p[r].outcome = q[r].outcome /\ p[r].dones = q[r].dones /\ p[r].previous = q[r].previous
      /\ p[r].container = q[r].container /\ p[r].state = q[r].state /\ p[r].timer = q[r].timer
      /\ p[r].transport = q[r].transport
  BY <1>1, <1>2 DEF Record
<1>4. \A x \in Requests : /\ p[x].begun = q[x].begun /\ (p[x].counted <=> q[x].counted \/ x = r) /\ p[x].early = q[x].early
                          /\ p[x].outcome = q[x].outcome /\ p[x].dones = q[x].dones /\ p[x].previous = q[x].previous
                          /\ p[x].container = q[x].container /\ p[x].state = q[x].state /\ p[x].timer = q[x].timer
                          /\ p[x].transport = q[x].transport
  BY <1>2, <1>3
<1>5. Typed(p, s, w)
  BY <1>2 DEF Sound, Typed
<1>6. Lived(p)
  <2>1. \A x \in Requests : ~p[x].begun => p[x] = q[x]
    BY <1>2, <1>4
  <2> QED BY <1>4, <2>1 DEF Sound, Lived
<1>7. Stacked(p, s, w)
  <2>1. ASSUME NEW i \in 1 .. Len(s), Fits(q, s[i], w) PROVE Fits(p, s[i], w)
    <3>1. s[i] \in Frames
      BY <1>1
    <3>2. s[i].r \in Requests
      BY <3>1 DEF Frames
    <3>3. s[i].pc \in {"prefilter", "start"} => s[i].r # r
      BY DEF InCall
    <3> QED BY <1>4, <2>1, <3>2, <3>3 DEF Fits
  <2> QED BY <1>1, <2>1, StackedSame DEF Sound
<1>8. \A x \in Requests : Alone(p, x) <=> Alone(q, x)
  BY <1>4 DEF Alone
<1>9. Owned(p, w)
  <2>1. \A n \in JsonpNames, x \in Requests : w[n] = x => Jsonp(x, n) /\ p[x].begun
    BY <1>4 DEF Sound, Owned
  <2>2. \A y, x \in Requests : p[y].previous = x =>
           y # x /\ opts[y].kind = "jsonp" /\ Jsonp(x, opts[y].name) /\ p[y].begun /\ p[x].begun
    BY <1>4 DEF Sound, Owned
  <2>3. \A x \in Requests : opts[x].kind = "jsonp" /\ Alone(p, x) =>
           p[x].container \in {"none", x} /\ (p[x].outcome = "ok" => p[x].container = x)
    BY <1>4, <1>8 DEF Sound, Owned
  <2> QED BY <2>1, <2>2, <2>3 DEF Owned
<1>10. Cleaned(p, s, w, th)
  BY <1>4, <1>8 DEF Sound, Cleaned
<1>11. Counts(p, s, active + 1, running', broken', th)
  <2>1. Counted(p) = Counted(q) \cup {r} /\ r \notin Counted(q) /\ r \notin Open(q, s)
    BY <1>4 DEF Counted, Open
  <2>2. Open(p, s) = Open(q, s) \cup {r}
    BY <1>4, <2>1 DEF Open, Counted
  <2>3. /\ Cardinality(Counted(q)) \in Nat /\ Cardinality(Open(q, s)) \in Nat
        /\ Cardinality(Counted(p)) = Cardinality(Counted(q)) + 1
        /\ Cardinality(Open(p, s)) = Cardinality(Open(q, s)) + 1
    BY <2>1, <2>2, CountsFinite, FS_AddElement
  <2> SUFFICES ASSUME \A x \in Requests : ~p[x].early
               PROVE  /\ active + 1 \in Nat /\ active + 1 <= Cardinality(Counted(p))
                      /\ Cardinality(Open(p, s)) <= active + 1 /\ (~th => active + 1 = Cardinality(Open(p, s)))
                      /\ (running' <=> active + 1 > 0) /\ ~broken'
    BY DEF Counts
  <2>4. /\ active \in Nat /\ active <= Cardinality(Counted(q))
        /\ Cardinality(Open(q, s)) <= active /\ (~th => active = Cardinality(Open(q, s)))
        /\ (running <=> active > 0) /\ ~broken
    BY <1>4 DEF Sound, Counts
  <2>5. running' /\ ~broken'
    BY <2>4
  <2> QED BY <2>3, <2>4, <2>5
<1>12. Sound(p, s, w, active + 1, running', broken', th)
  BY <1>5, <1>6, <1>7, <1>9, <1>10, <1>11 DEF Sound
<1> QED BY <1>4, <1>12

\* done() of a counted request returns, and ajaxStop is sent if it was the last.
LEMMA CountOff ==
  ASSUME Settings, NEW q, NEW s, NEW w, NEW ac, NEW ru, NEW br, NEW th, Sound(q, s, w, ac, ru, br, th), s # <<>>,
         s[1].pc = "stop",
         NEW on, NEW bad, ac = 1 => ~on /\ (bad <=> br \/ ~ru), ac # 1 => (on <=> ru) /\ (bad <=> br)
  PROVE  Sound(q, Tail(s), w, ac - 1, on, bad, th) /\ Fresh(Tail(s))
<1> DEFINE r == s[1].r
           t == Tail(s)
<1>1. s \in Seq(Frames) /\ t \in Seq(Frames) /\ s[1] \in Frames /\ Fits(q, s[1], w)
  BY Pop, StackedPop DEF Sound, Typed
<1>2. Nested(t) /\ Stacked(q, t, w) /\ Fresh(t)
  BY <1>1, NestedPop, StackedPop DEF Sound
<1>3. \A x, pcs : InCall(s, x, pcs) <=> (r = x /\ s[1].pc \in pcs) \/ InCall(t, x, pcs)
  BY <1>1, InPop
<1>4. r \in Requests /\ q[r].counted /\ q[r].state = 2 /\ "stop" \in Ending
  BY <1>1 DEF Fits, Frames, Ending
<1>5. ~InCall(t, r, Ending)
  BY <1>1, <1>4, NestedPop DEF Sound
<1> HIDE DEF t, r
<1>6. Cleaned(q, t, w, th)
  BY <1>3 DEF Sound, Cleaned
<1>7. Counts(q, t, ac - 1, on, bad, th)
  <2>1. Open(q, s) = Open(q, t) \cup {r} /\ r \notin Open(q, t)
    BY <1>3, <1>4, <1>5 DEF Open, Counted
  <2>2. /\ Cardinality(Counted(q)) \in Nat /\ Cardinality(Open(q, t)) \in Nat
        /\ Cardinality(Open(q, s)) = Cardinality(Open(q, t)) + 1
    BY <2>1, CountsFinite, FS_AddElement
  <2> SUFFICES ASSUME \A x \in Requests : ~q[x].early
               PROVE  /\ ac - 1 \in Nat /\ ac - 1 <= Cardinality(Counted(q))
                      /\ Cardinality(Open(q, t)) <= ac - 1 /\ (~th => ac - 1 = Cardinality(Open(q, t)))
                      /\ (on <=> ac - 1 > 0) /\ ~bad
    BY DEF Counts
  <2>3. /\ ac \in Nat /\ ac <= Cardinality(Counted(q))
        /\ Cardinality(Open(q, s)) <= ac /\ (~th => ac = Cardinality(Open(q, s)))
        /\ (ru <=> ac > 0) /\ ~br
    BY DEF Sound, Counts
  <2>4. (on <=> ac - 1 > 0) /\ ~bad
    <3>1. CASE ac = 1
      BY <2>3, <3>1
    <3>2. CASE ac # 1
      <4>1. ac > 1
        BY <2>2, <2>3, <3>2
      <4> QED BY <2>3, <3>2, <4>1
    <3> QED BY <3>1, <3>2
  <2> QED BY <2>2, <2>3, <2>4
<1> QED BY <1>1, <1>2, <1>6, <1>7 DEF Sound, Typed, t

\* A request whose transport was taken away before it was sent: done() runs again.
LEMMA GoneKeeps ==
  ASSUME NEW q, NEW s, NEW w, NEW ac, NEW ru, NEW br, NEW th, Sound(q, s, w, ac, ru, br, th), Fresh(s),
         NEW r \in Requests, q[r].begun, ~InCall(s, r, Sending \cup Ending),
         NEW p \in [Requests -> Record], \A x \in Requests \ {r} : p[x] = q[x],
         p[r].begun, p[r].state = 2, ~p[r].timer, p[r].transport = "none", p[r].outcome = "error", p[r].early,
         p[r].previous = q[r].previous, p[r].container = q[r].container
  PROVE  Sound(p, <<Call(r, "deferred")>> \o s, w, ac, ru, br, th)
<1> DEFINE c == Call(r, "deferred")
           t == <<c>> \o s
<1>1. s \in Seq(Frames) /\ c \in Frames /\ c.r = r /\ c.pc = "deferred" /\ t \in Seq(Frames)
  <2>1. c \in Frames
    BY DEF Frames, Call, Ending
  <2> QED BY <2>1, Push DEF Sound, Typed, Call
<1>2. \A x \in Requests : p[x].begun = q[x].begun /\ p[x].previous = q[x].previous /\ p[x].container = q[x].container
  <2>1. \A x \in Requests : q[x] \in Record /\ p[x] \in Record
    BY DEF Sound, Typed
  <2> QED BY <2>1 DEF Record
<1>3. Typed(p, t, w)
  BY <1>1 DEF Sound, Typed
<1>4. Lived(p)
  BY DEF Sound, Lived
<1>5. Nested(t)
  BY <1>1, NestedPush DEF Sound
<1>6. Stacked(p, t, w)
  <2>1. ASSUME NEW i \in 1 .. Len(s), Fits(q, s[i], w) PROVE Fits(p, s[i], w)
    <3>1. s[i] \in Frames
      BY <1>1
    <3>2. s[i].r \in Requests /\ s[i].pc \in Sending \cup Ending
      BY <3>1 DEF Frames
    <3>3. s[i].r # r
      BY <3>2 DEF InCall
    <3> QED BY <2>1, <3>2, <3>3 DEF Fits
  <2>2. Stacked(p, s, w)
    BY <1>1, <2>1, StackedSame DEF Sound
  <2>3. Fits(p, c, w)
    BY <1>1 DEF Fits, Ending
  <2> QED BY <1>1, <2>2, <2>3, StackedPush
<1>7. \A x \in Requests : Alone(p, x) <=> Alone(q, x)
  BY <1>2 DEF Alone
<1>8. Owned(p, w)
  <2>1. \A n \in JsonpNames, x \in Requests : w[n] = x => Jsonp(x, n) /\ p[x].begun
    BY <1>2 DEF Sound, Owned
  <2>2. \A y, x \in Requests : p[y].previous = x =>
           y # x /\ opts[y].kind = "jsonp" /\ Jsonp(x, opts[y].name) /\ p[y].begun /\ p[x].begun
    BY <1>2 DEF Sound, Owned
  <2>3. \A x \in Requests : opts[x].kind = "jsonp" /\ Alone(p, x) =>
           p[x].container \in {"none", x} /\ (p[x].outcome = "ok" => p[x].container = x)
    BY <1>2, <1>7 DEF Sound, Owned
  <2> QED BY <2>1, <2>2, <2>3 DEF Owned
<1>9. \A x, pcs : InCall(t, x, pcs) <=> (x = r /\ "deferred" \in pcs) \/ InCall(s, x, pcs)
  BY <1>1, InPush
<1>10. Cleaned(p, t, w, th)
  <2> SUFFICES ASSUME NEW x \in Requests, NEW n \in JsonpNames, ~th, p[x].state = 2, w[n] = x, Alone(p, x)
               PROVE  InCall(t, x, {"deferred"})
    BY DEF Cleaned
  <2>1. CASE x = r
    BY <1>9, <2>1
  <2>2. CASE x # r
    BY <1>7, <1>9, <2>2 DEF Sound, Cleaned
  <2> QED BY <2>1, <2>2
<1>11. Counts(p, t, ac, ru, br, th)
  BY DEF Counts
<1> QED BY <1>3, <1>4, <1>5, <1>6, <1>8, <1>10, <1>11 DEF Sound

LEMMA Arguments ==
  ASSUME AjInv, stack # <<>>
  PROVE  /\ stack \in Seq(Frames) /\ Top \in Frames /\ Top.r \in Requests /\ Top.pc \in Sending \cup Ending
         /\ Fits(rq, Top, win) /\ rq[Top.r].begun /\ opts[Top.r] \in Options
         /\ rq \in [Requests -> Record] /\ rq[Top.r] \in Record
<1>1. stack \in Seq(Frames) /\ Top \in Frames /\ Fits(rq, Top, win)
  BY StackedPop DEF AjInv, Sound, Typed, Top
<1> QED BY <1>1 DEF Frames, Fits, AjInv, Sound, Typed

\* One action after another.
LEMMA OutsideKeeps ==
  ASSUME Settings, AjInv, Outside
  PROVE  Sound(rq', stack', win', active', running', broken', threw')
<1>1. PICK a \in PageActs(Requests) : CallBack(rq, stack, a)
  BY DEF Outside
<1>2. stack = <<>> /\ Fresh(stack)
  BY DEF Outside, Fresh
<1>3. Sound(rq', stack', win, active, running, broken, threw')
  BY <1>1, <1>2, CallBackKeeps DEF AjInv
<1> QED BY <1>3 DEF Outside

LEMMA PrefilterKeeps ==
  ASSUME Settings, AjInv, Prefilter
  PROVE  Sound(rq', stack', win', active', running', broken', threw')
<1> DEFINE r == Top.r
           s == Goto(stack, "start")
<1>1. stack # <<>> /\ Top.pc = "prefilter" /\ Top = stack[1]
  BY DEF Prefilter, At, Top
<1>2. r \in Requests /\ rq[r].begun /\ rq[r].state = 0 /\ ~rq[r].counted /\ \A n \in JsonpNames : win[n] # r
  BY <1>1, Arguments DEF Fits
<1>3. Sound(rq, s, win, active, running, broken, threw) /\ Fresh(s)
  BY <1>1, <1>2, GoKeeps DEF AjInv, Sending
<1> HIDE DEF r, s
<1>4. CASE opts[r].kind = "jsonp"
  <2> DEFINE q == [rq EXCEPT ![r].previous = win[opts[r].name]]
             v == [win EXCEPT ![opts[r].name] = r]
  <2>1. Sound(q, s, v, active, running, broken, threw) /\ \A x \in Requests : q[x].begun = rq[x].begun
    BY <1>2, <1>3, <1>4, TakeName
  <2>2. win' = v /\ \E a \in PageActs({r}) : CallBack(q, s, a)
    BY <1>4 DEF Prefilter, r, s
  <2>3. PICK a \in PageActs({r}) : CallBack(q, s, a)
    BY <2>2
  <2> HIDE DEF q, v
  <2>4. {r} \in SUBSET Requests
    BY <1>2
  <2>5. Sound(rq', stack', v, active, running, broken, threw')
    BY <1>3, <2>1, <2>3, <2>4, CallBackKeeps
  <2> QED BY <2>2, <2>5 DEF Prefilter
<1>5. CASE opts[r].kind # "jsonp"
  <2>1. win' = win /\ \E a \in PageActs({r}) : CallBack(rq, s, a)
    BY <1>5 DEF Prefilter, r, s
  <2>2. PICK a \in PageActs({r}) : CallBack(rq, s, a)
    BY <2>1
  <2>3. {r} \in SUBSET Requests
    BY <1>2
  <2>4. Sound(rq', stack', win, active, running, broken, threw')
    BY <1>3, <2>2, <2>3, CallBackKeeps
  <2> QED BY <2>1, <2>4 DEF Prefilter
<1> QED BY <1>4, <1>5

LEMMA StartKeeps ==
  ASSUME Settings, AjInv, Start
  PROVE  Sound(rq', stack', win', active', running', broken', threw')
<1> DEFINE r == Top.r
           s == Goto(stack, "beforeSend")
<1>1. stack # <<>> /\ Top.pc = "start" /\ Top = stack[1] /\ "start" \in Sending /\ win' = win
  BY DEF Start, At, Top, Sending
<1>2. r \in Requests /\ rq[r].begun /\ ~rq[r].counted /\ stack \in Seq(Frames)
  BY <1>1, Arguments DEF Fits
<1>3. Sound(rq, s, win, active, running, broken, threw) /\ Fresh(s)
  BY <1>1, GoKeeps DEF AjInv, Sending
<1>4. CASE rq[r].state = 2
  <2>1. stack' = Tail(stack) /\ UNCHANGED <<rq, active, running, broken, acts, threw>>
    BY <1>4 DEF Start, r
  <2>2. Sound(rq, Tail(stack), win, active, running, broken, threw)
    BY <1>1, PopKeeps DEF AjInv
  <2> QED BY <1>1, <2>1, <2>2
<1>5. CASE rq[r].state # 2 /\ ~opts[r].global
  <2>1. stack' = s /\ UNCHANGED <<rq, active, running, broken, acts, threw>>
    BY <1>5 DEF Start, r, s
  <2> QED BY <1>1, <1>3, <2>1
<1>6. CASE rq[r].state # 2 /\ opts[r].global
  <2> DEFINE q == [rq EXCEPT ![r].counted = TRUE]
  <2>1. ~InCall(s, r, {"prefilter", "start"})
    <3>1. ~InCall(Tail(stack), r, Sending)
      BY <1>1, <1>2, NestedPop DEF AjInv, Sound
    <3>2. ~InCall(Tail(stack), r, {"prefilter", "start"})
      BY <3>1 DEF InCall, Sending
    <3> QED BY <1>1, <1>2, <3>2, InGo DEF Sending
  <2>2. /\ active = 0 => running' /\ (broken' <=> broken \/ running)
        /\ active # 0 => (running' <=> running) /\ (broken' <=> broken)
        /\ active' = active + 1
    BY <1>6 DEF Start, r
  <2>3. Sound(q, s, win, active', running', broken', threw) /\ \A x \in Requests : q[x].begun = rq[x].begun
    <3> HIDE DEF s
    <3>1. Sound(q, s, win, active + 1, running', broken', threw) /\ \A x \in Requests : q[x].begun = rq[x].begun
      <4>1. active = 0 => running' /\ (broken' <=> broken \/ running)
        BY <2>2
      <4>2. active # 0 => (running' <=> running) /\ (broken' <=> broken)
        BY <2>2
      <4>3. q = Numbered(rq, r)
        BY DEF Numbered
      <4>4. r \in Requests /\ rq[r].begun /\ rq[r].state # 2 /\ ~rq[r].counted
        BY <1>2, <1>6
      <4>5. Sound(rq, s, win, active, running, broken, threw)
        BY <1>3
      <4> HIDE DEF q, r
      <4> QED BY <2>1, <4>1, <4>2, <4>3, <4>4, <4>5, CountOne
    <3> QED BY <2>2, <3>1
  <2>4. CASE active = 0
    <3>1. \E a \in PageActs(Requests \ {r}) : CallBack(q, s, a)
      BY <1>6, <2>4 DEF Start, r, s
    <3>2. PICK a \in PageActs(Requests \ {r}) : CallBack(q, s, a)
      BY <3>1
    <3> HIDE DEF q, r, s
    <3>3. Sound(rq', stack', win, active', running', broken', threw')
      BY <1>3, <2>3, <3>2, CallBackKeeps
    <3> QED BY <1>1, <3>3
  <2>5. CASE active # 0
    <3>1. rq' = q /\ stack' = s /\ threw' = threw
      BY <1>6, <2>5 DEF Start, r, s
    <3> QED BY <1>1, <2>3, <3>1
  <2> QED BY <2>4, <2>5
<1> QED BY <1>4, <1>5, <1>6

LEMMA BeforeSendKeeps ==
  ASSUME Settings, AjInv, BeforeSend
  PROVE  Sound(rq', stack', win', active', running', broken', threw')
<1> DEFINE r == Top.r
           s == Goto(stack, "transport")
<1>1. stack # <<>> /\ Top.pc = "beforeSend" /\ Top = stack[1] /\ UNCHANGED <<active, running, broken, win>>
  BY DEF BeforeSend, At, Top
<1>2. r \in Requests /\ rq[r].begun
  BY <1>1, Arguments
<1>3. Sound(rq, s, win, active, running, broken, threw) /\ Fresh(s)
  BY <1>1, GoKeeps DEF AjInv, Sending
<1>4. CASE \E a \in PageActs({r}) : CallBack(rq, s, a)
  <2>1. PICK a \in PageActs({r}) : CallBack(rq, s, a)
    BY <1>4
  <2>2. {r} \in SUBSET Requests
    BY <1>2
  <2> HIDE DEF r, s
  <2>3. Sound(rq', stack', win, active, running, broken, threw')
    BY <1>3, <2>1, <2>2, CallBackKeeps
  <2> QED BY <1>1, <2>3
<1>5. CASE /\ rq' = abort(rq, s, r, "abort").q /\ stack' = abort(rq, s, r, "abort").s
           /\ UNCHANGED <<acts, threw>>
  <2>1. Sound(rq', stack', win, active, running, broken, threw)
    BY <1>2, <1>3, <1>5, AbortKeeps
  <2> QED BY <1>1, <1>5, <2>1
<1> QED BY <1>4, <1>5 DEF BeforeSend

\* Changes of the transport, the answer under way and the timer of a request.
Changed(q, r, tm, st, tr, wi) == [q EXCEPT ![r].timer = tm, ![r].state = st, ![r].transport = tr, ![r].wire = wi]
LEMMA Change ==
  ASSUME NEW q, NEW s, NEW w, NEW ac, NEW ru, NEW br, NEW th, Sound(q, s, w, ac, ru, br, th),
         NEW r \in Requests, q[r].begun, NEW st \in 0 .. 2, NEW tm \in BOOLEAN, NEW tr \in {"none", "ready", "sent"},
         NEW wi \in {"none", "waiting"},
         \/ st = q[r].state /\ (st = 2 => tm = q[r].timer /\ tr = q[r].transport)
         \/ q[r].state # 2 /\ st # 2 /\ ~InCall(s, r, {"prefilter"}),
         NEW p, p = Changed(q, r, tm, st, tr, wi)
  PROVE  /\ Sound(p, s, w, ac, ru, br, th)
         /\ \A x \in Requests : p[x].begun = q[x].begun /\ p[x].container = q[x].container
<1> DEFINE m == [q[r] EXCEPT !.timer = tm, !.state = st, !.transport = tr, !.wire = wi]
<1>1. q \in [Requests -> Record] /\ q[r] \in Record
  BY DEF Sound, Typed
<1>2. p = [q EXCEPT ![r] = m]
  BY DEF Changed
<1>3. m \in Record
  BY <1>1 DEF Record
<1>4. /\ m.begun = q[r].begun /\ m.counted = q[r].counted /\ m.early = q[r].early
      /\ m.outcome = q[r].outcome /\ m.dones = q[r].dones /\ m.previous = q[r].previous
      /\ m.container = q[r].container /\ m.state = st /\ m.timer = tm /\ m.transport = tr
  BY <1>1 DEF Record
<1> HIDE DEF m
<1>5. p \in [Requests -> Record] /\ p[r] = m /\ \A x \in Requests \ {r} : p[x] = q[x]
  BY <1>1, <1>2, <1>3
<1>6. Alike(q, p, s)
  <2>1. (st = 2 <=> q[r].state = 2) /\ (InCall(s, r, {"prefilter"}) => st = q[r].state)
        /\ (q[r].state = 2 => tm = q[r].timer /\ tr = q[r].transport)
    OBVIOUS
  <2>2. ASSUME NEW x \in Requests
        PROVE  /\ ~q[x].begun => p[x] = q[x]
               /\ p[x].begun = q[x].begun /\ p[x].counted = q[x].counted /\ p[x].early = q[x].early
               /\ p[x].outcome = q[x].outcome /\ p[x].dones = q[x].dones /\ p[x].previous = q[x].previous
               /\ p[x].container = q[x].container /\ (p[x].state = 2 <=> q[x].state = 2)
               /\ InCall(s, x, {"prefilter"}) => p[x].state = q[x].state
               /\ q[x].state = 2 => p[x].timer = q[x].timer /\ p[x].transport = q[x].transport
    <3>1. CASE x = r
      BY <1>4, <1>5, <2>1, <3>1
    <3>2. CASE x # r
      BY <1>5, <3>2
    <3> QED BY <3>1, <3>2
  <2> QED BY <2>2 DEF Alike
<1>7. Sound(p, s, w, ac, ru, br, th)
  BY <1>5, <1>6, WireKeeps
<1>8. \A x \in Requests : p[x].begun = q[x].begun /\ p[x].container = q[x].container
  <2> SUFFICES ASSUME NEW x \in Requests PROVE p[x].begun = q[x].begun /\ p[x].container = q[x].container
    OBVIOUS
  <2>1. CASE x = r
    BY <1>4, <1>5, <2>1
  <2>2. CASE x # r
    BY <1>5, <2>2
  <2> QED BY <2>1, <2>2
<1> QED BY <1>7, <1>8

LEMMA TransportKeeps ==
  ASSUME Settings, AjInv, Transport
  PROVE  Sound(rq', stack', win', active', running', broken', threw')
<1> DEFINE r == Top.r
           s == Goto(stack, "send")
           q == [rq EXCEPT ![r].transport = "ready"]
<1>1. stack # <<>> /\ Top.pc = "transport" /\ Top = stack[1] /\ UNCHANGED <<active, running, broken, win>>
      /\ "transport" \in Sending /\ "send" \in Sending
  BY DEF Transport, At, Top, Sending
<1>2. r \in Requests /\ rq[r].begun /\ rq \in [Requests -> Record] /\ rq[r] \in Record
  BY <1>1, Arguments
<1>3. Sound(rq, Tail(stack), win, active, running, broken, threw) /\ Fresh(Tail(stack))
  BY <1>1, PopKeeps DEF AjInv
<1>4. CASE rq[r].state = 2
  BY <1>1, <1>3, <1>4 DEF Transport
<1>5. CASE rq[r].state # 2 /\ opts[r].kind = "nowhere"
  <2>1. /\ rq' = done(rq, Tail(stack), r, "notransport").q /\ stack' = done(rq, Tail(stack), r, "notransport").s
        /\ UNCHANGED threw
    BY <1>5 DEF Transport
  <2>2. "notransport" \in Outcomes \ {"none"}
    BY DEF Outcomes
  <2>3. Sound(rq', stack', win, active, running, broken, threw)
    BY <1>2, <1>3, <2>1, <2>2, DoneKeeps
  <2> QED BY <1>1, <2>1, <2>3
<1>6. CASE rq[r].state # 2 /\ opts[r].kind # "nowhere"
  <2>1. Sound(rq, s, win, active, running, broken, threw) /\ Fresh(s)
    BY <1>1, GoKeeps DEF AjInv
  <2>2. Sound(q, s, win, active, running, broken, threw) /\ \A x \in Requests : q[x].begun = rq[x].begun
    <3>1. rq[r].timer \in BOOLEAN /\ rq[r].state \in 0 .. 2 /\ rq[r].wire \in {"none", "waiting"}
      BY <1>2 DEF Record
    <3>2. q = Changed(rq, r, rq[r].timer, rq[r].state, "ready", rq[r].wire)
      BY <1>2 DEF Record, Changed
    <3> HIDE DEF q, s, r
    <3> QED BY <1>2, <1>6, <2>1, <3>1, <3>2, Change
  <2>3. \/ rq' = q /\ stack' = s /\ UNCHANGED threw
        \/ \E a \in PageActs({r}) : CallBack(q, s, a)
    BY <1>6 DEF Transport
  <2>4. CASE rq' = q /\ stack' = s /\ UNCHANGED threw
    BY <1>1, <2>2, <2>4
  <2>5. CASE \E a \in PageActs({r}) : CallBack(q, s, a)
    <3>1. PICK a \in PageActs({r}) : CallBack(q, s, a)
      BY <2>5
    <3>2. {r} \in SUBSET Requests
      BY <1>2
    <3> HIDE DEF q, r, s
    <3>3. Sound(rq', stack', win, active, running, broken, threw')
      BY <2>1, <2>2, <3>1, <3>2, CallBackKeeps
    <3> QED BY <1>1, <3>3
  <2> QED BY <2>3, <2>4, <2>5
<1> QED BY <1>4, <1>5, <1>6

LEMMA SendKeeps ==
  ASSUME Settings, AjInv, Send
  PROVE  Sound(rq', stack', win', active', running', broken', threw')
<1> DEFINE r == Top.r
           q == [rq EXCEPT ![r].timer = opts[r].timeout, ![r].state = 1, ![r].transport = "sent", ![r].wire = "waiting"]
           back == [q EXCEPT ![r].wire = "none"]
           lost == [back EXCEPT ![r].early = TRUE]
           s == Tail(stack)
<1>1. stack # <<>> /\ Top.pc = "send" /\ Top = stack[1] /\ UNCHANGED <<active, running, broken, win, threw>>
      /\ "send" \in Sending /\ "send" \notin Ending
  BY DEF Send, At, Top, Sending, Ending
<1>2. r \in Requests /\ rq[r].begun /\ rq \in [Requests -> Record] /\ rq[r] \in Record /\ stack \in Seq(Frames)
      /\ opts[r].timeout \in BOOLEAN
  BY <1>1, Arguments DEF Settings
<1>3. Sound(rq, s, win, active, running, broken, threw) /\ Fresh(s)
  BY <1>1, PopKeeps DEF AjInv
<1>4. s \in Seq(Frames) /\ ~InCall(s, r, Sending \cup Ending) /\ ~InCall(s, r, {"prefilter"})
  <2>1. s \in Seq(Frames) /\ ~InCall(s, r, Sending)
    BY <1>1, <1>2, Pop, NestedPop DEF AjInv, Sound
  <2>2. ~InCall(s, r, Ending)
    <3> SUFFICES ASSUME InCall(s, r, Ending) PROVE FALSE
      OBVIOUS
    <3>1. PICK i \in 1 .. Len(s) : s[i].r = r /\ s[i].pc \in Ending
      BY DEF InCall
    <3>2. i + 1 \in 1 .. Len(stack) /\ 1 \in 1 .. Len(stack) /\ 1 < i + 1 /\ stack[i + 1] = s[i]
      BY <1>1, <1>2, Pop
    <3> QED BY <1>1, <3>1, <3>2 DEF AjInv, Sound, Nested
  <2> QED BY <2>1, <2>2 DEF InCall, Sending
<1>5. CASE rq[r].transport # "none"
  <2>1. rq[r].state # 2
    BY <1>2, <1>5 DEF AjInv, Sound, Lived
  <2>2. q = Changed(rq, r, opts[r].timeout, 1, "sent", "waiting") /\ back = Changed(rq, r, opts[r].timeout, 1, "sent", "none")
    BY <1>2, ZenonT(30) DEF Changed
  <2>3. \/ rq' = q /\ stack' = s
        \/ rq' = done(back, s, r, "ok").q /\ stack' = done(back, s, r, "ok").s /\ opts[r].kind = "sync"
        \/ rq' = done(back, s, r, "error").q /\ stack' = done(back, s, r, "error").s
    BY <1>5 DEF Send
  <2>4. 1 \in 0 .. 2 /\ {"ok", "error"} \subseteq Outcomes \ {"none"} /\ rq[r].state # 2
    BY <2>1 DEF Outcomes
  <2> HIDE DEF q, back, s, r
  <2>5. Sound(q, s, win, active, running, broken, threw)
    BY <1>2, <1>3, <1>4, <2>2, <2>4, Change
  <2>6. Sound(back, s, win, active, running, broken, threw) /\ back[r].begun
    BY <1>2, <1>3, <1>4, <2>2, <2>4, Change
  <2>7. Sound(rq', stack', win, active, running, broken, threw)
    <3>1. CASE rq' = q /\ stack' = s
      BY <2>5, <3>1
    <3>2. CASE rq' = done(back, s, r, "ok").q /\ stack' = done(back, s, r, "ok").s /\ opts[r].kind = "sync"
      BY <1>2, <1>3, <2>4, <2>6, <3>2, DoneKeeps
    <3>3. CASE rq' = done(back, s, r, "error").q /\ stack' = done(back, s, r, "error").s
      BY <1>2, <1>3, <2>4, <2>6, <3>3, DoneKeeps
    <3> QED BY <2>3, <3>1, <3>2, <3>3
  <2> QED BY <1>1, <2>7
<1>6. CASE rq[r].transport = "none"
  <2>1. rq' = done(lost, s, r, "error").q /\ stack' = done(lost, s, r, "error").s
    BY <1>6 DEF Send
  <2> DEFINE m == [rq[r] EXCEPT !.timer = FALSE, !.state = 2, !.transport = "none", !.wire = "none", !.early = TRUE,
                                !.outcome = "error", !.dones = rq[r].dones + 1]
             p == [rq EXCEPT ![r] = m]
  <2>2. lost[r].state = 1
    BY <1>2
  <2>3. rq' = p /\ stack' = <<Call(r, "deferred")>> \o s
    <3> DEFINE l == [rq[r] EXCEPT !.timer = opts[r].timeout, !.state = 1, !.transport = "sent", !.wire = "none", !.early = TRUE]
               e == [lost[r] EXCEPT !.state = 2, !.timer = FALSE, !.transport = "none", !.outcome = "error",
                                    !.dones = lost[r].dones + 1]
    <3>1. lost = [rq EXCEPT ![r] = l] /\ lost[r] = l
      <4> DEFINE a == [rq[r] EXCEPT !.timer = opts[r].timeout, !.state = 1, !.transport = "sent", !.wire = "waiting"]
                 b == [a EXCEPT !.wire = "none"]
      <4>1. q = [rq EXCEPT ![r] = a] /\ a = q[r]
        BY <1>2
      <4>2. back = [rq EXCEPT ![r] = b] /\ back[r] = b
        <5> HIDE DEF a, q
        <5> QED BY <1>2, <4>1
      <4>3. lost = [rq EXCEPT ![r] = [b EXCEPT !.early = TRUE]] /\ lost[r] = [b EXCEPT !.early = TRUE]
        <5> HIDE DEF b, back
        <5> QED BY <1>2, <4>2
      <4>4. l = [b EXCEPT !.early = TRUE]
        BY <1>2 DEF Record
      <4> HIDE DEF b, lost, l
      <4> QED BY <4>3, <4>4
    <3>2. rq' = [lost EXCEPT ![r] = e] /\ stack' = <<Call(r, "deferred")>> \o s
      <4> HIDE DEF lost
      <4>1. rq' = [lost EXCEPT ![r].state = 2, ![r].timer = FALSE, ![r].transport = "none", ![r].outcome = "error",
                               ![r].dones = @ + 1] /\ stack' = <<Call(r, "deferred")>> \o s
        BY <2>1, <2>2 DEF done
      <4> QED BY <4>1
    <3>3. e = m
      <4>1. e = [l EXCEPT !.state = 2, !.timer = FALSE, !.transport = "none", !.outcome = "error", !.dones = l.dones + 1]
        <5> HIDE DEF lost, l
        <5> QED BY <3>1
      <4>2. l \in Record /\ l.dones = rq[r].dones
        <5>1. 1 \in 0 .. 2
          OBVIOUS
        <5> QED BY <1>2, <5>1 DEF Record
      <4>3. [l EXCEPT !.state = 2, !.timer = FALSE, !.transport = "none", !.outcome = "error", !.dones = rq[r].dones + 1] = m
        BY <1>2 DEF Record
      <4> HIDE DEF e, m, l
      <4> QED BY <4>1, <4>2, <4>3
    <3> HIDE DEF e, m, l, lost
    <3> QED BY <1>2, <3>1, <3>2, <3>3
  <2>4. m \in Record /\ m.begun = rq[r].begun /\ m.state = 2 /\ ~m.timer /\ m.transport = "none" /\ m.outcome = "error"
        /\ m.early /\ m.previous = rq[r].previous /\ m.container = rq[r].container
    <3>1. rq[r].dones + 1 \in Nat /\ 2 \in 0 .. 2 /\ "error" \in Outcomes
      BY <1>2 DEF Record, Outcomes
    <3> QED BY <1>2, <3>1 DEF Record
  <2> HIDE DEF m
  <2>5. p \in [Requests -> Record] /\ p[r] = m /\ \A x \in Requests \ {r} : p[x] = rq[x]
    BY <1>2, <2>4
  <2> HIDE DEF p, s, r
  <2>6. Sound(p, <<Call(r, "deferred")>> \o s, win, active, running, broken, threw)
    BY <1>2, <1>3, <1>4, <2>4, <2>5, GoneKeeps
  <2> QED BY <1>1, <2>3, <2>6
<1> QED BY <1>5, <1>6

LEMMA AnswerKeeps ==
  ASSUME Settings, AjInv, NEW r \in Requests, Answer(r)
  PROVE  Sound(rq', stack', win', active', running', broken', threw')
<1> DEFINE q == [rq EXCEPT ![r].wire = "none"]
<1>1. stack = <<>> /\ rq[r].wire = "waiting" /\ opts[r].kind = "xhr" /\ UNCHANGED <<active, running, broken, win, threw>>
  BY DEF Answer
<1>2. PICK o \in {"ok", "notmodified", "parsererror", "error"} : rq' = done(q, stack, r, o).q /\ stack' = done(q, stack, r, o).s
  BY DEF Answer
<1>3. o \in Outcomes \ {"none"} /\ Fresh(stack) /\ "none" \in {"none", "waiting"}
  BY <1>1 DEF Outcomes, Fresh
<1>4. rq[r] \in Record /\ rq[r].begun /\ rq \in [Requests -> Record]
  BY <1>1 DEF AjInv, Sound, Typed, Lived, Blank
<1>5. rq[r].timer \in BOOLEAN /\ rq[r].state \in 0 .. 2 /\ rq[r].transport \in {"none", "ready", "sent"}
  BY <1>4 DEF Record
<1>6. q = Changed(rq, r, rq[r].timer, rq[r].state, rq[r].transport, "none")
  BY <1>4 DEF Changed, Record
<1> HIDE DEF q
<1>7. Sound(q, stack, win, active, running, broken, threw) /\ q[r].begun
  BY <1>3, <1>4, <1>5, <1>6, Change DEF AjInv
<1>8. Sound(rq', stack', win, active, running, broken, threw)
  BY <1>1, <1>2, <1>3, <1>7, DoneKeeps
<1> QED BY <1>1, <1>8

LEMMA TimeoutKeeps ==
  ASSUME Settings, AjInv, NEW r \in Requests, Timeout(r)
  PROVE  Sound(rq', stack', win', active', running', broken', threw')
<1> DEFINE q == [rq EXCEPT ![r].timer = FALSE]
<1>1. stack = <<>> /\ rq[r].timer /\ UNCHANGED <<active, running, broken, win, threw>>
  BY DEF Timeout
<1>2. rq' = abort(q, stack, r, "timeout").q /\ stack' = abort(q, stack, r, "timeout").s
  BY DEF Timeout
<1>3. Fresh(stack) /\ FALSE \in BOOLEAN /\ ~InCall(stack, r, {"prefilter"})
  BY <1>1 DEF Fresh, InCall
<1>4. rq[r] \in Record /\ rq[r].begun /\ rq[r].state # 2 /\ rq \in [Requests -> Record]
  BY <1>1 DEF AjInv, Sound, Typed, Lived, Blank
<1>5. rq[r].wire \in {"none", "waiting"} /\ rq[r].state \in 0 .. 2 /\ rq[r].transport \in {"none", "ready", "sent"}
  BY <1>4 DEF Record
<1>0. PICK tm \in BOOLEAN : tm = FALSE
  OBVIOUS
<1>6. q = Changed(rq, r, tm, rq[r].state, rq[r].transport, rq[r].wire)
  BY <1>4, <1>0 DEF Changed, Record
<1> HIDE DEF q
<1>7. Sound(q, stack, win, active, running, broken, threw) /\ q[r].begun
  BY <1>3, <1>4, <1>5, <1>6, Change DEF AjInv
<1>8. Sound(rq', stack', win, active, running, broken, threw)
  BY <1>2, <1>3, <1>7, AbortKeeps
<1> QED BY <1>1, <1>8

LEMMA ScriptKeeps ==
  ASSUME Settings, AjInv, NEW r \in Requests, Script(r)
  PROVE  Sound(rq', stack', win', active', running', broken', threw')
<1> DEFINE q == [rq EXCEPT ![r].wire = "none"]
           owner == win[opts[r].name]
           fed == IF owner = Page THEN q ELSE [q EXCEPT ![owner].container = r]
           o == IF fed[r].container # "none" THEN "ok" ELSE "parsererror"
<1>1. stack = <<>> /\ rq[r].wire = "waiting" /\ opts[r].kind = "jsonp" /\ UNCHANGED <<active, running, broken, win, threw>>
  BY DEF Script
<1>2. \/ rq' = done(fed, stack, r, o).q /\ stack' = done(fed, stack, r, o).s
      \/ rq' = fed /\ UNCHANGED stack
  BY DEF Script
<1>3. o \in Outcomes \ {"none"} /\ Fresh(stack) /\ "none" \in {"none", "waiting"} /\ (o = "ok" => fed[r].container # "none")
  BY <1>1 DEF Outcomes, Fresh
<1>4. rq[r] \in Record /\ rq[r].begun /\ rq \in [Requests -> Record] /\ opts[r].name \in JsonpNames
      /\ owner \in Requests \cup {Page}
  <2>1. rq[r] \in Record /\ rq[r].begun /\ rq \in [Requests -> Record]
    BY <1>1 DEF AjInv, Sound, Typed, Lived, Blank
  <2>2. opts[r].name \in JsonpNames
    BY DEF AjInv, Sound, Typed, Settings
  <2> QED BY <2>1, <2>2 DEF AjInv, Sound, Typed
<1>5. rq[r].timer \in BOOLEAN /\ rq[r].state \in 0 .. 2 /\ rq[r].transport \in {"none", "ready", "sent"}
  BY <1>4 DEF Record
<1>6. q = Changed(rq, r, rq[r].timer, rq[r].state, rq[r].transport, "none")
  BY <1>4 DEF Changed, Record
<1> HIDE DEF q
<1>7. Sound(q, stack, win, active, running, broken, threw) /\ \A x \in Requests : q[x].begun = rq[x].begun
  BY <1>3, <1>4, <1>5, <1>6, Change DEF AjInv
<1>8. Sound(fed, stack, win, active, running, broken, threw) /\ fed[r].begun
  <2>1. CASE owner = Page
    BY <1>4, <1>7, <2>1
  <2>2. CASE owner # Page
    <3>1. owner \in Requests /\ q[owner].begun /\ Jsonp(owner, opts[r].name)
      BY <1>4, <1>7, <2>2 DEF Sound, Owned
    <3>2. Alone(q, owner) => r = owner
      BY <1>1, <1>4, <1>7, <3>1 DEF Alone, Jsonp
    <3>3. fed = Fed(q, owner, r)
      BY <2>2 DEF Fed
    <3> HIDE DEF fed, owner, o
    <3> QED BY <1>4, <1>7, <3>1, <3>2, <3>3, FeedKeeps
  <2> QED BY <2>1, <2>2
<1> HIDE DEF o, fed, owner
<1>9. o = "ok" /\ opts[r].kind = "jsonp" /\ Alone(fed, r) => fed[r].container = r
  BY <1>3, <1>8 DEF Sound, Owned
<1>10. Sound(rq', stack', win, active, running, broken, threw)
  BY <1>2, <1>3, <1>8, <1>9, DoneKeeps
<1> QED BY <1>1, <1>10

LEMMA DeferredKeepsIt ==
  ASSUME Settings, AjInv, Deferred
  PROVE  Sound(rq', stack', win', active', running', broken', threw')
<1> DEFINE r == Top.r
           was == rq[r].previous
           s == Goto(stack, "complete")
           q == IF opts[r].kind = "jsonp" /\ rq[r].container # "none" /\ was # Page
                THEN [rq EXCEPT ![was].container = rq[r].container] ELSE rq
           v == IF opts[r].kind = "jsonp" THEN [win EXCEPT ![opts[r].name] = was] ELSE win
<1>1. stack # <<>> /\ Top.pc = "deferred" /\ Top = stack[1] /\ UNCHANGED <<active, running, broken>> /\ win' = v
  BY DEF Deferred, At, Top
<1>2. \E a \in PageActs(Requests) : CallBack(q, s, a)
  BY DEF Deferred
<1>3. r \in Requests /\ rq[r].begun /\ rq[r] \in Record
  BY <1>1, Arguments
<1>4. Sound(q, stack, win, active, running, broken, threw)
      /\ \A x \in Requests : q[x].begun = rq[x].begun /\ q[x].previous = rq[x].previous
  <2>1. CASE q = rq
    BY <2>1 DEF AjInv
  <2>2. CASE opts[r].kind = "jsonp" /\ rq[r].container # "none" /\ was # Page
    <3>1. was \in Requests /\ rq[r].container \in Requests
      BY <1>3, <2>2 DEF Record
    <3>2. was # r /\ Jsonp(was, opts[r].name) /\ rq[was].begun
      BY <1>3, <3>1 DEF AjInv, Sound, Owned
    <3>3. ~Alone(rq, was)
      <4>1. Jsonp(r, opts[was].name)
        BY <2>2, <3>2 DEF Jsonp
      <4> QED BY <1>3, <3>2, <4>1 DEF Alone
    <3>4. q = Fed(rq, was, rq[r].container)
      BY <2>2 DEF Fed
    <3> HIDE DEF was, r, q, v, s
    <3> QED BY <3>1, <3>2, <3>3, <3>4, FeedKeeps DEF AjInv
  <2> QED BY <2>1, <2>2
<1>5. v = IF opts[stack[1].r].kind = "jsonp" THEN [win EXCEPT ![opts[stack[1].r].name] = q[stack[1].r].previous] ELSE win
  BY <1>1, <1>3, <1>4
<1>6. PICK a \in PageActs(Requests) : CallBack(q, s, a)
  BY <1>2
<1> HIDE DEF q, v, r
<1>7. Sound(q, s, v, active, running, broken, threw) /\ Fresh(s)
  BY <1>1, <1>4, <1>5, GiveBack
<1> HIDE DEF s
<1>8. Sound(rq', stack', v, active, running, broken, threw')
  BY <1>4, <1>6, <1>7, CallBackKeeps
<1> QED BY <1>1, <1>8

LEMMA CompleteKeeps ==
  ASSUME Settings, AjInv, Complete
  PROVE  Sound(rq', stack', win', active', running', broken', threw')
<1>1. stack # <<>> /\ Top.pc = "complete" /\ Top = stack[1] /\ UNCHANGED <<active, running, broken, win>>
  BY DEF Complete, At, Top
<1>2. CASE rq[Top.r].counted
  <2> DEFINE s == Goto(stack, "stop")
  <2>1. PICK a \in PageActs(Requests) : CallBack(rq, s, a)
    BY <1>2 DEF Complete
  <2>2. Sound(rq, s, win, active, running, broken, threw) /\ Fresh(s)
    BY <1>1, <1>2, GoKeeps DEF AjInv
  <2> HIDE DEF s
  <2>3. Sound(rq', stack', win, active, running, broken, threw')
    BY <2>1, <2>2, CallBackKeeps
  <2> QED BY <1>1, <2>3
<1>3. CASE ~rq[Top.r].counted
  <2>1. stack' = Tail(stack) /\ UNCHANGED <<rq, threw>>
    BY <1>3 DEF Complete
  <2>2. Sound(rq, Tail(stack), win, active, running, broken, threw)
    BY <1>1, <1>3, PopKeeps DEF AjInv
  <2> QED BY <1>1, <2>1, <2>2
<1> QED BY <1>2, <1>3

LEMMA StopKeeps ==
  ASSUME Settings, AjInv, Stop
  PROVE  Sound(rq', stack', win', active', running', broken', threw')
<1> DEFINE s == Tail(stack)
<1>1. stack # <<>> /\ Top.pc = "stop" /\ Top = stack[1] /\ UNCHANGED win /\ active' = active - 1
  BY DEF Stop, At, Top
<1>2. /\ active = 1 => ~running' /\ (broken' <=> broken \/ ~running)
      /\ active # 1 => (running' <=> running) /\ (broken' <=> broken)
  BY DEF Stop
<1>3. Sound(rq, s, win, active - 1, running', broken', threw) /\ Fresh(s)
  <2>1. active = 1 => ~running' /\ (broken' <=> broken \/ ~running)
    BY <1>2
  <2>2. active # 1 => (running' <=> running) /\ (broken' <=> broken)
    BY <1>2
  <2>3. stack[1].pc = "stop" /\ stack # <<>>
    BY <1>1
  <2> QED BY <2>1, <2>2, <2>3, CountOff DEF AjInv
<1>4. CASE active = 1
  <2>1. PICK a \in PageActs(Requests) : CallBack(rq, s, a)
    BY <1>4 DEF Stop
  <2> HIDE DEF s
  <2>2. Sound(rq', stack', win, active', running', broken', threw')
    BY <1>1, <1>3, <2>1, CallBackKeeps
  <2> QED BY <1>1, <2>2
<1>5. CASE active # 1
  <2>1. stack' = s /\ UNCHANGED <<rq, threw>>
    BY <1>5 DEF Stop
  <2> QED BY <1>1, <1>3, <2>1
<1> QED BY <1>4, <1>5

\* The settings of the requests stay, so that what an action made is the invariant's.
LEMMA Primed ==
  ASSUME Sound(rq', stack', win', active', running', broken', threw'), opts' = opts
  PROVE  AjInv'
<1>1. Typed(rq', stack', win') => Typed(rq, stack, win)'
  BY opts' = opts DEF Typed
<1>2. Lived(rq') => Lived(rq)'
  BY DEF Lived
<1>3. Nested(stack') => Nested(stack)'
  BY DEF Nested
<1>4. Stacked(rq', stack', win') => Stacked(rq, stack, win)'
  BY DEF Stacked, Fits
<1>5. Owned(rq', win') => Owned(rq, win)'
  BY opts' = opts DEF Owned, Alone, Jsonp
<1>6. Cleaned(rq', stack', win', threw') => Cleaned(rq, stack, win, threw)'
  BY opts' = opts DEF Cleaned, Alone, Jsonp, InCall
<1>7. Counts(rq', stack', active', running', broken', threw') => Counts(rq, stack, active, running, broken, threw)'
  BY DEF Counts, Counted, Open, InCall
<1> QED BY <1>1, <1>2, <1>3, <1>4, <1>5, <1>6, <1>7 DEF AjInv, Sound

LEMMA Inductive ==
  ASSUME Settings, AjInv, [AjNext]_avars
  PROVE  AjInv'
<1>1. CASE Outside
  BY <1>1, OutsideKeeps, Primed DEF Outside
<1>2. CASE Prefilter
  BY <1>2, PrefilterKeeps, Primed DEF Prefilter, At
<1>3. CASE Start
  BY <1>3, StartKeeps, Primed DEF Start, At
<1>4. CASE BeforeSend
  BY <1>4, BeforeSendKeeps, Primed DEF BeforeSend, At
<1>5. CASE Transport
  BY <1>5, TransportKeeps, Primed DEF Transport, At
<1>6. CASE Send
  BY <1>6, SendKeeps, Primed DEF Send, At
<1>7. CASE Deferred
  BY <1>7, DeferredKeepsIt, Primed DEF Deferred, At
<1>8. CASE Complete
  BY <1>8, CompleteKeeps, Primed DEF Complete, At
<1>9. CASE Stop
  BY <1>9, StopKeeps, Primed DEF Stop, At
<1>10. ASSUME NEW r \in Requests, Answer(r)
       PROVE  AjInv'
  BY <1>10, AnswerKeeps, Primed DEF Answer
<1>11. ASSUME NEW r \in Requests, Script(r)
       PROVE  AjInv'
  BY <1>11, ScriptKeeps, Primed DEF Script
<1>12. ASSUME NEW r \in Requests, Timeout(r)
       PROVE  AjInv'
  BY <1>12, TimeoutKeeps, Primed DEF Timeout
<1>13. CASE UNCHANGED avars
  <2>1. Sound(rq', stack', win', active', running', broken', threw') /\ opts' = opts
    BY <1>13 DEF AjInv, avars
  <2> QED BY <2>1, Primed
<1> QED BY <1>1, <1>2, <1>3, <1>4, <1>5, <1>6, <1>7, <1>8, <1>9, <1>10, <1>11, <1>12, <1>13 DEF AjNext, Inside

LEMMA Initially ==
  ASSUME Settings, AjInit
  PROVE  AjInv
<1>1. Blank \in Record /\ rq = [r \in Requests |-> Blank] /\ stack = <<>> /\ Len(stack) = 0
  BY DEF Blank, Record, Outcomes, Page, AjInit
<1>2. Typed(rq, stack, win)
  BY <1>1 DEF Typed, AjInit
<1>3. Lived(rq)
  BY <1>1 DEF Lived, Blank
<1>4. Nested(stack) /\ Stacked(rq, stack, win)
  BY <1>1 DEF Nested, Stacked
<1>5. Owned(rq, win) /\ Cleaned(rq, stack, win, threw)
  BY <1>1 DEF Owned, Cleaned, AjInit, Settings, Blank
<1>6. Counts(rq, stack, active, running, broken, threw)
  <2>1. Counted(rq) = {} /\ Open(rq, stack) = {}
    BY <1>1 DEF Counted, Open, Blank
  <2>2. Cardinality(Counted(rq)) = 0 /\ Cardinality(Open(rq, stack)) = 0
    BY <2>1, FS_EmptySet
  <2>3. active = 0 /\ ~running /\ ~broken
    BY DEF AjInit
  <2> QED BY <2>2, <2>3 DEF Counts
<1> QED BY <1>2, <1>3, <1>4, <1>5, <1>6 DEF AjInv, Sound

LEMMA Follows ==
  ASSUME Settings, AjInv
  PROVE  RequestsSound
<1>1. /\ rq \in [Requests -> Record] /\ stack \in Seq(Frames) /\ win \in [JsonpNames -> Requests \cup {Page}]
      /\ Lived(rq) /\ Owned(rq, win) /\ Cleaned(rq, stack, win, threw)
      /\ Counts(rq, stack, active, running, broken, threw)
  BY DEF AjInv, Sound, Typed
<1>2. \A r \in Requests : rq[r].state \in 0 .. 2 /\ rq[r].dones \in Nat
  BY <1>1 DEF Record
<1>3. \A r, pcs : stack = <<>> => ~InCall(stack, r, pcs)
  BY DEF InCall
<1>4. AjTypeOK
  <2>1. active \in 0 .. Cardinality(Requests) \/ Early
    BY <1>1, CountsFinite DEF Counts, Early
  <2>2. \A r \in Requests : rq[r].state \in 0 .. 2 /\ (rq[r].dones \in 0 .. 1 \/ rq[r].early)
    BY <1>1, <1>2 DEF Lived
  <2>3. \A i \in DOMAIN stack : stack[i].r \in Requests
    <3>1. \A i \in 1 .. Len(stack) : stack[i] \in Frames
      BY <1>1
    <3>2. DOMAIN stack = 1 .. Len(stack)
      BY <1>1
    <3> QED BY <3>1, <3>2 DEF Frames
  <2> QED BY <1>1, <2>1, <2>2, <2>3 DEF AjTypeOK
<1>5. ActiveCounts
  <2> SUFFICES ASSUME stack = <<>>, ~threw, ~Early
               PROVE  active = Cardinality({r \in Requests : rq[r].counted /\ rq[r].state < 2})
    BY DEF ActiveCounts
  <2>1. Open(rq, stack) = {r \in Requests : rq[r].counted /\ rq[r].state < 2}
    BY <1>2, <1>3 DEF Open, Counted
  <2> QED BY <1>1, <2>1 DEF Counts, Early
<1>6. StartsAndStops
  BY <1>1 DEF StartsAndStops, Counts, Early
<1>7. LeavesNothing
  <2> SUFFICES ASSUME stack = <<>>, ~threw, NEW r \in Requests, rq[r].state = 2, NEW n \in JsonpNames, win[n] = r
               PROVE  \E o \in Requests \ {r} : opts[o].kind = "jsonp" /\ opts[o].name = n /\ rq[o].begun
    BY <1>1 DEF LeavesNothing, Lived
  <2>1. ~Alone(rq, r)
    BY <1>1, <1>3 DEF Cleaned
  <2>2. opts[r].name = n
    BY <1>1 DEF Owned, Jsonp
  <2> QED BY <2>1, <2>2 DEF Alone, Jsonp
<1>8. OwnAnswer
  BY <1>1 DEF OwnAnswer, Owned, Alone, Jsonp
<1> QED BY <1>4, <1>5, <1>6, <1>7, <1>8 DEF RequestsSound

\* Whatever the page does in the callbacks, and however answers, scripts and timers come
\* in: each request has its own answer, leaves nothing behind, and is counted once.
THEOREM RequestsAreSound ==
  ASSUME Settings
  PROVE  AjSpec => []RequestsSound
<1>1. AjInit => AjInv
  BY Initially
<1>2. AjInv /\ [AjNext]_avars => AjInv'
  BY Inductive
<1>3. AjInv => RequestsSound
  BY Follows
<1> QED BY <1>1, <1>2, <1>3, PTL DEF AjSpec

\* Requests p have the outcomes that requests q have.
Free(q) == q \in [Requests -> Record] /\ \A r \in Requests : q[r].state # 2 => q[r].outcome = "none"
Stays(q, p) == \A r \in Requests : q[r].outcome # "none" => p[r].outcome = q[r].outcome
Alter(q, p) == Free(p) /\ \A r \in Requests : p[r].outcome = q[r].outcome

LEMMA DoneStays ==
  ASSUME NEW q, Free(q), NEW s, NEW r \in Requests, NEW o
  PROVE  Stays(q, done(q, s, r, o).q)
<1>1. CASE q[r].state = 2
  BY <1>1 DEF done, Stays
<1>2. CASE q[r].state # 2
  <2> DEFINE p == [q EXCEPT ![r].state = 2, ![r].timer = FALSE, ![r].transport = "none", ![r].outcome = o, ![r].dones = @ + 1]
  <2>1. done(q, s, r, o).q = p
    BY <1>2 DEF done
  <2>2. \A x \in Requests \ {r} : p[x] = q[x]
    BY DEF Free
  <2>3. q[r].outcome = "none"
    BY <1>2 DEF Free
  <2> HIDE DEF p
  <2> QED BY <2>1, <2>2, <2>3 DEF Stays
<1> QED BY <1>1, <1>2

LEMMA AbortStays ==
  ASSUME NEW q, Free(q), NEW s, NEW r \in Requests, NEW o
  PROVE  Stays(q, abort(q, s, r, o).q)
<1> DEFINE v == IF opts[r].kind = "jsonp" THEN q[r].wire ELSE "none"
           cut == IF q[r].transport = "sent" THEN [q EXCEPT ![r].wire = v] ELSE q
<1>1. abort(q, s, r, o) = done(cut, s, r, o)
  BY DEF abort
<1>2. v \in {"none", "waiting"}
  BY DEF Free, Record
<1> HIDE DEF v
<1>3. Alter(q, cut)
  BY <1>2 DEF Alter, Free, Record
<1> HIDE DEF cut
<1> QED BY <1>1, <1>3, DoneStays DEF Alter, Stays

LEMMA CallBackStays ==
  ASSUME NEW q, Free(q), NEW s, NEW self \in SUBSET Requests, NEW a \in PageActs(self), CallBack(q, s, a)
  PROVE  Stays(q, rq')
<1>1. CASE a.do = "begin"
  <2>1. rq' = [q EXCEPT ![a.r].begun = TRUE]
    BY <1>1 DEF CallBack
  <2> QED BY <2>1 DEF Stays, Free, Record
<1>2. CASE a.do = "abort"
  <2>1. a.r \in Requests /\ rq' = abort(q, s, a.r, "abort").q
    BY <1>2 DEF CallBack, PageActs, Nothing
  <2> QED BY <2>1, AbortStays
<1>3. CASE a.do \notin {"begin", "abort"}
  BY <1>3 DEF CallBack, Stays
<1> QED BY <1>1, <1>2, <1>3

LEMMA AlterStays ==
  ASSUME NEW p, Alter(rq, p), Stays(p, rq')
  PROVE  Stays(rq, rq')
BY DEF Alter, Stays

LEMMA AlterOne ==
  ASSUME Free(rq), NEW x \in Requests, NEW m \in Record, m.outcome = rq[x].outcome, m.state = rq[x].state,
         NEW p, p = [rq EXCEPT ![x] = m]
  PROVE  Alter(rq, p)
BY DEF Alter, Free

\* One action after another; an answer that an ajaxSend handler's abort made early is
\* the only one that comes a second time.
LEMMA OutcomesKept ==
  ASSUME Settings, AjInv, [AjNext]_avars, NEW r \in Requests, rq[r].outcome # "none", ~rq'[r].early
  PROVE  rq'[r].outcome = rq[r].outcome
<1>1. rq \in [Requests -> Record] /\ Free(rq) /\ Lived(rq)
  BY DEF AjInv, Sound, Typed, Lived, Free
<1>2. Alter(rq, rq)
  BY <1>1 DEF Alter
<1>3. ASSUME Stays(rq, rq') PROVE rq'[r].outcome = rq[r].outcome
  BY <1>3 DEF Stays
<1>4. CASE Outside
  BY <1>1, <1>3, <1>4, CallBackStays DEF Outside
<1>5. CASE Prefilter
  <2> DEFINE v == win[opts[Top.r].name]
             q == IF opts[Top.r].kind = "jsonp" THEN [rq EXCEPT ![Top.r].previous = v] ELSE rq
  <2>1. Top.r \in Requests /\ v \in Requests \cup {Page}
    BY <1>5, Arguments DEF Prefilter, At, Settings, AjInv, Sound, Typed
  <2>2. \E a \in PageActs({Top.r}) : CallBack(q, Goto(stack, "start"), a)
    BY <1>5 DEF Prefilter
  <2> HIDE DEF v
  <2>3. Alter(rq, q)
    BY <1>1, <2>1 DEF Alter, Free, Record
  <2> HIDE DEF q
  <2> QED BY <1>3, <2>1, <2>2, <2>3, CallBackStays, AlterStays DEF Alter
<1>6. CASE Start
  <2> DEFINE q == [rq EXCEPT ![Top.r].counted = TRUE]
  <2>1. Top.r \in Requests
    BY <1>6, Arguments DEF Start, At
  <2>2. rq' = rq \/ rq' = q \/ \E a \in PageActs(Requests \ {Top.r}) : CallBack(q, Goto(stack, "beforeSend"), a)
    BY <1>6 DEF Start
  <2>3. Alter(rq, q)
    <3> DEFINE m == [rq[Top.r] EXCEPT !.counted = TRUE]
    <3>1. q = [rq EXCEPT ![Top.r] = m]
      BY <1>1, <2>1
    <3>2. m \in Record /\ m.outcome = rq[Top.r].outcome /\ m.state = rq[Top.r].state
      <4>1. rq[Top.r] \in Record
        BY <1>1, <2>1
      <4>2. m \in Record
        BY <4>1 DEF Record
      <4> QED BY <4>1, <4>2 DEF Record
    <3> HIDE DEF m, q
    <3> QED BY <1>1, <2>1, <3>1, <3>2, AlterOne
  <2> HIDE DEF q
  <2>4. Stays(rq, rq) /\ Stays(rq, q)
    BY <2>3 DEF Alter, Stays
  <2> QED BY <1>3, <2>1, <2>2, <2>3, <2>4, CallBackStays, AlterStays DEF Alter
<1>7. CASE BeforeSend
  <2>1. Top.r \in Requests
    BY <1>7, Arguments DEF BeforeSend, At
  <2>2. rq' = abort(rq, Goto(stack, "transport"), Top.r, "abort").q
        \/ \E a \in PageActs({Top.r}) : CallBack(rq, Goto(stack, "transport"), a)
    BY <1>7 DEF BeforeSend
  <2> QED BY <1>1, <1>3, <2>1, <2>2, AbortStays, CallBackStays
<1>8. CASE Transport
  <2> DEFINE q == [rq EXCEPT ![Top.r].transport = "ready"]
  <2>1. Top.r \in Requests
    BY <1>8, Arguments DEF Transport, At
  <2>2. \/ rq' = rq \/ rq' = done(rq, Tail(stack), Top.r, "notransport").q \/ rq' = q
        \/ \E a \in PageActs({Top.r}) : CallBack(q, Goto(stack, "send"), a)
    BY <1>8 DEF Transport
  <2>3. Alter(rq, q)
    BY <1>1, <2>1 DEF Alter, Free, Record
  <2> HIDE DEF q
  <2>4. Stays(rq, rq) /\ Stays(rq, q)
    BY <2>3 DEF Alter, Stays
  <2> QED BY <1>1, <1>3, <2>1, <2>2, <2>3, <2>4, DoneStays, CallBackStays, AlterStays DEF Alter
<1>9. CASE Send
  <2> DEFINE c == Top.r
             q == [rq EXCEPT ![c].timer = opts[c].timeout, ![c].state = 1, ![c].transport = "sent", ![c].wire = "waiting"]
             back == [q EXCEPT ![c].wire = "none"]
             lost == [back EXCEPT ![c].early = TRUE]
             m == [q[c] EXCEPT !.wire = "none"]
             l == [m EXCEPT !.early = TRUE]
             n == [rq[c] EXCEPT !.timer = opts[c].timeout, !.state = 1, !.transport = "sent", !.wire = "waiting"]
  <2>1. c \in Requests /\ opts[c].timeout \in BOOLEAN
    BY <1>9, Arguments DEF Send, At, Settings
  <2>2. CASE rq[c].transport # "none"
    <3>1. rq[c].state # 2 /\ rq[c].outcome = "none"
      BY <1>1, <2>1, <2>2 DEF Lived
    <3>2. q = [rq EXCEPT ![c] = n] /\ n \in Record /\ n.outcome = rq[c].outcome /\ n.state = 1
      <4>1. rq[c] \in Record
        BY <1>1, <2>1
      <4>2. n \in Record
        <5>1. 1 \in 0 .. 2
          OBVIOUS
        <5> QED BY <2>1, <4>1, <5>1 DEF Record
      <4>4. n.outcome = rq[c].outcome /\ n.state = 1
        BY <4>1 DEF Record
      <4>3. q = [rq EXCEPT ![c] = n]
        BY <1>1, <2>1
      <4> QED BY <4>2, <4>3, <4>4
    <3> HIDE DEF n
    <3>3. q \in [Requests -> Record] /\ (\A x \in Requests \ {c} : q[x] = rq[x]) /\ q[c] = n
      BY <1>1, <2>1, <3>2
    <3> HIDE DEF q
    <3>4. back = [q EXCEPT ![c] = m] /\ m \in Record /\ m.outcome = n.outcome /\ m.state = 1
      BY <2>1, <3>2, <3>3 DEF Record
    <3> HIDE DEF m
    <3>5. back \in [Requests -> Record] /\ (\A x \in Requests \ {c} : back[x] = q[x]) /\ back[c] = m
      BY <2>1, <3>3, <3>4
    <3> HIDE DEF back
    <3>6. Alter(rq, q) /\ Alter(rq, back)
      BY <1>1, <3>1, <3>2, <3>3, <3>4, <3>5 DEF Alter, Free
    <3>7. rq' = q \/ rq' = done(back, Tail(stack), c, "ok").q \/ rq' = done(back, Tail(stack), c, "error").q
      BY <1>9, <2>2 DEF Send, q, back
    <3> HIDE DEF c
    <3>8. Stays(rq, q)
      BY <3>6 DEF Alter, Stays
    <3> QED BY <1>3, <2>1, <3>6, <3>7, <3>8, DoneStays, AlterStays DEF Alter
  <2>3. CASE rq[c].transport = "none"
    <3> DEFINE e == [lost EXCEPT ![c].state = 2, ![c].timer = FALSE, ![c].transport = "none", ![c].outcome = "error",
                                 ![c].dones = @ + 1]
    <3>1. lost[c].state = 1 /\ lost \in [Requests -> Record] /\ lost[c].early /\ \A x \in Requests \ {c} : lost[x] = rq[x]
      <4>1. q = [rq EXCEPT ![c] = n] /\ n = q[c] /\ rq[c] \in Record
        BY <1>1, <2>1
      <4>2. back = [rq EXCEPT ![c] = m] /\ back[c] = m
        <5> HIDE DEF n, q
        <5> QED BY <1>1, <2>1, <4>1
      <4>3. lost = [rq EXCEPT ![c] = l] /\ lost[c] = l
        <5> HIDE DEF m, back
        <5> QED BY <1>1, <2>1, <4>2
      <4>4. l = [n EXCEPT !.wire = "none", !.early = TRUE]
        <5> HIDE DEF q, n
        <5> QED BY <4>1
      <4>5. l \in Record /\ l.state = 1 /\ l.early
        <5>1. 1 \in 0 .. 2
          OBVIOUS
        <5> HIDE DEF l
        <5> QED BY <2>1, <4>1, <4>4, <5>1 DEF Record
      <4> HIDE DEF l, lost
      <4> QED BY <1>1, <2>1, <4>3, <4>5
    <3>2. rq' = done(lost, Tail(stack), c, "error").q
      BY <1>9, <2>3 DEF Send
    <3> HIDE DEF lost
    <3>3. rq' = e
      BY <3>1, <3>2 DEF done
    <3>4. e[c].early /\ \A x \in Requests \ {c} : e[x] = lost[x]
      BY <2>1, <3>1 DEF Record
    <3> HIDE DEF e
    <3> QED BY <3>1, <3>3, <3>4
  <2> QED BY <2>2, <2>3
<1>10. CASE Deferred
  <2> DEFINE was == rq[Top.r].previous
             v == rq[Top.r].container
             q == IF opts[Top.r].kind = "jsonp" /\ v # "none" /\ was # Page THEN [rq EXCEPT ![was].container = v] ELSE rq
  <2>1. was \in Requests \cup {Page} /\ v \in Requests \cup {"none"}
    BY <1>1, <1>10, Arguments DEF Deferred, At, Record
  <2>2. \E a \in PageActs(Requests) : CallBack(q, Goto(stack, "complete"), a)
    BY <1>10 DEF Deferred
  <2> HIDE DEF was, v
  <2>3. Alter(rq, q)
    BY <1>1, <2>1 DEF Alter, Free, Record
  <2> HIDE DEF q
  <2> QED BY <1>3, <2>2, <2>3, CallBackStays, AlterStays DEF Alter
<1>11. CASE Complete
  <2>1. Stays(rq, rq)
    BY DEF Stays
  <2> QED BY <1>1, <1>3, <1>11, <2>1, CallBackStays DEF Complete
<1>12. CASE Stop
  <2>1. Stays(rq, rq)
    BY DEF Stays
  <2> QED BY <1>1, <1>3, <1>12, <2>1, CallBackStays DEF Stop
<1>13. ASSUME NEW x \in Requests, Answer(x)
       PROVE  rq'[r].outcome = rq[r].outcome
  <2> DEFINE q == [rq EXCEPT ![x].wire = "none"]
  <2>1. \E o : rq' = done(q, stack, x, o).q
    BY <1>13 DEF Answer
  <2>2. Alter(rq, q)
    BY <1>1 DEF Alter, Free, Record
  <2> HIDE DEF q
  <2> QED BY <1>3, <2>1, <2>2, DoneStays, AlterStays DEF Alter
<1>14. ASSUME NEW x \in Requests, Script(x)
       PROVE  rq'[r].outcome = rq[r].outcome
  <2> DEFINE owner == win[opts[x].name]
             q == [rq EXCEPT ![x].wire = "none"]
             fed == IF owner = Page THEN q ELSE [q EXCEPT ![owner].container = x]
  <2>1. owner \in Requests \cup {Page}
    BY DEF AjInv, Sound, Typed, Settings
  <2>2. rq' = fed \/ \E o : rq' = done(fed, stack, x, o).q
    BY <1>14 DEF Script
  <2> HIDE DEF owner
  <2>3. Alter(rq, q)
    BY <1>1 DEF Alter, Free, Record
  <2> HIDE DEF q
  <2>4. Alter(q, fed)
    BY <2>1, <2>3 DEF Alter, Free, Record
  <2> HIDE DEF fed
  <2>5. Alter(rq, fed)
    BY <2>3, <2>4 DEF Alter
  <2>6. Stays(rq, fed)
    BY <2>5 DEF Alter, Stays
  <2> QED BY <1>3, <2>2, <2>5, <2>6, DoneStays, AlterStays DEF Alter
<1>15. ASSUME NEW x \in Requests, Timeout(x)
       PROVE  rq'[r].outcome = rq[r].outcome
  <2> DEFINE q == [rq EXCEPT ![x].timer = FALSE]
  <2>1. rq' = abort(q, stack, x, "timeout").q
    BY <1>15 DEF Timeout
  <2>2. Alter(rq, q)
    <3> DEFINE m == [rq[x] EXCEPT !.timer = FALSE]
    <3>1. q = [rq EXCEPT ![x] = m]
      BY <1>1
    <3>2. m \in Record /\ m.outcome = rq[x].outcome /\ m.state = rq[x].state
      <4>1. rq[x] \in Record
        BY <1>1
      <4>2. m \in Record
        BY <4>1 DEF Record
      <4> QED BY <4>1, <4>2 DEF Record
    <3> HIDE DEF m, q
    <3> QED BY <1>1, <3>1, <3>2, AlterOne
  <2> HIDE DEF q
  <2> QED BY <1>3, <2>1, <2>2, AbortStays, AlterStays DEF Alter
<1>16. CASE UNCHANGED avars
  BY <1>16 DEF avars
<1> QED BY <1>4, <1>5, <1>6, <1>7, <1>8, <1>9, <1>10, <1>11, <1>12, <1>13, <1>14, <1>15, <1>16 DEF AjNext, Inside

\* Late answers, timeouts and aborts do not change how a request ended.
THEOREM OutcomesStay ==
  ASSUME Settings
  PROVE  AjSpec => OutcomeFinal
<1>1. AjInit => AjInv
  BY Initially
<1>2. AjInv /\ [AjNext]_avars => AjInv'
  BY Inductive
<1>3. AjInv /\ [AjNext]_avars => [\A r \in Requests : rq[r].outcome # "none" /\ ~rq'[r].early => rq'[r].outcome = rq[r].outcome]_avars
  BY OutcomesKept
<1> QED BY <1>1, <1>2, <1>3, PTL DEF AjSpec, OutcomeFinal
=============================================================================
