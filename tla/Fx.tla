--------------------------------- MODULE Fx ---------------------------------
(***************************************************************************)
(* The effects queue of one element: jQuery.queue, dequeue, delay, promise,*)
(* animate, stop and fx.tick of html/njs/jquery-1.7.2.js.  The handlers    *)
(* call each other (a complete callback dequeues, which starts the next    *)
(* animation), so they are operators on a state S; a page call, a timer    *)
(* tick and a timeout are the actions.                                     *)
(***************************************************************************)
EXTENDS Naturals, Sequences, FiniteSets

CONSTANTS Pages,        \* each a set of calls: animations, delays, stops, a promise
          MaxCalls      \* how many calls a page makes

VARIABLES fx,           \* the element, its data and jQuery.timers
          fxCalls       \* the page, and how many calls it has made

fxVars == <<fx, fxCalls>>

\* One animation: prop -> "show", "hide" or "toggle"; ticks until it is over;
\* queue is FALSE for { queue: false }; what its complete callback does.
AnimCall(m, ps, d, q, c) == [op |-> "animate", m |-> m, props |-> ps, left |-> d, queue |-> q, then |-> c]

inprogress == [op |-> "inprogress"]

FxStart ==
  [arr |-> <<>>, q |-> 0, run |-> 0, mark |-> 0, defer |-> FALSE, promised |-> 0, kept |-> 0,
   timers |-> <<>>, interval |-> FALSE, anims |-> <<>>, timeouts |-> <<>>,
   shown |-> TRUE, style |-> [p \in {"h", "o"} |-> "full"],
   fxshow |-> [p \in {"h", "o"} |-> ""], toggle |-> [p \in {"h", "o"} |-> ""]]

HasQueue(S) == S.q # 0
Items(S, a) == IF a = 0 THEN <<>> ELSE S.arr[a]

\* handleQueueMarkDefer: the promise is looked at again in a timeout.
handleQueueMarkDefer(S, src) ==
  IF S.defer /\ (src = "queue" \/ ~HasQueue(S)) /\ (src = "mark" \/ S.mark = 0)
  THEN [S EXCEPT !.timeouts = Append(@, "defer")] ELSE S

\* Mutant: the last mark goes and the promise is not looked at.
unmarkOnly(S, force) == [S EXCEPT !.mark = IF force \/ @ = 0 THEN 0 ELSE @ - 1]

\* jQuery._unmark
unmark(S, force) ==
  LET n == IF force \/ S.mark = 0 THEN 0 ELSE S.mark - 1 IN
  IF n > 0 THEN [S EXCEPT !.mark = n] ELSE handleQueueMarkDefer([S EXCEPT !.mark = 0], "mark")

RECURSIVE dequeue(_), Complete(_, _), doAnimation(_, _), step(_, _, _), Enqueue(_, _), FxStop(_, _, _),
          StopTimers(_, _, _), StartProps(_, _, _, _)

RemoveAt(s, i) == SubSeq(s, 1, i - 1) \o SubSeq(s, i + 1, Len(s))

\* The queue while an entry of it runs.
QueueHead(rest) == <<inprogress>> \o Tail(rest)

\* jQuery.dequeue.  The array stays the one that was read, whatever the
\* function that runs does to the element's queue.
Waiting(items) == IF items # <<>> /\ Head(items) = inprogress THEN Tail(items) ELSE items
RunEntry(S, e) ==
  IF e.op = "delay" THEN [S EXCEPT !.run = Len(S.timeouts) + 1, !.timeouts = Append(@, "delay")]
  ELSE doAnimation(S, e)
RunNext(S, a, rest) ==
  IF rest # <<>> THEN RunEntry([S EXCEPT !.arr[a] = QueueHead(rest), !.run = 0], Head(rest))
  ELSE IF a = 0 THEN S ELSE [S EXCEPT !.arr[a] = <<>>]
Settled(S, a) ==
  IF Items(S, a) # <<>> THEN S ELSE handleQueueMarkDefer([S EXCEPT !.q = 0, !.run = 0], "queue")
dequeue(S) == Settled(RunNext(S, S.q, Waiting(Items(S, S.q))), S.q)

\* .queue(type, fn): an idle queue starts at once.
Enqueue(S, e) ==
  LET T == IF HasQueue(S) THEN [S EXCEPT !.arr[S.q] = Append(@, e)]
           ELSE [S EXCEPT !.arr = Append(@, <<e>>), !.q = Len(S.arr) + 1]
  IN IF T.arr[T.q][1] = inprogress THEN T ELSE dequeue(T)

\* .queue(type, []): a new array, and a dequeue of it.
clearQueue(S) == dequeue([S EXCEPT !.arr = Append(@, <<>>), !.q = Len(S.arr) + 1])

\* opt.complete: the page's callback, then the queue or the mark.
GoOn(S, c) == IF c.queue THEN dequeue(S) ELSE unmark(S, FALSE)
Complete(S, c) ==
  GoOn(CASE c.then = "stop" -> FxStop(S, FALSE, FALSE)
         [] c.then = "animate" -> Enqueue(S, AnimCall("show", <<"o">>, 1, TRUE, "none"))
         [] OTHER -> S, c)

\* doAnimation: a hide of what is hidden is complete at once.
doAnimation(S, c) ==
  LET T == IF c.queue THEN S ELSE [S EXCEPT !.mark = @ + 1]
      hidden == ~T.shown
      a == Len(T.anims) + 1
  IN IF (c.m = "hide" /\ hidden) \/ (c.m = "show" /\ ~hidden) THEN Complete(T, c)
     ELSE StartProps([T EXCEPT !.anims = Append(@, [call |-> c, left |-> c.left, done |-> {}, hide |-> FALSE,
                                           show |-> FALSE, complete |-> TRUE,
                                           from |-> [p \in {"h", "o"} |-> ""], to |-> [p \in {"h", "o"} |-> ""],
                                           orig |-> [p \in {"h", "o"} |-> "full"]])], a, hidden, 1)

\* One fx object for each property: show or hide, and the first step of it.
Way(S, m, p, hidden) ==
  CASE S.toggle[p] # "" -> S.toggle[p]
    [] S.toggle[p] = "" /\ m = "toggle" -> IF hidden THEN "show" ELSE "hide"
    [] OTHER -> m
Turned(S, m, p, way) ==
  IF S.toggle[p] # "" \/ m = "toggle"
  THEN [S EXCEPT !.toggle[p] = IF way = "show" THEN "hide" ELSE "show"] ELSE S
Aimed(S, a, p, way) ==
  LET before == IF S.fxshow[p] # "" THEN S.fxshow[p] ELSE S.style[p]
  IN IF way = "show"
     THEN [S EXCEPT !.anims[a].orig[p] = before, !.anims[a].show = TRUE,
                    !.anims[a].from[p] = IF S.fxshow[p] # "" THEN S.style[p] ELSE "zero",
                    !.anims[a].to[p] = before]
     ELSE [S EXCEPT !.anims[a].orig[p] = before, !.anims[a].hide = TRUE,
                    !.anims[a].from[p] = S.style[p], !.anims[a].to[p] = "zero"]
Launched(S, t) ==
  IF S.anims[t.a].left = 0 THEN step(S, t, FALSE)
  ELSE [S EXCEPT !.style[t.p] = S.anims[t.a].from[t.p], !.timers = Append(@, t), !.interval = TRUE]
Shown(S, way) == IF way = "show" THEN [S EXCEPT !.shown = TRUE] ELSE S
StartProps(S, a, hidden, i) ==
  IF i > Len(S.anims[a].call.props) THEN S
  ELSE LET p == S.anims[a].call.props[i]
           m == S.anims[a].call.m
           way == Way(S, m, p, hidden)
       IN StartProps(Shown(Launched(Aimed(Turned(S, m, p, way), a, p, way), [a |-> a, p |-> p]), way), a, hidden, i + 1)

\* Hide and put the properties back when the item has been hidden or shown.
Restore(S, a) ==
  LET an == S.anims[a]
      ps == {an.call.props[i] : i \in DOMAIN an.call.props}
  IN IF ~an.hide /\ ~an.show THEN S
     ELSE [S EXCEPT !.shown = @ /\ ~an.hide,
                    !.style = [p \in DOMAIN @ |-> IF p \in ps THEN an.orig[p] ELSE @[p]],
                    !.fxshow = [p \in DOMAIN @ |-> IF p \in ps THEN "" ELSE @[p]],
                    !.toggle = [p \in DOMAIN @ |-> IF p \in ps THEN "" ELSE @[p]]]

\* The complete function, which must not be called twice.
CompleteOnce(S, a) ==
  IF ~S.anims[a].complete THEN S
  ELSE Complete([S EXCEPT !.anims[a].complete = FALSE], S.anims[a].call)

\* fx.step of timer t.
Over(S, a) ==
  IF \A i \in DOMAIN S.anims[a].call.props : S.anims[a].call.props[i] \in S.anims[a].done
  THEN CompleteOnce(Restore(S, a), a) ELSE S
step(S, t, gotoEnd) ==
  LET a == t.a IN
  IF ~gotoEnd /\ S.anims[a].left > 0 THEN [S EXCEPT !.style[t.p] = "part"]
  ELSE Over([S EXCEPT !.style[t.p] = S.anims[a].to[t.p], !.anims[a].done = @ \cup {t.p}], a)

\* t.saveState.
saveState(S, t) ==
  IF S.fxshow[t.p] # "" THEN S
  ELSE IF S.anims[t.a].hide THEN [S EXCEPT !.fxshow[t.p] = S.anims[t.a].from[t.p]]
  ELSE IF S.anims[t.a].show THEN [S EXCEPT !.fxshow[t.p] = S.anims[t.a].to[t.p]]
  ELSE S

\* The loop of stop over jQuery.timers, from the last one.
StopTimers(S, i, gotoEnd) ==
  IF i = 0 THEN S
  ELSE IF i > Len(S.timers) THEN StopTimers(S, i - 1, gotoEnd)
  ELSE StopTimers([(IF gotoEnd THEN step(S, S.timers[i], TRUE) ELSE saveState(S, S.timers[i]))
                     EXCEPT !.timers = IF i > Len(@) THEN @ ELSE RemoveAt(@, i)], i - 1, gotoEnd)

\* hooks.stop of a delay.
StopDelay(S) == IF S.run = 0 THEN S ELSE [S EXCEPT !.run = 0, !.timeouts[S.run] = "cleared"]

\* .stop(clearQueue, gotoEnd)
Unmarked(S, gotoEnd) == IF gotoEnd THEN S ELSE unmark(S, TRUE)
DequeueIf(b, S) == IF b THEN dequeue(S) ELSE S
Stopped(S, gotoEnd) == DequeueIf(~gotoEnd \/ S.timers = <<>>, StopTimers(S, Len(S.timers), gotoEnd))
FxStop(S, clear, gotoEnd) ==
  Stopped(StopDelay(Unmarked(IF clear THEN clearQueue(S) ELSE S, gotoEnd)), gotoEnd)

\* fx.tick: a timer that is over is removed, unless it has been already.
RECURSIVE TickFrom(_, _), TickNext(_, _, _, _)
TickNext(S, i, t, over) ==
  LET gone == over /\ i <= Len(S.timers) /\ S.timers[i] = t
  IN TickFrom(IF gone THEN [S EXCEPT !.timers = RemoveAt(@, i)] ELSE S, IF gone THEN i ELSE i + 1)
TickFrom(S, i) ==
  IF i > Len(S.timers) THEN [S EXCEPT !.interval = S.timers # <<>>]
  ELSE TickNext(step(S, S.timers[i], FALSE), i, S.timers[i], S.anims[S.timers[i].a].left = 0)

-----------------------------------------------------------------------------
\* What nothing refers to any more is forgotten at the end of a handler.
RECURSIVE Squeeze(_)
Squeeze(q) == IF q # <<>> /\ q[Len(q)] = "cleared" THEN Squeeze(SubSeq(q, 1, Len(q) - 1)) ELSE q
Finish(S) ==
  fx' = [S EXCEPT !.arr = IF S.q = 0 THEN <<>> ELSE <<S.arr[S.q]>>, !.q = IF S.q = 0 THEN 0 ELSE 1,
                  !.timeouts = Squeeze(@)]

FxInit == fx = FxStart /\ fxCalls \in [page : Pages, n : {0}]

\* A call of the page.
PageCall(c) ==
  /\ fxCalls.n < MaxCalls /\ fxCalls' = [fxCalls EXCEPT !.n = @ + 1]
  /\ Finish(CASE c.op = "animate" /\ ~c.queue -> doAnimation(fx, c)
              [] c.op \in {"animate", "delay"} -> Enqueue(fx, c)
              [] c.op = "stop"  -> FxStop(fx, c.clear, c.gotoEnd)
              [] c.op = "clear" -> clearQueue(fx)
              [] c.op = "promise" ->
                   IF HasQueue(fx) \/ fx.mark > 0 \/ fx.defer
                   THEN [fx EXCEPT !.defer = TRUE, !.promised = @ + 1]
                   ELSE [fx EXCEPT !.promised = @ + 1, !.kept = @ + 1])

\* The interval: time passes for every animation, then the timers run.
tick ==
  /\ fx.interval
  /\ Finish(TickFrom([fx EXCEPT !.anims = [a \in DOMAIN @ |->
                        [@[a] EXCEPT !.left = IF @ > 0 THEN @ - 1 ELSE 0]]], 1))
  /\ UNCHANGED fxCalls

\* A timeout fires: the end of a delay, or a second look at a promise.
Timeout(i) ==
  /\ fx.timeouts[i] # "cleared"
  /\ LET S == [fx EXCEPT !.timeouts[i] = "cleared", !.run = IF @ = i THEN 0 ELSE @] IN
     Finish(IF fx.timeouts[i] = "delay" THEN dequeue(S)
            ELSE IF S.defer /\ ~HasQueue(S) /\ S.mark = 0
            THEN [S EXCEPT !.defer = FALSE, !.kept = S.promised]
            ELSE S)
  /\ UNCHANGED fxCalls

FxNext ==
  \/ \E c \in fxCalls.page : PageCall(c)
  \/ tick
  \/ \E i \in DOMAIN fx.timeouts : Timeout(i)

-----------------------------------------------------------------------------
\* Nothing is moving and no timeout is pending.
AtRest == fx.timers = <<>> /\ fx.timeouts = <<>>

\* Timers, arrays and counters fit together: the interval runs while there are
\* timers, and a running entry is marked by the sentinel.
FxTypeOK ==
  /\ fx.timers # <<>> => fx.interval
  /\ HasQueue(fx) => fx.arr[fx.q] # <<>> /\ fx.arr[fx.q][1] = inprogress
  /\ fx.mark \in 0 .. MaxCalls /\ fx.kept <= fx.promised

\* The queue does not stall: with nothing running there is nothing waiting.
NoStall == AtRest => ~HasQueue(fx)

\* Two animations of the queue never run at the same time.
OneAtATime ==
  \A i, j \in DOMAIN fx.timers :
    LET a == fx.timers[i].a  b == fx.timers[j].a IN
    fx.anims[a].call.queue /\ fx.anims[b].call.queue => a = b

\* However the animations of the queue are stopped and resumed, a property that
\* none has a hold of is back at its full value ("so that we can go back to it
\* later").  Animations outside the queue may overlap and lose it.
BackToFull ==
  (\A a \in DOMAIN fx.anims : fx.anims[a].call.queue) =>
    \A p \in {"h", "o"} :
      fx.fxshow[p] = "" /\ (\A i \in DOMAIN fx.timers : fx.timers[i].p # p) => fx.style[p] = "full"

\* A promise for the queue is kept when all is at rest, and not before the
\* queue is empty.
PromiseKept ==
  /\ AtRest => fx.kept = fx.promised /\ ~fx.defer
  /\ fx.kept < fx.promised => fx.defer

\* Together: whatever is stopped, delayed, chained or cleared, the queue goes on one
\* by one to its end, and the element is left as its finished animations say.
QueuesServed == FxTypeOK /\ NoStall /\ OneAtATime /\ BackToFull /\ PromiseKept
=============================================================================
