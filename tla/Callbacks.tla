------------------------------ MODULE Callbacks ------------------------------
(***************************************************************************)
(* jQuery.Callbacks, Deferred, pipe and when of html/njs/jquery-1.7.2.js.  *)
(* A callback runs in the middle of a fire and may itself add, remove and  *)
(* fire: the calls in progress are the stack frames.  A list is named by   *)
(* its deferred and its kind; a plain list belongs to deferred "p".        *)
(***************************************************************************)
EXTENDS Integers, Sequences, FiniteSets

CONSTANTS Kinds,     \* which of the objects below the page makes, with its flags, how many
                     \* operations the page does with it, and how many values it fires
          Fns        \* the page's callback functions

VARIABLES kind,      \* what the page has made
          cb,        \* the lists
          frames,    \* the fires in progress, innermost last
          count,     \* what jQuery.when waits for, and the number of entries made
          hist       \* state of each deferred, calls made, page operations left

cbVars == <<kind, cb, frames, count, hist>>

Halt == -1           \* memory === true: fired, nothing to remember
None == 0            \* memory is undefined; values fired are positive

Flags(l) ==
  CASE l[2] \in {"done", "fail"} -> {"once", "memory"}
    [] l[2] = "progress" -> {"memory"}
    [] OTHER -> kind.flags

NewList == [on |-> TRUE, list |-> <<>>, open |-> TRUE, stack |-> <<>>, memory |-> None,
            firing |-> FALSE, start |-> 0, len |-> 0, idx |-> 0, seen |-> {}, emptied |-> FALSE]

\* A state of the whole: what the operators below transform.
Here == [cb |-> cb, frames |-> frames, count |-> count, hist |-> hist]
Become(s) == cb' = s.cb /\ frames' = s.frames /\ count' = s.count /\ hist' = s.hist

\* fire: the loop starts at firingStart; the frame runs it.
fire(s, l, v) ==
  LET c == s.cb[l] IN
  [s EXCEPT !.cb[l] = [c EXCEPT !.memory = IF "memory" \in Flags(l) THEN v ELSE Halt,
                                !.firing = TRUE, !.idx = c.start, !.start = 0, !.len = Len(c.list),
                                !.emptied = FALSE,
                                !.seen = {c.list[i].k : i \in 1 .. c.start}],
            !.frames = Append(@, [l |-> l, v |-> v, called |-> FALSE, f |-> <<>>])]

fireWith(s, l, v) ==
  LET c == s.cb[l] IN
  IF ~c.open THEN s
  ELSE IF c.firing
  THEN IF "once" \in Flags(l) THEN s ELSE [s EXCEPT !.cb[l].stack = Append(@, v)]
  ELSE IF "once" \in Flags(l) /\ c.memory # None THEN s ELSE fire(s, l, v)

\* list.push, with a serial number for the entry.
Register(s, l, f) ==
  [s EXCEPT !.cb[l].list = Append(@, [f |-> f, k |-> s.count.made + 1]), !.count.made = @ + 1,
            !.hist.regs = @ \cup {<<l, s.count.made + 1>>}]

\* add: into the batch that is firing, or called at once with what is remembered.
add(s, l, f) ==
  LET c == s.cb[l]
      old == "unique" \in Flags(l) /\ \E i \in DOMAIN c.list : c.list[i].f = f
      t == IF old THEN s ELSE Register(s, l, f)
  IN IF ~c.on THEN s
     ELSE IF c.firing THEN [t EXCEPT !.cb[l].len = Len(t.cb[l].list)]
     ELSE IF c.memory \in {None, Halt} THEN t
     ELSE fire([t EXCEPT !.cb[l].start = Len(c.list)], l, c.memory)

\* Mutant: remove leaves the index of the fire alone.
removeOneBlind(c, i) ==
  [c EXCEPT !.list = SubSeq(@, 1, i - 1) \o SubSeq(@, i + 1, Len(@)),
            !.len = IF c.firing /\ i - 1 <= c.len THEN @ - 1 ELSE @]

\* The i-th entry goes; the loop that is running is kept in step.
removeOne(c, i) ==
  LET inBatch == c.firing /\ i - 1 <= c.len IN
  [c EXCEPT !.list = SubSeq(@, 1, i - 1) \o SubSeq(@, i + 1, Len(@)),
            !.len = IF inBatch THEN @ - 1 ELSE @,
            !.idx = IF inBatch /\ i - 1 <= c.idx THEN @ - 1 ELSE @]

remove(s, l, f) ==
  LET RECURSIVE From(_, _)
      From(c, i) == IF i > Len(c.list) THEN c
                    ELSE IF c.list[i].f # f THEN From(c, i + 1)
                    ELSE IF "unique" \in Flags(l) THEN removeOne(c, i)
                    ELSE From(removeOne(c, i), i)
  IN IF s.cb[l].on THEN [s EXCEPT !.cb[l] = From(@, 1)] ELSE s

empty(s, l) == [s EXCEPT !.cb[l].list = <<>>, !.cb[l].on = TRUE, !.cb[l].emptied = TRUE]

disable(s, l) == [s EXCEPT !.cb[l].on = FALSE, !.cb[l].list = <<>>, !.cb[l].open = FALSE,
                           !.cb[l].stack = <<>>, !.cb[l].memory = None]

lock(s, l) ==
  IF s.cb[l].memory \in {None, Halt} THEN disable(s, l)
  ELSE [s EXCEPT !.cb[l].open = FALSE, !.cb[l].stack = <<>>]

-----------------------------------------------------------------------------
(* Deferred, pipe and when, as the entries they put into lists.            *)

Three == {"done", "fail", "progress"}
Lists(k) ==
  CASE k.obj = "deferred" -> {"d"} \X Three
    [] k.obj = "pipe" -> {"d", "n", "r"} \X Three
    [] k.obj = "when" -> {"a", "b", "m"} \X Three
    [] OTHER -> {<<"p", "list">>}

\* The first entries of each list of a deferred.
OwnEntries(l) ==
  CASE l[2] = "done" -> <<<<"state", "resolved">>, <<"disable", <<l[1], "fail">>>>,
                          <<"lock", <<l[1], "progress">>>>>>
    [] l[2] = "fail" -> <<<<"state", "rejected">>, <<"disable", <<l[1], "done">>>>,
                          <<"lock", <<l[1], "progress">>>>>>
    [] OTHER -> <<>>

\* What pipe adds to d, and when to a and b.
pipe(l) == IF l[1] = "d" THEN <<<<"pipe", l[2]>>>> ELSE <<>>
when(l) ==
  CASE l[1] = "m" -> <<>>
    [] l[2] = "done" -> <<<<"resolveFunc", l[1]>>>>
    [] l[2] = "fail" -> <<<<"fire", <<"m", "fail">>>>>>
    [] l[2] = "progress" -> <<<<"fire", <<"m", "progress">>>>>>

Entries(k, l) ==
  (IF l[1] = "p" THEN <<>> ELSE OwnEntries(l))
  \o (IF k.obj = "pipe" THEN pipe(l) ELSE IF k.obj = "when" THEN when(l) ELSE <<>>)

Init ==
  /\ kind \in Kinds
  /\ cb = [l \in Lists(kind) |->
             [NewList EXCEPT !.list = LET e == Entries(kind, l) IN [i \in DOMAIN e |-> [f |-> e[i], k |-> -i]]]]
  /\ frames = <<>>
  /\ count = [when |-> 2, made |-> 0]
  /\ hist = [state |-> [d \in {l[1] : l \in Lists(kind)} |-> "pending"], got |-> {}, twice |-> FALSE,
             left |-> kind.ops, regs |-> {}, threw |-> FALSE]

Top == frames[Len(frames)]
Firing == cb[Top.l]
Cur == Firing.list[Firing.idx + 1]
Running == frames # <<>> /\ ~hist.threw
InLoop == Running /\ ~Top.called /\ Firing.on /\ Firing.idx < Firing.len

\* What jQuery's own entries do when they are called.
Effect(s, f, v) ==
  CASE f[1] = "state"   -> [s EXCEPT !.hist.state[s.frames[Len(s.frames)].l[1]] = f[2]]
    [] f[1] = "disable" -> disable(s, f[2])
    [] f[1] = "lock"    -> lock(s, f[2])
    [] f[1] = "fire"    -> fireWith(s, f[2], v)
    [] f[1] = "resolveFunc" ->
         LET t == [s EXCEPT !.count.when = @ - 1] IN
         IF t.count.when = 0 THEN fireWith(t, <<"m", "done">>, v) ELSE t
    [] f[1] = "pipe"    -> fireWith(s, <<"n", f[2]>>, v)
    [] OTHER -> s

\* The function given to pipe returned a promise: the new deferred follows it.
Follow(s) == add(add(add(s, <<"r", "progress">>, <<"fire", <<"n", "progress">>>>),
                     <<"r", "fail">>, <<"fire", <<"n", "fail">>>>),
                 <<"r", "done">>, <<"fire", <<"n", "done">>>>)

\* The next callback is called.  After an empty it may be missing.
Call ==
  /\ InLoop
  /\ IF Firing.idx + 1 > Len(Firing.list)
     THEN Become([Here EXCEPT !.hist.threw = TRUE])
     ELSE LET e == <<Top.l, Cur.k, Top.v>>
              s == [Here EXCEPT !.hist.got = @ \cup {e},
                                !.hist.twice = @ \/ (\E g \in hist.got : g[1] = e[1] /\ g[2] = e[2]
                                                                        /\ "once" \in Flags(e[1])),
                                !.cb[Top.l].seen = @ \cup {Cur.k},
                                !.frames[Len(frames)].called = TRUE,
                                !.frames[Len(frames)].f = Cur.f]
          IN IF Cur.f \in Fns THEN Become(s)
             ELSE Become(Effect(s, Cur.f, Top.v)) \/ (Cur.f[1] = "pipe" /\ Become(Follow(s)))
  /\ UNCHANGED kind

\* The callback returns, with false or something else.
Return(isFalse) ==
  /\ Running /\ Top.called /\ (isFalse => (Top.f \in Fns /\ "stopOnFalse" \in Flags(Top.l)))
  /\ cb' = [cb EXCEPT ![Top.l].idx = IF isFalse THEN Firing.len ELSE @ + 1,
                      ![Top.l].memory = IF isFalse THEN Halt ELSE @]
  /\ frames' = [frames EXCEPT ![Len(frames)].called = FALSE]
  /\ UNCHANGED <<kind, count, hist>>

\* The end of fire: the next value that waits, or the end of a once list.
EndFire(s, l) ==
  LET c == s.cb[l] IN
  IF ~c.on THEN s
  ELSE IF "once" \notin Flags(l)
  THEN IF c.stack = <<>> THEN s
       ELSE fireWith([s EXCEPT !.cb[l].stack = Tail(@), !.cb[l].memory = Head(c.stack)], l, Head(c.stack))
  ELSE IF c.memory = Halt THEN disable(s, l)
  ELSE [s EXCEPT !.cb[l].list = <<>>]

LoopEnds ==
  /\ Running /\ ~Top.called /\ ~InLoop
  /\ Become(EndFire([Here EXCEPT !.cb[Top.l].firing = FALSE, !.frames = SubSeq(@, 1, Len(@) - 1)], Top.l))
  /\ UNCHANGED kind

-----------------------------------------------------------------------------
(* The page: at top level, or inside one of its callbacks.                 *)

PageRuns == /\ ~hist.threw /\ hist.left > 0
            /\ IF frames = <<>> THEN TRUE ELSE Top.called /\ Top.f \in Fns
Spend(s) == Become([s EXCEPT !.hist.left = @ - 1]) /\ UNCHANGED kind

\* The deferreds whose resolve the page holds, and those it listens to.
Fires(l)   == l[1] \notin {"n", "m"}
Listens(l) == l[1] \notin {"a", "b", "r"} /\ (kind.obj = "pipe" => l[1] = "n")

Add(l, f)    == PageRuns /\ Listens(l) /\ Spend(add(Here, l, f))
FireWith(l, v) == PageRuns /\ Fires(l) /\ Spend(fireWith(Here, l, v))
Remove(l, f) == PageRuns /\ l[1] = "p" /\ Spend(remove(Here, l, f))
Empty(l)     == PageRuns /\ l[1] = "p" /\ Spend(empty(Here, l))
Disable(l)   == PageRuns /\ l[1] = "p" /\ Spend(disable(Here, l))
Lock(l)      == PageRuns /\ l[1] = "p" /\ Spend(lock(Here, l))

Page ==
  \E l \in DOMAIN cb :
    \/ \E f \in Fns : Add(l, f) \/ Remove(l, f)
    \/ \E v \in 1 .. kind.vals : FireWith(l, v)
    \/ Empty(l) \/ Disable(l) \/ Lock(l)

Next == Call \/ (\E b \in BOOLEAN : Return(b)) \/ LoopEnds \/ Page

-----------------------------------------------------------------------------
Settled(d) == hist.state[d] # "pending"
Still == frames = <<>> /\ ~hist.threw

\* The loops in progress and the lists agree on what is firing.
CallbacksTypeOK ==
  /\ \A l \in DOMAIN cb : cb[l].len <= Len(cb[l].list) \/ cb[l].emptied \/ ~cb[l].firing \/ ~cb[l].on
  /\ ~hist.threw => \A l \in DOMAIN cb : cb[l].firing <=> \E i \in DOMAIN frames : frames[i].l = l
  /\ \A i, j \in DOMAIN frames : i # j => frames[i].l # frames[j].l

\* While a list fires, the entries before the index have been called in this
\* fire and the ones after it have not, whatever the callbacks add and remove
\* (jQuery.Callbacks remove, firingIndex and firingLength).
IndexSplits ==
  \A j \in DOMAIN frames :
    LET c == cb[frames[j].l] IN
    c.on /\ ~c.emptied /\ c.memory # Halt =>
      \A i \in 1 .. c.len :
        c.list[i].k \in c.seen <=> (IF frames[j].called THEN i - 1 <= c.idx ELSE i - 1 < c.idx)

\* The only way to reach past the end of the list is an empty() in a callback.
NeverPastEnd == hist.threw => Firing.emptied

\* A once list calls an entry once and with one value only; a deferred calls
\* entries of its done list or of its fail list, never of both.
OneOutcome ==
  /\ ~hist.twice
  /\ \A g, h \in hist.got :
       g[1][1] = h[1][1] /\ g[1][2] \in {"done", "fail"} /\ h[1][2] \in {"done", "fail"} =>
         g[1] = h[1] /\ g[3] = h[3]

\* When no callback is running, an entry of a settled deferred has been called,
\* also when it was added while the list fired or after.
AllServed ==
  Still => \A r \in hist.regs :
    r[1][2] \in {"done", "fail"} /\ cb[r[1]].memory > 0 =>
      Settled(r[1][1]) /\ \E g \in hist.got : g[1] = r[1] /\ g[2] = r[2]

\* jQuery.when resolves when all have resolved and fails when one has failed.
WhenAll ==
  kind.obj = "when" /\ Still =>
    /\ hist.state["m"] = "resolved" <=> (hist.state["a"] = "resolved" /\ hist.state["b"] = "resolved")
    /\ hist.state["m"] = "rejected" <=> "rejected" \in {hist.state["a"], hist.state["b"]}

\* A piped deferred settles only after the one it was made from, and in the
\* end together with it, or with the promise its function returned.
PipeFollows ==
  kind.obj = "pipe" /\ Still =>
    /\ Settled("n") => Settled("d") \/ Settled("r")
    /\ Settled("d") /\ Settled("r") => Settled("n")

\* Together: while callbacks add, remove, empty, fire and settle, every entry is
\* called when it should be and as often as it should be, in every kind of list,
\* and what is made of several deferreds settles with them.
ListsServed ==
  CallbacksTypeOK /\ IndexSplits /\ NeverPastEnd /\ OneOutcome /\ AllServed /\ WhenAll /\ PipeFollows
=============================================================================
