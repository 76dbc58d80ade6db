------------------------------- MODULE Events -------------------------------
(***************************************************************************)
(* jQuery.event (html/njs/jquery-1.7.2.js): binding, unbinding, dispatch,  *)
(* trigger, delegation, and the types that stand in for others (mouseenter *)
(* on mouseover, delegated focus on focusin, which the browser does not    *)
(* let bubble, so that one capturing listener simulates it).               *)
(*                                                                         *)
(* Handlers run in the middle of a dispatch and may bind, unbind and       *)
(* trigger, so the calls in progress are a stack: a trigger or a native    *)
(* event walks up the tree and pushes a dispatch at every element that has *)
(* handlers, a dispatch runs the handlers it found when it began.          *)
(*                                                                         *)
(* The tree is one branch, from the target's element to the document; the  *)
(* window is beyond.  Event objects are the frames that own them.          *)
(***************************************************************************)
EXTENDS Naturals, Sequences, SequencesExt, FiniteSetsExt

CONSTANTS Scenes,       \* what the page may bind, unbind, trigger and receive
          MaxCalls      \* bound on the calls of the page and of its handlers

VARIABLES scene, reg, triggered, stack, calls, fired, ran, expected, calm, reentered, inline

Branch == <<"btn", "div", "doc">>
Elems  == {"btn", "div", "doc", "win"}
Types  == {"click", "focus", "focusin", "mouseover"}
None   == "none"

Depth(e) == IF e = "win" THEN 4 ELSE CHOOSE i \in 1..3 : Branch[i] = e
Inside(x, e) == Depth(x) <= Depth(e)           \* x is e or is contained in it
Up(e) == SubSeq(Branch, Depth(e), 3)

\* jQuery.event.special.
BindType(t)     == IF t = "mouseenter" THEN "mouseover" ELSE t
DelegateType(t) == IF t = "focus" THEN "focusin" ELSE BindType(t)
Bubbles(t)      == t # "focus"                 \* external: which types the browser bubbles
-----------------------------------------------------------------------------
(* The registry: handlers by element and type, delegated ones in front.    *)

Keys  == Elems \X Types
KeyOf(elem, orig, sel) == <<elem, IF sel # {} THEN DelegateType(orig) ELSE BindType(orig)>>
Empty == [handlers |-> [k \in Keys |-> <<>>], delegateCount |-> [k \in Keys |-> 0],
          listeners |-> {}, attaches |-> 0, capturing |-> FALSE]

\* special.setup and teardown, or addEventListener and removeEvent.
Setup(r, k) ==
  IF k[2] = "focusin" THEN [r EXCEPT !.attaches = @ + 1, !.capturing = @ \/ r.attaches = 0]
  ELSE [r EXCEPT !.listeners = @ \cup {k}]
Teardown(r, k) ==
  IF k[2] = "focusin" THEN [r EXCEPT !.attaches = @ - 1, !.capturing = @ /\ r.attaches # 1]
  ELSE [r EXCEPT !.listeners = @ \ {k}]

\* jQuery.event.add.
add(r, b) ==
  LET k == KeyOf(b.elem, b.orig, b.sel)
      s == IF r.handlers[k] = <<>> THEN Setup(r, k) ELSE r
  IN IF b.sel # {}
     THEN [s EXCEPT !.handlers[k] = InsertAt(@, r.delegateCount[k] + 1, b), !.delegateCount[k] = @ + 1]
     ELSE [s EXCEPT !.handlers[k] = Append(@, b)]

\* Which handlers remove takes: guid 0 stands for all of them, {} for any
\* selector and {"**"} for all delegated ones.
Matches(o, b, mappedTypes) ==
  /\ mappedTypes \/ o.orig = b.orig
  /\ o.guid \in {0, b.guid}
  /\ o.ns \subseteq b.ns
  /\ o.sel \in {{}, b.sel} \/ (o.sel = {"**"} /\ b.sel # {})

\* One type of jQuery.event.remove.
removeType(r, o, mappedTypes) ==
  LET k == KeyOf(o.elem, o.orig, o.sel)
      kept == SelectSeq(r.handlers[k], LAMBDA b : ~Matches(o, b, mappedTypes))
      gone == SelectSeq(r.handlers[k], LAMBDA b : Matches(o, b, mappedTypes) /\ b.sel # {})
      s == [r EXCEPT !.handlers[k] = kept, !.delegateCount[k] = @ - Len(gone)]
  IN IF kept = <<>> /\ r.handlers[k] # <<>> THEN Teardown(s, k) ELSE s

\* The type may be left out: then every type of the element that has handlers.
remove(r, o) ==
  IF o.orig # "" THEN removeType(r, o, FALSE)
  ELSE FoldLeft(LAMBDA s, t : removeType(s, [o EXCEPT !.orig = t], TRUE), r,
                SetToSeq({t \in Types : r.handlers[<<o.elem, t>>] # <<>>}))
-----------------------------------------------------------------------------
(* The calls in progress.                                                  *)

Top   == stack[1]
Below == stack[2]
NewFrame(kind, elem, type, path) ==
  [kind |-> kind, elem |-> elem, type |-> type, path |-> path, i |-> 1, only |-> FALSE, ns |-> {},
   exclusive |-> FALSE, related |-> None, button |-> FALSE, stopped |-> FALSE, immediate |-> FALSE,
   prevented |-> FALSE, called |-> FALSE, restore |-> FALSE, target |-> elem, queue |-> <<>>]

\* focus and blur morph to focusin and focusout: not while they are fired.
Morphs(type) == type = "focusin" /\ triggered = "focus"

\* The path of a triggered event, determined in advance.
eventPath(e, type, only) ==
  LET first == <<e, BindType(type)>>
      up == IF type = "focus" THEN Up(e) ELSE Tail(Up(e))
      win == IF up # <<>> THEN <<"win">> ELSE <<>>
      rest == up \o win
  IN <<first>> \o (IF only \/ e = "win" THEN <<>>
                   ELSE [i \in DOMAIN rest |-> <<rest[i], DelegateType(type)>>])

TriggerFrame(t) ==
  [NewFrame("trigger", t.elem, t.type, eventPath(t.elem, t.type, t.only))
     EXCEPT !.only = t.only, !.ns = t.ns, !.exclusive = t.exclusive]
NativePath(n) == IF Bubbles(n.type) THEN Up(n.elem) \o <<"win">> ELSE <<n.elem>>
NativeFrame(n) ==
  [NewFrame("native", n.elem, n.type, [i \in DOMAIN NativePath(n) |-> <<NativePath(n)[i], n.type>>])
     EXCEPT !.related = n.related, !.button = n.button]

\* The handlers a dispatch on elem will run: those delegated, from the target
\* up, then those bound to the element itself.
handlerQueue(elem, type, target, button) ==
  LET hs == reg.handlers[<<elem, type>>]
      dc == reg.delegateCount[<<elem, type>>]
      below == [i \in 1..(IF elem = "win" THEN 3 ELSE Depth(elem) - 1) |-> Branch[i]]
      Delegated(x) == [i \in 1..dc |-> [elem |-> x, b |-> hs[i]]]
      At(x) == IF ~Inside(target, x) \/ x \in scene.disabled THEN <<>>
               ELSE SelectSeq(Delegated(x), LAMBDA q : x \in q.b.sel)
  IN (IF button /\ type = "click" THEN <<>> ELSE FlattenSeq([i \in DOMAIN below |-> At(below[i])]))
     \o [i \in 1..(Len(hs) - dc) |-> [elem |-> elem, b |-> hs[dc + i]]]

\* The frame that owns the event a dispatch works on: trigger passes its own
\* object, for a native event the dispatch makes one with jQuery.event.fix.
Owner == IF Below.kind = "trigger" THEN 2 ELSE 1

\* elemData.handle: an event that trigger has already bubbled is discarded.
Push(elem, type, target, button) ==
  LET f == [NewFrame("dispatch", elem, type, <<>>) EXCEPT
              !.target = target, !.queue = handlerQueue(elem, type, target, button), !.prevented = Top.prevented]
  IN /\ stack' = <<f, [Top EXCEPT !.called = TRUE]>> \o Tail(stack)
     /\ reentered' = reentered \cup UNION {
          {stack[i].queue[j].b.id : j \in DOMAIN stack[i].queue} : i \in {i \in DOMAIN stack :
             stack[i].kind = "dispatch" /\ stack[i].elem = elem /\ stack[i].type = type}}

\* The inline handler of an element counts as number 0.
Ran(id, e) == ran' = [ran EXCEPT ![<<id, e>>] = Min({@ + 1, 2})]
-----------------------------------------------------------------------------
(* trigger and native events: one element of the path at a time.           *)

\* An element is called once, if it has handlers, then the next one's turn is.
Walk ==
  /\ stack # <<>> /\ Top.kind \in {"trigger", "native"} /\ Top.i >= 1
  /\ Top.i <= Len(Top.path) /\ (~Top.stopped \/ Top.called)
  /\ LET cur == Top.path[Top.i][1]
         type == Top.path[Top.i][2]
         has == IF Top.kind = "native" THEN <<cur, type>> \in reg.listeners ELSE reg.handlers[<<cur, type>>] # <<>>
     IN IF ~Top.called /\ has /\ triggered # type
        THEN Push(cur, type, Top.elem, Top.button) /\ UNCHANGED ran
        ELSE /\ stack' = [stack EXCEPT ![1].i = @ + 1, ![1].called = FALSE]
             /\ IF <<cur, Top.type>> \in inline THEN Ran(0, cur) ELSE UNCHANGED ran
             /\ UNCHANGED reentered
  /\ UNCHANGED <<scene, reg, triggered, calls, fired, expected, calm, inline>>

\* The capturing listener on the document simulates focusin for a native focus.
Capture ==
  /\ stack # <<>> /\ Top.kind = "native" /\ Top.i = 0
  /\ LET t == [elem |-> Top.elem, type |-> "focusin", ns |-> {}, exclusive |-> FALSE, only |-> FALSE]
         up == [stack EXCEPT ![1].i = 1]
     IN stack' = IF reg.capturing /\ Top.type = "focus" /\ ~Morphs("focusin")
                 THEN <<[TriggerFrame(t) EXCEPT !.restore = TRUE]>> \o up ELSE up
  /\ UNCHANGED <<scene, reg, triggered, calls, fired, ran, expected, calm, reentered, inline>>

\* The default action is the element's own method, which fires the native
\* event again: its type is kept in triggered meanwhile.
TriggerEnd ==
  /\ stack # <<>> /\ Top.kind = "trigger"
  /\ Top.i > Len(Top.path) \/ (Top.stopped /\ ~Top.called)
  /\ IF ~Top.only /\ ~Top.prevented /\ <<Top.elem, Top.type>> \in scene.methods
     THEN LET key == <<Top.elem, Top.type>>
              n == [elem |-> Top.elem, type |-> Top.type, related |-> None, button |-> FALSE]
          IN /\ triggered' = Top.type
             /\ inline' = inline \ {key}
             /\ stack' = <<[NativeFrame(n) EXCEPT !.i = 0, !.restore = TRUE, !.called = FALSE,
                              !.only = key \in inline]>> \o Tail(stack)
     ELSE /\ stack' = IF Top.restore /\ Top.prevented      \* simulate: the donor's default is prevented as well
                      THEN [Tail(stack) EXCEPT ![1].prevented = TRUE] ELSE Tail(stack)
          /\ UNCHANGED <<triggered, inline>>
  /\ UNCHANGED <<scene, reg, calls, fired, ran, expected, calm, reentered>>

NativeEnd ==
  /\ stack # <<>> /\ Top.kind = "native"
  /\ Top.i > Len(Top.path) \/ (Top.i > 0 /\ Top.stopped /\ ~Top.called)
  /\ stack' = Tail(stack)
  /\ IF Top.restore
     THEN triggered' = None /\ inline' = IF Top.only THEN inline \cup {<<Top.elem, Top.type>>} ELSE inline
     ELSE UNCHANGED <<triggered, inline>>
  /\ UNCHANGED <<scene, reg, calls, fired, ran, expected, calm, reentered>>
-----------------------------------------------------------------------------
(* dispatch: the handlers of one element.                                  *)

Item == Top.queue[Top.i]

\* Delegates may stop the propagation beneath us: groups end there.
DispatchOver ==
  LET ev == stack[Owner]
      first == \A j \in 1..(Top.i - 1) : Top.queue[j].elem # Item.elem
  IN IF Top.i <= Len(Top.queue) THEN ev.immediate \/ (ev.stopped /\ first) ELSE TRUE

\* A triggered event's namespaces are among the handler's.
NamespaceFits(ev, b) ==
  \/ ~ev.exclusive /\ ev.ns = {}
  \/ ev.ns = {} /\ b.ns = {}
  \/ ev.ns # {} /\ ev.ns \subseteq b.ns
\* mouseenter: only when the mouse comes from outside of the element.
EntersFrom(b, related, e) ==
  ~(b.orig = "mouseenter" /\ related # None /\ Inside(related, e))

Skip ==
  /\ stack # <<>> /\ Top.kind = "dispatch" /\ ~DispatchOver
  /\ ~(NamespaceFits(Below, Item.b) /\ EntersFrom(Item.b, Below.related, Item.elem))
  /\ stack' = [stack EXCEPT ![1].i = @ + 1]
  /\ UNCHANGED <<scene, reg, triggered, calls, fired, ran, expected, calm, reentered, inline>>

\* Mutant: nothing is unbound.
UnboundAfter(b, elem) == reg
\* A handler bound with one unbinds itself by the event, before it runs.
Unbound(b, elem) ==
  IF b.one THEN remove(reg, [elem |-> elem, orig |-> b.orig, ns |-> b.ns, guid |-> b.guid, sel |-> b.sel]) ELSE reg

\* What a handler answers: its flags on the event and, natively, on the original.
Answer(s, answer) ==
  LET stops == answer \in {"false", "stop", "immediate"}
      mark(f) == [f EXCEPT !.stopped = @ \/ stops, !.prevented = @ \/ answer = "false"]
      t == [s EXCEPT ![1].i = @ + 1, ![2] = mark(@)]
      own == IF Owner = 1 THEN [t EXCEPT ![1] = mark(@)] ELSE t
  IN IF answer = "immediate" THEN [own EXCEPT ![Owner].immediate = TRUE] ELSE own

\* In how many dispatches a handler bound with one ran.
Fired ==
  IF Item.b.one /\ \A j \in 1..(Top.i - 1) : Top.queue[j].b.id # Item.b.id
  THEN [fired EXCEPT ![Item.b.id] = Min({@ + 1, 2})] ELSE fired

RunHandler(answer) ==
  /\ stack # <<>> /\ Top.kind = "dispatch" /\ ~DispatchOver
  /\ NamespaceFits(Below, Item.b) /\ EntersFrom(Item.b, Below.related, Item.elem)
  /\ fired' = Fired
  /\ Ran(Item.b.id, Item.elem)
  /\ calm' = (calm /\ answer = "ok")
  /\ UNCHANGED <<scene, triggered, expected, reentered, inline>>

\* The handler does nothing more ...
HandlerReturns ==
  \E answer \in scene.answers :
    /\ RunHandler(answer)
    /\ reg' = Unbound(Item.b, Top.elem)
    /\ stack' = Answer(stack, answer)
    /\ UNCHANGED calls

\* ... or it unbinds, or triggers.
HandlerUnbinds ==
  \E o \in scene.offs :
    /\ calls < MaxCalls /\ calls' = calls + 1
    /\ RunHandler("acts")
    /\ reg' = remove(Unbound(Item.b, Top.elem), o)
    /\ stack' = Answer(stack, "ok")
HandlerTriggers ==
  \E t \in scene.triggers :
    /\ calls < MaxCalls /\ calls' = calls + 1 /\ ~Morphs(t.type)
    /\ RunHandler("acts")
    /\ reg' = Unbound(Item.b, Top.elem)
    /\ stack' = <<TriggerFrame(t)>> \o Answer(stack, "ok")

DispatchEnd ==
  /\ stack # <<>> /\ Top.kind = "dispatch" /\ DispatchOver
  /\ stack' = Tail(stack)
  /\ UNCHANGED <<scene, reg, triggered, calls, fired, ran, expected, calm, reentered, inline>>
-----------------------------------------------------------------------------
(* What an event should reach, said of the bindings: id and element.       *)

Bound == UNION {Range(reg.handlers[k]) : k \in Keys}
Heard(t, b) == IF b.sel # {} THEN DelegateType(b.orig) = t ELSE BindType(b.orig) = t
Reaches(type, target, related, ns, exclusive, only, button) ==
  {<<b.id, x>> : b \in Bound, x \in Elems} \cap
  UNION {
    LET at == IF only THEN {target} ELSE {e \in Elems : Inside(target, e) /\ (target = "doc" => e = "doc")}
        types == IF type = "focus" /\ ~only THEN {"focusin"} ELSE {BindType(type)}
        here == IF b.sel = {} THEN {b.elem}
                ELSE {x \in b.sel \ scene.disabled : Inside(target, x) /\ Depth(x) < Depth(b.elem)
                                                       /\ ~(button /\ type = "click")}
        heard == \/ b.elem \in at /\ \E t \in types : Heard(t, b)
                 \/ b.elem = target /\ Heard(BindType(type), b)
    IN IF heard /\ NamespaceFits([ns |-> ns, exclusive |-> exclusive], b)
       THEN {<<b.id, x>> : x \in {y \in here : EntersFrom(b, related, y)}} ELSE {}
    : b \in Bound }
-----------------------------------------------------------------------------
(* The page.                                                               *)

Ids == 1..MaxCalls

EvInit ==
  /\ scene \in Scenes
  /\ reg = Empty /\ triggered = None /\ stack = <<>> /\ calls = 0
  /\ fired = [i \in Ids |-> 0]
  /\ ran = [p \in (0..MaxCalls) \X Elems |-> 0]
  /\ expected = {} /\ calm = TRUE /\ reentered = {}
  /\ inline = scene.inline

Quiet == stack = <<>> /\ calls < MaxCalls /\ calls' = calls + 1 /\ UNCHANGED scene

on ==
  /\ Quiet
  /\ \E b \in scene.binds : reg' = add(reg, b @@ [id |-> calls + 1])
  /\ UNCHANGED <<triggered, stack, fired, ran, expected, calm, reentered, inline>>
off ==
  /\ Quiet
  /\ \E o \in scene.offs : reg' = remove(reg, o)
  /\ UNCHANGED <<triggered, stack, fired, ran, expected, calm, reentered, inline>>

Fresh == ran' = [p \in DOMAIN ran |-> 0] /\ calm' = TRUE
trigger ==
  /\ Quiet /\ Fresh
  /\ \E t \in scene.triggers :
       /\ stack' = <<TriggerFrame(t)>>
       /\ expected' = Reaches(t.type, t.elem, None, t.ns, t.exclusive, t.only, FALSE)
  /\ UNCHANGED <<reg, triggered, fired, reentered, inline>>
Native ==
  /\ Quiet /\ Fresh
  /\ \E n \in scene.natives :
       /\ stack' = <<[NativeFrame(n) EXCEPT !.i = 0]>>
       /\ expected' = Reaches(n.type, n.elem, n.related, {}, FALSE, FALSE, n.button)
  /\ UNCHANGED <<reg, triggered, fired, reentered, inline>>

EvNext ==
  \/ on \/ off \/ trigger \/ Native
  \/ Walk \/ Capture \/ TriggerEnd \/ NativeEnd
  \/ Skip \/ HandlerReturns \/ HandlerUnbinds \/ HandlerTriggers \/ DispatchEnd

-----------------------------------------------------------------------------
\* Type invariant.
EvTypeOK ==
  /\ triggered \in Types \cup {None}
  /\ calls \in 0..MaxCalls
  /\ reg.attaches \in 0..Cardinality(Elems)
  /\ \A k \in Keys : reg.delegateCount[k] \in 0..Len(reg.handlers[k])
  /\ \A i \in DOMAIN stack : stack[i].kind \in {"trigger", "native", "dispatch"}
  /\ \A i \in DOMAIN stack : stack[i].kind = "dispatch" => i < Len(stack) /\ stack[i + 1].kind # "dispatch"

\* However handlers are bound and unbound (jQuery.event.add, remove), the
\* delegated ones are the first delegateCount of a list, which is what dispatch
\* relies on when it splits the list.
DelegatesInFront ==
  \A k \in Keys : \A i \in DOMAIN reg.handlers[k] :
    (reg.handlers[k][i].sel # {}) <=> (i <= reg.delegateCount[k])

\* The browser calls us back exactly for the lists that are not empty: one
\* listener each, or the capturing one as long as anybody wants focusin.
ListenersInStep ==
  /\ reg.listeners = {k \in Keys : k[2] # "focusin" /\ reg.handlers[k] # <<>>}
  /\ reg.attaches = Cardinality({k \in Keys : k[2] = "focusin" /\ reg.handlers[k] # <<>>})
  /\ reg.capturing <=> reg.attaches > 0

\* An event, triggered or native, runs every handler that should hear it on
\* every element it should run for, once, and no other: although it is walked
\* twice when the default action fires it natively again, and although focus
\* bubbles as a simulated focusin.  (When no handler stops it or intervenes.)
ReachesAll ==
  stack = <<>> /\ calm =>
    /\ \A p \in Ids \X Elems : ran[p] = IF p \in expected THEN 1 ELSE 0
    /\ ran[<<0, "btn">>] <= 1

\* A handler bound with one runs in one dispatch only (for each of the elements
\* its selector matches there), unless another handler fired the event
\* again while it was waiting in a dispatch, which keeps the list it began with.
OnceOnly == \A id \in Ids \ reentered : fired[id] <= 1

\* When all calls have returned no type is suppressed any more, and the inline
\* handlers that trigger took away are back.
GuardReset == stack = <<>> => triggered = None /\ inline = scene.inline

\* Together: an event reaches those who should hear it and nobody else, and no
\* sequence of binding, unbinding and triggering within each other leaves the lists,
\* the browser's listeners and the guards out of step.
EventsServed ==
  EvTypeOK /\ DelegatesInFront /\ ListenersInStep /\ ReachesAll /\ OnceOnly /\ GuardReset
=============================================================================
