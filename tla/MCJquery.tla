------------------------------ MODULE MCJquery ------------------------------
(***************************************************************************)
(* The machinery of html/njs/jquery-1.7.2.js for TLC: first its parts that *)
(* keep state under callbacks that change what is being worked on, then    *)
(* what it computes of a document.  The parts do not touch each other's    *)
(* variables: a behaviour is one of one part, and the others stay in an    *)
(* initial state.                                                          *)
(***************************************************************************)
EXTENDS Naturals, Sequences, SequencesExt, TLC

CONSTANTS f1, f2

VARIABLES part,
  kind, cb, frames, count, hist,
  fx, fxCalls,
  scene, reg, triggered, stack, calls, fired, evRan, expected, calm, reentered, inline,
  d, fragments, ran, gone, ops,
  className, saved, native, checkedAttr, checked, atOne, selected, asked, element,
  dom, selector, context, objects, call,
  chain, window,
  in
-----------------------------------------------------------------------------
(* Callbacks, deferreds, pipe and when.                                    *)

ListKinds == [obj : {"list"}, flags : {{}, {"once", "memory"}, {"memory"}, {"unique", "memory"}, {"stopOnFalse", "memory"}}, ops : {4}, vals : {1}]
DeferredKinds == [obj : {"deferred"}, flags : {{}}, ops : {4}, vals : {2}]
Joined == [obj : {"pipe", "when"}, flags : {{}}, ops : {3}, vals : {1}]
Cb == INSTANCE Callbacks WITH Kinds <- ListKinds \cup DeferredKinds \cup Joined, Fns <- {f1, f2}
CbIdle == kind \in DeferredKinds

\* While callbacks add, remove, empty, fire and settle, every entry is called when
\* it should be and as often as it should be, in every kind of list, and what pipe
\* and when make of several deferreds settles with them.
ListsServed == part = "callbacks" => Cb!ListsServed

-----------------------------------------------------------------------------
(* Animations and queues.                                                  *)

Animation(m, ps, ticks, q, then) ==
  [op |-> "animate", m |-> m, props |-> ps, left |-> ticks, queue |-> q, then |-> then]
Toggle(q, then) == Animation("toggle", <<"o">>, 1, q, then)
Stops(clears, ends) == [op : {"stop"}, clear : clears, gotoEnd : ends]
Animations == {Animation("hide", <<"h", "o">>, 2, TRUE, "none"), Animation("show", <<"h">>, 1, TRUE, "none"),
               Animation("hide", <<"o">>, 0, TRUE, "none")}
Delaying == Animations \cup Stops({FALSE}, BOOLEAN) \cup {[op |-> "delay"], [op |-> "promise"], Toggle(TRUE, "none")}
Chaining == Animations \cup Stops({FALSE}, BOOLEAN) \cup {Toggle(TRUE, "animate"), [op |-> "promise"]}
Clearing == Animations \cup Stops(BOOLEAN, BOOLEAN) \cup {Toggle(FALSE, "none"), [op |-> "promise"]}
Fx == INSTANCE Fx WITH Pages <- {Delaying, Chaining, Clearing}, MaxCalls <- 4
FxIdle == fxCalls.page = Clearing

\* Whatever is stopped, delayed, chained or cleared, a queue goes on one by one to
\* its end, its promise is kept, and the element is left as its finished animations
\* say.
QueuesServed == part = "fx" => Fx!QueuesServed

-----------------------------------------------------------------------------
(* Events.                                                                 *)

B(elem, orig, sel, ns, one, guid) ==
  [elem |-> elem, orig |-> orig, sel |-> sel, ns |-> ns, one |-> one, guid |-> guid]
O(elem, orig, ns, guid, sel) == [elem |-> elem, orig |-> orig, ns |-> ns, guid |-> guid, sel |-> sel]
T(elem, type, ns, exclusive, only) ==
  [elem |-> elem, type |-> type, ns |-> ns, exclusive |-> exclusive, only |-> only]
Native(elem, type, related, button) == [elem |-> elem, type |-> type, related |-> related, button |-> button]
Calm == [binds |-> {}, offs |-> {}, triggers |-> {}, natives |-> {}, answers |-> {"ok"}, disabled |-> {},
         methods |-> {<<"btn", "click">>, <<"btn", "focus">>}, inline |-> {}]
\* Clicks: delegation, namespaces, exclusive events, handlers that stop them.
Clicks == [Calm EXCEPT
  !.binds = {B("btn", "click", {}, {"x"}, FALSE, 1), B("div", "click", {"btn"}, {}, FALSE, 2),
             B("doc", "click", {"btn", "div"}, {"x"}, TRUE, 1), B("btn", "click", {}, {}, TRUE, 1)},
  !.offs = {O("btn", "", {"x"}, 0, {}), O("doc", "click", {}, 1, {"**"}), O("btn", "click", {}, 1, {})},
  !.triggers = {T("btn", "click", {}, FALSE, FALSE), T("btn", "click", {"x"}, FALSE, FALSE), T("div", "click", {}, TRUE, TRUE)},
  !.natives = {Native("btn", "click", "none", FALSE), Native("btn", "click", "none", TRUE)},
  !.answers = {"ok", "false", "immediate"}, !.inline = {<<"btn", "click">>}]
\* Focus: direct, delegated and simulated.
Focus == [Calm EXCEPT
  !.binds = {B("btn", "focus", {}, {}, FALSE, 1), B("div", "focus", {"btn"}, {}, FALSE, 2),
             B("div", "focusin", {}, {}, TRUE, 3), B("win", "focusin", {"div"}, {}, FALSE, 4)},
  !.offs = {O("div", "", {}, 0, {}), O("div", "focus", {}, 0, {"**"}), O("btn", "focusin", {}, 0, {})},
  !.triggers = {T("btn", "focus", {}, FALSE, FALSE), T("btn", "focusin", {}, FALSE, FALSE), T("div", "focus", {}, FALSE, TRUE)},
  !.natives = {Native("btn", "focus", "none", FALSE)}, !.answers = {"ok", "stop"}]
\* The mouse: from one element to another.
Mouse == [Calm EXCEPT
  !.binds = {B("btn", "mouseenter", {}, {}, FALSE, 1), B("div", "mouseenter", {}, {}, TRUE, 2),
             B("doc", "mouseenter", {"btn", "div"}, {}, FALSE, 3), B("div", "mouseover", {}, {}, FALSE, 2)},
  !.offs = {O("div", "mouseover", {}, 2, {}), O("doc", "mouseenter", {}, 0, {"**"}), O("div", "mouseenter", {}, 2, {})},
  !.triggers = {T("btn", "mouseenter", {}, FALSE, FALSE)},
  !.natives = {Native("btn", "mouseover", "div", FALSE), Native("div", "mouseover", "btn", FALSE),
               Native("btn", "mouseover", "none", FALSE), Native("div", "mouseover", "doc", FALSE)},
  !.disabled = {"btn"}]
Ev == INSTANCE Events WITH Scenes <- {Clicks, Focus, Mouse}, MaxCalls <- 4, ran <- evRan
EvIdle == scene = Focus

\* An event reaches those who should hear it and nobody else, and no sequence of
\* binding, unbinding and triggering within each other leaves the lists, the
\* browser's listeners and the guards of jQuery.event out of step.
EventsServed == part = "events" => Ev!EventsServed

-----------------------------------------------------------------------------
(* Inserting, moving, removing and cloning; data and scripts of nodes;     *)
(* the class texts of the next part.                                       *)

Texts == {<<"a">>, <<"b">>, <<"a", " ", "b">>, <<" ", "b">>, <<"a", " ">>, <<"a", " ", " ", "c">>, <<"a", " ", "a">>}
Mn == INSTANCE Manipulation WITH
  MaxNodes <- 6, MaxRefs <- 6, MaxOps <- 4,
  Html <- [div |-> [size |-> 1, script |-> FALSE], js |-> [size |-> 2, script |-> TRUE]],
  Names <- {"a", "b", "c"}, Values <- Texts, Options <- <<"x", "y", "x", "z">>, Disabled <- {3, 4}, MaxLen <- 9, one <- atOne

\* However nodes are inserted, moved, copied and removed, data and handlers stay
\* with their element and go with it, and scripts run once.
NodesKept == part = "manipulation" => Mn!NodesKept

-----------------------------------------------------------------------------
(* Classes, boolean attributes and values of form elements.                *)

AtIdle == element = "box" /\ className = <<>> /\ native /\ ~checkedAttr /\ ~atOne

\* After any sequence of calls and of clicks, choices and resets by the user, an element
\* has the classes that were added, toggled on or brought back by toggleClass() last,
\* attr tells what was set last, as an attribute or as a property, and a select reads
\* the value it was given.
ValuesTrue == part = "attributes" => Mn!ValuesTrue

-----------------------------------------------------------------------------
(* Trees of five nodes in document order, the first one html.              *)

Doc == 0
Parents == {p \in [1 .. 5 -> 0 .. 4] :
  p[1] = 0 /\ \A i \in 2 .. 5 :
    /\ p[i] >= 1 /\ p[i] < i
    /\ p[i] = i - 1 \/ \E j \in 2 .. i - 1 : p[j] = p[i] /\ \A k \in j + 1 .. i - 1 : p[k] >= j}
Tree(p, tags, id, classed) ==
  [parent |-> p, tag |-> tags, id |-> [i \in 1 .. 5 |-> IF i = id THEN "i" ELSE ""],
   class |-> [i \in 1 .. 5 |-> IF i \in classed THEN {"x"} ELSE {}]]

-----------------------------------------------------------------------------
(* Selectors.                                                              *)

Simple(type, v) == [type |-> type, v |-> v, n |-> 0, sel |-> <<>>]
Tag(v) == Simple("TAG", v)
Class == Simple("CLASS", "x")
E(s) == <<[k |-> "expr", v |-> "", e |-> s]>>
Rel(r) == [k |-> "rel", v |-> r, e |-> <<>>]
Ps(v, sel) == [Simple("PSEUDO", v) EXCEPT !.sel = sel]
Pos(v, n) == [Simple("POS", v) EXCEPT !.n = n]
Child(v, n) == [Simple("CHILD", v) EXCEPT !.n = n]
a == E(<<Tag("a")>>)
b == E(<<Tag("b")>>)
id == E(<<Simple("ID", "i")>>)
x == E(<<Class>>)
Singles == {a, b, id, x}
Between == {<<>>, <<Rel(">")>>, <<Rel("+")>>, <<Rel("~")>>}
Two(L, R) == {l \o r \o s : l \in L, r \in Between, s \in R}
Three(L) == {l \o r \o s : l \in Two(L, L), r \in Between, s \in L}
Lead(L) == {r \o s : r \in Between \ {<<>>}, s \in L}
Positional == {E(<<Tag("a"), p>>) : p \in {Pos("first", 0), Pos("last", 0), Pos("even", 0), Pos("odd", 0), Pos("lt", 2), Pos("gt", 0), Pos("eq", 1)}}
Odd == {E(<<Tag("a"), m>>) :
          m \in {Ps("not", <<x>>), Ps("not", <<b \o a, E(<<Tag("a"), Child("first", 0)>>)>>), Ps("has", <<b>>), Ps("has", <<<<Rel(">")>> \o a>>),
                 Ps("empty", <<>>), Ps("parent", <<>>), Simple("ATTR", "has"), Simple("ATTR", "i"), Simple("CHILD", "last"),
                 Simple("CHILD", "only"), Simple("CHILD", "even"), Simple("CHILD", "odd"), Child("nth", 2), Class}}
       \cup {E(<<Class, Simple("ID", "i")>>)}
Selectors ==
  {<<s>> : s \in Three({a, b, id}) \cup Two(Singles \cup Odd, Singles \cup Odd) \cup Lead(Singles \cup Two({a}, {b}))
               \cup Odd \cup Positional \cup Two(Singles, Positional) \cup Two(Positional, {a, b})}
  \cup {<<s, t>> : s \in Singles \cup Two({a, b}, {a, b}), t \in Singles \cup Two({a}, {b})}
Filters == {<<a>>, <<b>>, <<E(<<Tag("a"), Class>>)>>, <<a, x>>, <<a \o b>>}
Sz == INSTANCE Sizzle WITH Exprs <- Filters, MaxChain <- 2, stack <- objects
None == <<<<>>>>
Flat == <<0, 1, 1, 1, 1>>
SzTrees == {Tree(p, tags, 3, {2, 4}) : p \in Parents, tags \in {<<"html", "a", "b", "b", "a">>, <<"html", "a", "a", "b", "a">>}}
SzInit == dom \in SzTrees /\ selector = None /\ context \in {Doc, 2}
Select == selector = None /\ selector' \in Selectors /\ UNCHANGED <<dom, context>>
TvTrees == {Tree(p, <<"html", "a", "b", "a", "b">>, 0, {3, 4}) : p \in Parents}
TvInit == dom \in TvTrees /\ selector = <<>> /\ context = Doc /\ \E s \in Filters : Sz!TvInit(s)

\* What Sizzle answers is what the selector means, the engine and its fast path
\* agree, and every chain of traversing methods keeps what each method promises.
SelectorsAgree == /\ part = "selectors" /\ selector # None => Sz!SelectorsAgree
                  /\ part = "traversal" => Sz!ChainsAgree

-----------------------------------------------------------------------------
(* Layout.                                                                 *)

Auto == 99
Box(p, t, bd, sc, sh) ==
  [position |-> p, top |-> t, margin |-> 1, border |-> bd, padding |-> 4, scroll |-> sc, before |-> 2, content |-> 20, shown |-> sh]
Boxes == {Box("static", Auto, 3, sc, sh) : sc \in {0, 5}, sh \in BOOLEAN}
     \cup {Box(p, t, bd, sc, TRUE) : p \in {"relative", "absolute", "fixed"}, t \in {Auto, 6}, bd \in {0, 3}, sc \in {0, 5}}
Ly == INSTANCE Layout
LyInit == window \in {0, 11} /\ chain = <<>>
Nest == Len(chain) < 3 /\ (\E box \in Boxes : chain' = Append(chain, box)) /\ UNCHANGED window

\* An element that was set to a place is found there, both ways to compute an offset
\* agree, and heights are the sums of their parts, whatever scrolls or is hidden.
PlacesAgree == part = "layout" => Ly!PlacesAgree

-----------------------------------------------------------------------------
(* Data of requests and answers.                                           *)

Converters == <<<<"*", "text">>, <<"text", "html">>, <<"text", "json">>, <<"json", "script">>, <<"x", "json">>>>
Value(v) == [t |-> "leaf", v |-> v]
Array(k) == [t |-> "array", k |-> k]
Object(k) == [t |-> "object", k |-> k, n |-> SubSeq(<<"a", "b">>, 1, Len(k))]
Grow(S) == S \cup UNION {{Array(k), Object(k)} : k \in UNION {[1 .. n -> S] : n \in 0 .. 2}}
Few == {Value("u"), Array(<<Value("u"), Value("v")>>), Object(<<Value("u")>>), Array(<<>>)}
Star == "*"
Ad == INSTANCE AjaxData WITH Same <- {<<"text", "html">>}
Prefilters == {<<>>, <<"">>, <<"t1">>, <<"t2", "t1">>, <<"*">>, <<"", "t2">>}
DataTypes == {<<Star>>, <<"json">>, <<"text">>, <<"html">>, <<Star, "json">>, <<"text", "json">>, <<"x", "json", "script">>,
              <<"x", "script">>, <<"text", Star, "script">>, <<"text", "script">>}
Inputs ==
  [what : {"prefilter"}, dataType : {"t1", "t2", "*"}, filters : [{"t1", "t2", "*"} -> Prefilters]]
  \cup [what : {"response"}, dataTypes : DataTypes, responses : {<<>>, <<"text">>, <<"x", "text">>, <<"text", "x">>, <<"x">>},
        ct : {"", "text", "json", "x", "html"}]
  \cup [what : {"param"}, obj : Grow(Few \cup {Value("v")}) \cup {o \in Grow(Grow(Few)) : Ad!Sendable(o)}]

\* Data go out and come back as what they were, through every prefilter and
\* converter that applies, once.
DataAgree == part = "data" => Ad!DataAgree

-----------------------------------------------------------------------------
Parts == {"callbacks", "fx", "events", "manipulation", "attributes", "selectors", "traversal", "layout", "data"}
TreeIdle == dom = Tree(Flat, <<"html", "a", "b", "a", "b">>, 0, {3, 4}) /\ selector = None /\ context = Doc
TvIdle == objects = <<>> /\ call = [op |-> "none"]
InitOf(p) ==
  /\ part = p
  /\ Cb!Init /\ (p # "callbacks" => CbIdle)
  /\ Fx!FxInit /\ (p # "fx" => FxIdle)
  /\ Ev!EvInit /\ (p # "events" => EvIdle)
  /\ Mn!MnInit
  /\ element \in {"class", "box", "select"} /\ Mn!AtInit /\ (p # "attributes" => AtIdle)
  /\ CASE p = "selectors" -> SzInit /\ TvIdle
       [] p = "traversal" -> TvInit
       [] OTHER -> TreeIdle /\ TvIdle
  /\ LyInit /\ (p # "layout" => window = 0)
  /\ IF p = "data" THEN in \in Inputs ELSE in = [what |-> "none"]
Init == \E p \in Parts : InitOf(p)

cbVars == <<kind, cb, frames, count, hist>>
fxVars == <<fx, fxCalls>>
evVars == <<scene, reg, triggered, stack, calls, fired, evRan, expected, calm, reentered, inline>>
mnVars == <<d, fragments, ran, gone, ops>>
atVars == <<className, saved, native, checkedAttr, checked, atOne, selected, asked>>
treeVars == <<dom, selector, context>>
tvVars == <<objects, call>>
lyVars == <<chain, window>>
allVars == <<part, element, cbVars, fxVars, evVars, mnVars, atVars, treeVars, tvVars, lyVars, in>>

\* A step of one part.
Only(p) ==
  /\ part = p /\ UNCHANGED <<part, element, in>>
  /\ (p # "callbacks" => UNCHANGED cbVars) /\ (p # "fx" => UNCHANGED fxVars)
  /\ (p # "events" => UNCHANGED evVars)
  /\ (p # "manipulation" => UNCHANGED mnVars) /\ (p # "attributes" => UNCHANGED atVars)
  /\ (p # "selectors" => UNCHANGED treeVars) /\ (p # "traversal" => UNCHANGED tvVars)
  /\ (p # "layout" => UNCHANGED lyVars)
Next ==
  \/ Only("callbacks") /\ Cb!Next
  \/ Only("fx") /\ Fx!FxNext
  \/ Only("events") /\ Ev!EvNext
  \/ Only("manipulation") /\ Mn!MnNext
  \/ Only("attributes") /\ Mn!AtNext(element)
  \/ Only("selectors") /\ Select
  \/ Only("traversal") /\ Sz!Method
  \/ Only("layout") /\ Nest

Spec == Init /\ [][Next]_allVars
=============================================================================
