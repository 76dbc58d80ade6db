------------------------------- MODULE Sizzle -------------------------------
(***************************************************************************)
(* Sizzle, the selector engine of jQuery (html/njs/jquery-1.7.2.js), in    *)
(* its own right-to-left evaluation and in the fast path over              *)
(* querySelectorAll, against the meaning of selectors; and chains of the   *)
(* traversing methods that rest on it.                                     *)
(*                                                                         *)
(* dom is a document: its elements are 1..n in document order, each with   *)
(* a parent (Doc at the top), a tag, a class and an id or none.  A group   *)
(* of a selector is a sequence of parts: expressions, sequences of simple  *)
(* selectors, and the relations ">", "+" and "~" between them (none for    *)
(* descendants).  A jQuery object is a sequence of elements, and every     *)
(* method pushes the object it answers on a stack that end() goes back     *)
(* along (prevObject).                                                     *)
(***************************************************************************)
EXTENDS Integers, Sequences, FiniteSets, SequencesExt

CONSTANTS Exprs,          \* selectors to filter by
          MaxChain        \* bound on the methods of a chain

VARIABLES dom, selector, context,
          stack, call     \* the objects, newest first, and the last call

Doc   == 0
False == -1         \* an entry of checkSet that has been ruled out
True  == -2         \* ... that has been traced to the context

NoSeed == <<False>>

Nodes == DOMAIN dom.parent
Parent(e) == dom.parent[e]
Siblings(e) == {s \in Nodes : Parent(s) = Parent(e)}
Largest(S) == IF S = {} THEN False ELSE CHOOSE x \in S : \A y \in S : y <= x
previousSibling(e) == Largest({s \in Siblings(e) : s < e})
RECURSIVE Ancestors(_)
Ancestors(e) == IF e \in {Doc, False} THEN {} ELSE {Parent(e)} \cup Ancestors(Parent(e))
Under(c) == {e \in Nodes : c \in Ancestors(e)}
InOrder(S) == SetToSortSeq(S, <)
Picked(seq, indexes) == [i \in DOMAIN indexes |-> seq[indexes[i]]]

Rel(v) == [k |-> "rel", v |-> v, e |-> <<>>]
Expression(e) == [k |-> "expr", v |-> "", e |-> e]
Simple(type, v) == [type |-> type, v |-> v, n |-> 0, sel |-> <<>>]
IsRel(p) == p.k = "rel"
-----------------------------------------------------------------------------
(* Filters.                                                                *)

\* Expr.filter.CHILD.
Child(e, m) ==
  LET before == {s \in Siblings(e) : s < e}
      after == {s \in Siblings(e) : s > e}
      nodeIndex == Cardinality(before) + 1
      diff == nodeIndex - m.n
  IN CASE m.v = "first" -> before = {}
       [] m.v = "last" -> after = {}
       [] m.v = "only" -> before = {} /\ after = {}
       [] m.v = "even" -> nodeIndex % 2 = 0 /\ nodeIndex >= 0
       [] m.v = "odd" -> (nodeIndex - 1) % 2 = 0 /\ nodeIndex - 1 >= 0
       [] m.v = "nth" -> diff = 0

\* Expr.setFilters: i is the index in the set, from 0, of size len.
Position(i, len, m) ==
  CASE m.v = "first" -> i = 0 [] m.v = "last" -> i = len - 1
    [] m.v = "even" -> i % 2 = 0 [] m.v = "odd" -> i % 2 = 1
    [] m.v = "lt" -> i < m.n [] m.v = "gt" -> i > m.n [] m.v = "eq" -> i = m.n

\* The order in which Sizzle.filter takes the simple selectors of an expression.
FilterOrder == <<"PSEUDO", "CHILD", "ID", "TAG", "CLASS", "ATTR", "POS">>
NextFilter(expr) ==
  LET first == CHOOSE t \in 1..7 : (\E i \in DOMAIN expr : expr[i].type = FilterOrder[t])
                                   /\ \A u \in 1 .. t - 1 : \A i \in DOMAIN expr : expr[i].type # FilterOrder[u]
  IN CHOOSE i \in DOMAIN expr : expr[i].type = FilterOrder[first] /\ \A j \in 1 .. i - 1 : expr[j].type # FilterOrder[first]

RECURSIVE Engine(_, _, _), filter(_, _), Passes(_, _, _, _)

\* What :not excludes from the set: its selector with the set as the seed.
Excluded(m, loop) == Engine(m.sel, Doc, loop)
\* Expr.filter.PSEUDO.
Pseudo(m, loop, e) ==
  CASE m.v = "not" -> ~Contains(Excluded(m, loop), e)
    [] m.v = "has" -> Engine(m.sel, e, NoSeed) # <<>>
    [] m.v = "empty" -> \A x \in Nodes : Parent(x) # e
    [] m.v = "parent" -> \E x \in Nodes : Parent(x) = e

\* What Expr.filter answers for the element at index i of loop.
Passes(m, loop, i, e) ==
  CASE m.type = "TAG" -> m.v = "*" \/ dom.tag[e] = m.v
    [] m.type = "ID" -> dom.id[e] = m.v
    [] m.type = "CLASS" -> m.v \in dom.class[e]
    [] m.type = "ATTR" -> IF m.v = "has" THEN dom.id[e] # "" ELSE dom.id[e] # m.v
    [] m.type = "CHILD" -> Child(e, m)
    [] m.type = "POS" -> Position(i - 1, Len(loop), m)
    [] OTHER -> Pseudo(m, loop, e)

Passing(m, set) ==
  Picked(set, SelectSeq([i \in DOMAIN set |-> i], LAMBDA i : Passes(m, set, i, set[i])))
\* Sizzle.filter: the set left by the expression, one simple selector after
\* the other.
filter(expr, set) ==
  IF expr = <<>> \/ set = <<>> THEN set
  ELSE LET k == NextFilter(expr) IN filter(RemoveAt(expr, k), Passing(expr[k], set))

\* Sizzle.filter in place: what fails becomes false. A document has no class,
\* id or tag, and no siblings.
filterInplace(expr, set) ==
  LET Fits(e) == \A k \in DOMAIN expr :
        IF e = Doc THEN expr[k].type = "CHILD" ELSE Passes(expr[k], <<e>>, 1, e)
  IN [i \in DOMAIN set |-> IF set[i] >= Doc /\ ~Fits(set[i]) THEN False ELSE set[i]]
-----------------------------------------------------------------------------
(* Relations: part is an expression or, on the left of all, the context.   *)

Node(e) == [k |-> "node", v |-> "", e |-> e]
IsTag(part) == part.k = "expr" /\ Len(part.e) = 1 /\ part.e[1].type = "TAG" /\ part.e[1].v # "*"
HasTag(e, part) == e > Doc /\ dom.tag[e] = part.e[1].v
Yes(b) == IF b THEN True ELSE False

\* An entry that has moved to e, or only looked there.
Moved(e, part) ==
  CASE part.k = "node" -> Yes(e = part.e)
    [] IsTag(part) -> IF HasTag(e, part) THEN e ELSE False
    [] OTHER -> e
Checked(checkSet, part) ==
  IF part.k = "expr" /\ ~IsTag(part) THEN filterInplace(part.e, checkSet) ELSE checkSet
\* Expr.relative[ "+" ].
adjacent(checkSet, part) ==
  Checked([i \in DOMAIN checkSet |->
             IF checkSet[i] <= Doc THEN checkSet[i] ELSE Moved(previousSibling(checkSet[i]), part)], part)

\* Expr.relative[ ">" ].
child(checkSet, part) ==
  Checked([i \in DOMAIN checkSet |->
             IF checkSet[i] <= Doc THEN checkSet[i] ELSE Moved(Parent(checkSet[i]), part)], part)

\* dirNodeCheck and dirCheck for one entry: up the parents or back along the
\* siblings to the nearest element that fits. An element that was visited for
\* an earlier entry has the answer of that entry: seen is expando and sizset.
Beyond(up, e) == IF up THEN Parent(e) ELSE previousSibling(e)
FitsPart(e, part) ==
  IF part.k = "node" THEN e = part.e
  ELSE IF IsTag(part) THEN HasTag(e, part) ELSE filter(part.e, <<e>>) # <<>>
RECURSIVE walk(_, _, _, _, _, _)
walk(up, part, i, e, set, seen) ==
  IF e <= Doc THEN [match |-> False, seen |-> seen]
  ELSE IF e \in DOMAIN seen THEN [match |-> set[seen[e]], seen |-> seen]
  ELSE LET marked == [x \in DOMAIN seen \cup {e} |-> IF x = e THEN i ELSE seen[x]]
       IN IF FitsPart(e, part) THEN [match |-> IF part.k = "node" THEN True ELSE e, seen |-> marked]
          ELSE walk(up, part, i, Beyond(up, e), set, marked)

RECURSIVE dirCheck(_, _, _, _, _), Answering(_, _, _, _, _)
Answering(up, part, i, set, w) == dirCheck(up, part, i + 1, [set EXCEPT ![i] = w.match], w.seen)
dirCheck(up, part, i, set, seen) ==
  IF i > Len(set) THEN set
  ELSE IF set[i] <= Doc THEN dirCheck(up, part, i + 1, set, seen)
  ELSE Answering(up, part, i, set, walk(up, part, i, Beyond(up, set[i]), set, seen))

relative(rel, checkSet, part) ==
  CASE rel = "+" -> adjacent(checkSet, part)
    [] rel = ">" -> child(checkSet, part)
    [] OTHER -> dirCheck(rel = "", part, 1, checkSet, <<>>)

\* The relations from right to left; what is left of the first is the context.
RECURSIVE Trace(_, _, _)
Trace(parts, ctx, checkSet) ==
  IF parts = <<>> THEN checkSet
  ELSE LET rel == IF IsRel(Last(parts)) THEN Last(parts).v ELSE ""
           left == IF rel = "" THEN parts ELSE Front(parts)
       IN Trace(IF left = <<>> THEN <<>> ELSE Front(left), ctx,
                relative(rel, checkSet, IF left = <<>> THEN Node(ctx) ELSE Last(left)))
-----------------------------------------------------------------------------
(* The engine.                                                             *)

OfType(expr, type) == {i \in DOMAIN expr : expr[i].type = type}

\* Sizzle.find: elements by id (from a document only) or by tag, and what is
\* left of the expression.
find(expr, ctx) ==
  LET i == CHOOSE k \in OfType(expr, "ID") : TRUE
  IN IF OfType(expr, "ID") # {} /\ ctx = Doc
     THEN [set |-> InOrder({e \in Nodes : dom.id[e] = expr[i].v}), expr |-> RemoveAt(expr, i)]
     ELSE IF expr # <<>> /\ expr[1].type = "TAG"
     THEN [set |-> InOrder({e \in Under(ctx) : Passes(expr[1], <<>>, 1, e)}), expr |-> Tail(expr)]
     ELSE [set |-> InOrder(Under(ctx)), expr |-> expr]

\* Sizzle.uniqueSort.
uniqueSort(results) == InOrder(ToSet(results))

Positional(parts) == \E p \in DOMAIN parts : OfType(parts[p].e, "POS") # {}

Late == {"POS", "CHILD", "PSEUDO"}
Plain(expr) == SelectSeq(expr, LAMBDA m : m.type \notin Late)
\* Mutant: the relation is lost.
posProcessUnder(rel, part, roots, seed) ==
  filter(SelectSeq(part.e, LAMBDA m : m.type \in Late),
         FlattenSeq([i \in DOMAIN roots |-> Engine(<<<<Expression(Plain(part.e))>>>>, roots[i], seed)]))

\* posProcess: the part without its pseudo selectors from every root, and then
\* those on all that was found.
posProcess(rel, part, roots, seed) ==
  LET all == IF \A i \in DOMAIN part.e : part.e[i].type \in Late THEN <<Simple("TAG", "*")>> ELSE Plain(part.e)
      step == (IF rel = "" THEN <<>> ELSE <<Rel(rel)>>) \o <<Expression(all)>>
  IN filter(SelectSeq(part.e, LAMBDA m : m.type \in Late),
            FlattenSeq([i \in DOMAIN roots |-> Engine(<<step>>, roots[i], seed)]))

\* The parts of a positional selector one after the other, from left to right.
RECURSIVE FromLeft(_, _, _)
FromLeft(parts, set, seed) ==
  IF parts = <<>> THEN set
  ELSE LET n == IF IsRel(parts[1]) THEN 2 ELSE 1
       IN FromLeft(SubSeq(parts, n + 1, Len(parts)), posProcess(parts[1].v, parts[n], set, seed), seed)

\* What is left of the set, of which checkSet tells where each entry has led to.
Kept(set, checkSet, from) ==
  Picked(set, SelectSeq([i \in DOMAIN set |-> i],
       LAMBDA i : checkSet[i] = True \/ (checkSet[i] > Doc /\ (from = Doc \/ checkSet[i] \in Under(from)))))
Traced(left, from, set) == IF left = <<>> THEN set ELSE Kept(set, Trace(left, from, set), from)
Filtered(ret) == filter(ret.expr, ret.set)
\* The last part is looked for, or is the seed; the others are checked from there.
Within(parts, from, seed) ==
  LET left == Front(parts)
      beside == Len(left) = 1 /\ left[1].v \in {"~", "+"} /\ from > Doc
  IN Traced(left, from,
            Filtered(IF seed # NoSeed THEN [set |-> seed, expr |-> Last(parts).e]
                     ELSE find(Last(parts).e, IF beside THEN Parent(from) ELSE from)))
\* A leading id becomes the context of what follows.
ById(parts, ctx, seed) ==
  /\ seed = NoSeed /\ Len(parts) > 1 /\ ctx = Doc
  /\ OfType(parts[1].e, "ID") # {} /\ OfType(Last(parts).e, "ID") = {}
\* One group of the selector, from ctx or on a set of elements, the seed.
Group(parts, ctx, seed) ==
  IF Len(parts) > 1 /\ Positional(parts)
  THEN IF IsRel(parts[1]) THEN FromLeft(parts, <<ctx>>, seed)
       ELSE FromLeft(Tail(parts), Engine(<<<<parts[1]>>>>, ctx, NoSeed), seed)
  ELSE LET byId == ById(parts, ctx, seed)
           heads == IF byId THEN Filtered(find(parts[1].e, ctx)) ELSE <<ctx>>
       IN IF heads = <<>> THEN <<>> ELSE Within(IF byId THEN Tail(parts) ELSE parts, heads[1], seed)

\* Sizzle: group after group, and then sorted.
Sorted(groups) == IF Len(groups) = 1 THEN groups[1] ELSE uniqueSort(FlattenSeq(groups))
Engine(sel, ctx, seed) == Sorted([g \in DOMAIN sel |-> Group(sel[g], ctx, seed)])
\* Sizzle.matches.
matches(sel, set) == Engine(sel, Doc, set)
-----------------------------------------------------------------------------
(* What a selector means: e ends a chain of elements in the relations of   *)
(* the parts that begins at the scope or, without a scope, anywhere.       *)

RECURSIVE Meant(_, _, _), Ends(_, _, _)
Suits(e, expr) ==
  \A i \in DOMAIN expr :
    IF expr[i].type = "PSEUDO" /\ expr[i].v = "not" THEN e \notin Meant(expr[i].sel, Doc, FALSE)
    ELSE IF expr[i].type = "PSEUDO" /\ expr[i].v = "has" THEN Meant(expr[i].sel, e, TRUE) # {}
    ELSE Passes(expr[i], <<e>>, 1, e)
Related(rel, e) ==
  CASE rel = "" -> Ancestors(e)
    [] rel = ">" -> {Parent(e)}
    [] rel = "+" -> {previousSibling(e)}
    [] rel = "~" -> {s \in Siblings(e) : s < e}
Ends(e, parts, scope) ==
  IF parts = <<>> THEN e = scope
  ELSE /\ e \in Nodes /\ Suits(e, Last(parts).e)
       /\ LET rest == Front(parts)
              rel == IF rest # <<>> /\ IsRel(Last(rest)) THEN Last(rest).v ELSE ""
              left == IF rel = "" THEN rest ELSE Front(rest)
          IN \E a \in Related(rel, e) : Ends(a, left, scope)
\* scoped: the chain is inside ctx; otherwise only its end is.
Meant(sel, ctx, scoped) ==
  {e \in Nodes : \E g \in DOMAIN sel : Ends(e, sel[g], IF scoped THEN ctx ELSE Doc)}

\* The fast path: querySelectorAll of a document or, for an element, of
\* [id='...'] and the selector, which binds to its first group only. A selector
\* that begins with a sibling relation is asked of the parent.
fastPath(sel, ctx) ==
  LET besides == IsRel(sel[1][1]) /\ sel[1][1].v \in {"+", "~"}
      from == IF besides /\ ctx # Doc THEN Parent(ctx) ELSE ctx
  IN InOrder({e \in Under(from) : Ends(e, sel[1], ctx)
              \/ \E g \in 2 .. Len(sel) : Ends(e, sel[g], Doc)})
-----------------------------------------------------------------------------
\* What querySelectorAll does not know is left to the engine.
Standard(parts) == \A p \in DOMAIN parts : \A i \in DOMAIN parts[p].e :
  parts[p].e[i].type \notin {"POS", "PSEUDO"} /\ ~(parts[p].e[i].type = "ATTR" /\ parts[p].e[i].v # "has")

Relations(parts) ==
  [i \in {j \in 2 .. Len(parts) : ~IsRel(parts[j])} |-> IF IsRel(parts[i - 1]) THEN parts[i - 1].v ELSE ""]
\* The engine takes the nearest element for a part and never a farther one. No
\* farther one is needed when what is on its left is the same for all of them.
Nearest(parts) ==
  LET r == Relations(parts) IN
  \A i \in DOMAIN r : \A j \in DOMAIN r : j < i =>
    /\ r[i] = "" => r[j] = ""
    /\ r[i] = "~" => r[j] # "+"
\* After the id on the left has become the context, only its descendants, or
\* its siblings if nothing is below them, are looked at.
IdFirst(parts) ==
  Len(parts) > 3 /\ OfType(parts[1].e, "ID") # {} /\ IsRel(parts[2]) /\ parts[2].v \in {"+", "~"}
Besides(parts) == Len(parts) > 2 /\ IsRel(parts[1]) /\ parts[1].v \in {"+", "~"}
Answer == Engine(selector, context, NoSeed)
Unpositional == \A g \in DOMAIN selector : ~Positional(selector[g])

\* What the engine finds is in the scope and matches the selector, in document
\* order and each element once.
SizzleSound ==
  Unpositional => Answer = InOrder(ToSet(Answer)) /\ ToSet(Answer) \subseteq Meant(selector, context, TRUE)

\* The engine finds everything that matches, as long as no farther element
\* than the nearest is needed and a leading id or sibling relation is not
\* followed by more.
SizzleComplete ==
  Unpositional /\ (\A g \in DOMAIN selector : Nearest(selector[g]) /\ ~IdFirst(selector[g]) /\ ~Besides(selector[g]))
    => Meant(selector, context, TRUE) \subseteq ToSet(Answer)

\* Browsers with querySelectorAll and those without answer alike, except that
\* groups after the first are not bound to the context.
SamePaths ==
  (\A g \in DOMAIN selector : Standard(selector[g]) /\ Nearest(selector[g])
                              /\ ~IdFirst(selector[g]) /\ ~Besides(selector[g]) /\ (g > 1 => Len(selector[g]) = 1))
    => fastPath(selector, context) = Answer

Unplaced(parts) == [p \in DOMAIN parts |-> [parts[p] EXCEPT !.e = SelectSeq(@, LAMBDA m : m.type # "POS")]]
\* A positional selector takes its elements from those that match without it.
PositionsTaken ==
  \A i \in DOMAIN Answer : Answer[i] \in Meant([g \in DOMAIN selector |-> Unplaced(selector[g])], context, TRUE)

\* Sizzle.matches, on which filter, is and closest rest, agrees with a search of
\* the document.
MatchesAgrees ==
  context = Doc /\ Unpositional /\ (\A g \in DOMAIN selector : Nearest(selector[g]) /\ ~IdFirst(selector[g])
                                      /\ ~IsRel(selector[g][1])) =>
    uniqueSort(matches(selector, InOrder(Nodes))) = Answer
-----------------------------------------------------------------------------
(* Traversing.                                                             *)
This == stack[1]
nextSibling(e) == LET after == {s \in Siblings(e) : s > e} IN
  IF after = {} THEN False ELSE CHOOSE x \in after : \A y \in after : x <= y
Children(e) == InOrder({x \in Nodes : Parent(x) = e})

\* jQuery.find.matchesSelector, on which is() and closest() rest.
is(e, sel) == matches(sel, <<e>>) # <<>>
\* jQuery.filter( expr, elems, not ).
Not(sel) == <<<<Expression(<<[Simple("PSEUDO", "not") EXCEPT !.sel = sel]>>)>>>>
jqfilter(sel, elems, not) ==
  LET expr == IF not THEN Not(sel) ELSE sel
  IN IF Len(elems) = 1 THEN IF is(elems[1], expr) THEN elems ELSE <<>> ELSE matches(expr, elems)
\* isSimple: a selector without groups or anything but a tag, class or id.
isSimple(sel) == Len(sel) = 1 /\ \A p \in DOMAIN sel[1] : \A i \in DOMAIN sel[1][p].e :
                   sel[1][p].e[i].type = "TAG" \/ (p = 1 /\ i = 1 /\ sel[1][p].e[i].type \in {"CLASS", "ID"})
\* winnow by a selector.
winnow(elems, sel, keep) ==
  LET simple == isSimple(sel)
      found == jqfilter(sel, elems, simple /\ ~keep)
  IN IF simple THEN found ELSE SelectSeq(elems, LAMBDA e : Contains(found, e) <=> keep)

\* jQuery.dir: from e in one direction up to the document, or until one that fits.
Step(dir, e) == CASE dir = "parent" -> Parent(e) [] dir = "prev" -> previousSibling(e) [] dir = "next" -> nextSibling(e)
RECURSIVE dirFrom(_, _, _)
dirFrom(dir, cur, until) ==
  IF cur <= Doc THEN <<>>
  ELSE IF until # <<>> /\ is(cur, until) THEN <<>>
  ELSE <<cur>> \o dirFrom(dir, Step(dir, cur), until)
\* jQuery.sibling.
sibling(first, e) == SelectSeq(first, LAMBDA x : x # e)

Untils == {"parentsUntil", "nextUntil", "prevUntil"}
Long == [parent |-> {"parents", "parentsUntil"}, next |-> {"nextAll", "nextUntil"}, prev |-> {"prevAll", "prevUntil"}]
One(e) == IF e > Doc THEN <<e>> ELSE <<>>
Steps(name, e, until) ==
  CASE name \in {"parent", "next", "prev"} -> One(Step(name, e))
    [] name = "siblings" -> sibling(Children(Parent(e)), e)
    [] name = "children" -> Children(e)
    [] OTHER -> LET dir == CHOOSE dir \in DOMAIN Long : name \in Long[dir]
                IN dirFrom(dir, Step(dir, e), IF name \in Untils THEN until ELSE <<>>)
Names == {"parent", "parents", "parentsUntil", "next", "prev", "nextAll", "prevAll", "nextUntil", "prevUntil",
          "siblings", "children"}
Unique == {"children", "next", "prev"}
Backwards == {"parents", "parentsUntil", "prevAll", "prevUntil"}

If(cond, Op(_), seq) == IF cond THEN Op(seq) ELSE seq
\* The method of that name: every element's, filtered, made unique and turned.
traverse(name, elems, until, sel) ==
  LET several == Len(elems) > 1
      all == FlattenSeq([i \in DOMAIN elems |-> Steps(name, elems[i], until)])
  IN If((several \/ Len(sel) > 1) /\ name \in Backwards, Reverse,
        If(several /\ name \notin Unique, uniqueSort,
           If(sel # <<>>, LAMBDA s : jqfilter(sel, s, FALSE), all)))

\* jQuery.fn.find: what a later element finds again is left out.
RECURSIVE findFrom(_, _, _, _)
findFrom(sel, elems, i, ret) ==
  IF i > Len(elems) THEN ret
  ELSE findFrom(sel, elems, i + 1,
                ret \o SelectSeq(Engine(sel, elems[i], NoSeed), LAMBDA e : i = 1 \/ ~Contains(ret, e)))
\* closest: the element itself or the first of its ancestors that fits.
RECURSIVE closestOf(_, _)
closestOf(e, sel) == IF e <= Doc THEN <<>> ELSE IF is(e, sel) THEN <<e>> ELSE closestOf(Parent(e), sel)
closest(elems, sel) ==
  LET ret == FlattenSeq([i \in DOMAIN elems |-> closestOf(elems[i], sel)])
  IN IF Len(ret) > 1 THEN uniqueSort(ret) ELSE ret
\* slice, whose indexes count from 0 or, if negative, from the end.
slice(elems, from, to) ==
  LET At(i) == IF i < 0 THEN IF Len(elems) + i < 0 THEN 0 ELSE Len(elems) + i ELSE i
  IN SubSeq(elems, At(from) + 1, IF At(to) > Len(elems) THEN Len(elems) ELSE At(to))
eq(elems, i) == IF i = -1 THEN slice(elems, i, Len(elems)) ELSE slice(elems, i, i + 1)
\* add: all of both, in document order.
add(elems, more) ==
  LET all == elems \o more
  IN IF more = <<>> \/ all[1] = Doc THEN all ELSE uniqueSort(all)

Calls ==
  [op : {"find", "filter", "not", "closest", "is", "has", "add"}, name : {""}, sel : Exprs, n : {0}]
  \cup [op : {"traverse"}, name : Names \ Untils, sel : Exprs \cup {<<>>}, n : {0}]
  \cup [op : {"traverse"}, name : Untils, sel : Exprs, n : {0}]
  \cup [op : {"eq"}, name : {""}, sel : {<<>>}, n : {-2, -1, 0, 1}]
  \cup [op : {"andSelf", "end"}, name : {""}, sel : {<<>>}, n : {0}]
\* The object that a call of c on an object answers.
Result(c, elems, prev) ==
  CASE c.op = "find" -> findFrom(c.sel, elems, 1, <<>>)
    [] c.op \in {"filter", "not"} -> winnow(elems, c.sel, c.op = "filter")
    [] c.op = "closest" -> closest(elems, c.sel)
    [] c.op = "has" -> SelectSeq(elems, LAMBDA e : \E x \in ToSet(Engine(c.sel, Doc, NoSeed)) : x \in Under(e))
    [] c.op = "is" -> IF \E i \in DOMAIN elems : is(elems[i], c.sel) THEN elems ELSE <<>>
    [] c.op \in {"add", "andSelf"} -> add(elems, IF c.op = "add" THEN Engine(c.sel, Doc, NoSeed) ELSE prev)
    [] c.op = "eq" -> eq(elems, c.n)
    [] c.op = "traverse" -> traverse(c.name, elems, c.sel, IF c.name \in Untils THEN <<>> ELSE c.sel)

Prev == IF Len(stack) > 1 THEN stack[2] ELSE <<>>
\* $( selector ).
TvInit(sel) == stack = <<Engine(sel, Doc, NoSeed)>> /\ call = [op |-> "init", name |-> "", sel |-> sel, n |-> 0]
\* A method goes on from the last object, end() back to the one before.
Method ==
  /\ Len(stack) <= MaxChain
  /\ \E c \in Calls :
       /\ call' = c
       /\ stack' = IF c.op # "end" THEN <<Result(c, This, Prev)>> \o stack
                   ELSE IF Len(stack) > 1 THEN Tail(stack) ELSE <<<<>>>>
-----------------------------------------------------------------------------
(* What the methods promise.                                               *)

Fits(sel) == Meant(sel, Doc, TRUE)
Nearest1(S) == IF S = {} THEN {} ELSE {CHOOSE x \in S : \A y \in S : y <= x}
Way(name, e) ==
  CASE name \in {"parents", "parentsUntil"} -> Ancestors(e) \ {Doc}
    [] name \in {"nextAll", "nextUntil"} -> {s \in Siblings(e) : s > e}
    [] name \in {"prevAll", "prevUntil"} -> {s \in Siblings(e) : s < e}
    [] name = "parent" -> {Parent(e)} \ {Doc}
    [] name = "next" -> {s \in Siblings(e) : s > e /\ \A t \in Siblings(e) : t > e => s <= t}
    [] name = "prev" -> Nearest1({s \in Siblings(e) : s < e})
    [] name = "siblings" -> Siblings(e) \ {e}
    [] name = "children" -> {x \in Nodes : Parent(x) = e}
Between(x, y, e) == (x < y /\ y < e) \/ (e < y /\ y < x)
\* The elements that the call c means on the set S, with P before it.
Promise(c, S, P) ==
  CASE c.op = "find" -> UNION {Meant(c.sel, e, TRUE) : e \in S}
    [] c.op = "filter" -> S \cap Fits(c.sel)
    [] c.op = "not" -> S \ Fits(c.sel)
    [] c.op = "closest" -> UNION {Nearest1((Ancestors(e) \cup {e}) \cap Fits(c.sel)) : e \in S}
    [] c.op = "has" -> {e \in S : Under(e) \cap Fits(c.sel) # {}}
    [] c.op = "is" -> IF S \cap Fits(c.sel) # {} THEN S ELSE {}
    [] c.op = "add" -> S \cup Fits(c.sel)
    [] c.op = "andSelf" -> S \cup P
    [] c.name \in Untils -> UNION {{x \in Way(c.name, e) : \A y \in Way(c.name, e) \cap Fits(c.sel) :
                                      y # x /\ ~Between(x, y, e)} : e \in S}
    [] OTHER -> UNION {Way(c.name, e) : e \in S} \cap (IF c.sel = <<>> THEN Nodes ELSE Fits(c.sel))

Answered == call.op \notin {"init", "end", "eq"}
\* Every method answers the elements it promises, from whatever chain of
\* methods made the object it is called on.
TraversesAsPromised ==
  Answered => ToSet(This) = Promise(call, ToSet(stack[2]), IF Len(stack) > 2 THEN ToSet(stack[3]) ELSE {})

\* No chain makes an object that holds an element twice.
NoneTwice == IsInjective(This)

\* Ancestors and previous siblings come nearest first, other methods that make
\* their answer unique keep the order of the document.
OrderPromised ==
  call.op = "traverse" /\ call.name \notin Unique =>
    This = IF call.name \in Backwards THEN Reverse(InOrder(ToSet(This))) ELSE InOrder(ToSet(This))

\* eq( i ) is the element that stands there, counted from the end if i < 0.
EqPicks ==
  call.op = "eq" =>
    LET was == stack[2]
        at == IF call.n < 0 THEN Len(was) + call.n + 1 ELSE call.n + 1
    IN This = IF at \in DOMAIN was THEN <<was[at]>> ELSE <<>>

\* What the engine answers is what the selector means, both ways to it agree, and
\* every chain of methods keeps what each method promises: the answer of a query
\* and of a chain made of it are judged by one definition of a match.
SelectorsAgree == SizzleSound /\ SizzleComplete /\ SamePaths /\ PositionsTaken /\ MatchesAgrees
\* The same for a chain.
ChainsAgree == TraversesAsPromised /\ NoneTwice /\ OrderPromised /\ EqPicks
=============================================================================
