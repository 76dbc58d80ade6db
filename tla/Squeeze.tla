------------------------------ MODULE Squeeze -------------------------------
(***************************************************************************)
(* ast_squeeze of uglifyjs, in html/jquery-require-sample/r.js: statements *)
(* and expressions made shorter.  A statement and its else may change      *)
(* places, an if may become an expression, code after a return goes.       *)
(*                                                                         *)
(* best_of compares the lengths of two texts. Here `second` says which of  *)
(* the two it takes, so that what is checked does not depend on lengths.   *)
(***************************************************************************)
EXTENDS JsTree

VARIABLES program,    \* the statements of the function
          second

\* What ast_walker makes of a node that has no walker of its own: the node, its parts walked.
walked(n, walk(_)) == [n EXCEPT !.k = Each(n.k, LAMBDA e : IF e = Null THEN Null ELSE walk(e))]

best_of(x, y) == IF second THEN y ELSE x
IsUnary(n, ops) == n.t = "unary" /\ n.v \in ops
IsBinary(n, ops) == n.t = "binary" /\ n.v \in ops
Comparisons == {"==", "!=", "===", "!==", "<", "<=", ">", ">="}
empty(n) == n = Null \/ (n.t = "block" /\ n.k = <<>>)
last_stat(n) == IF n.t = "block" /\ n.k # <<>> THEN Last(n.k) ELSE n
aborts(n) == last_stat(n).t \in {"return", "break", "continue", "throw"}

RECURSIVE boolean_expr(_)
boolean_expr(n) ==
  \/ IsUnary(n, {"!", "delete"}) \/ IsBinary(n, Comparisons)
  \/ IsBinary(n, {"&&", "||"}) /\ boolean_expr(n.k[1]) /\ boolean_expr(n.k[2])
  \/ n.t = "conditional" /\ boolean_expr(n.k[2]) /\ boolean_expr(n.k[3])
  \/ n.t = "assign" /\ n.v = "=" /\ boolean_expr(n.k[2])
  \/ n.t = "seq" /\ boolean_expr(n.k[2])
RECURSIVE is_string(_)
is_string(n) == n.t = "str" \/ IsUnary(n, {"typeof"}) \/ (IsBinary(n, {"+"}) /\ (is_string(n.k[1]) \/ is_string(n.k[2])))

\* evaluate: <<value>>, or nothing for what is not constant.
RECURSIVE evaluate(_)
evaluate(n) ==
  CASE n.t = "num" -> <<Literal(n.v)>> [] n.t = "str" -> <<Str(n.v)>> [] n.t = "atom" -> <<Bool(n.v = "true")>>
    [] IsUnary(n, {"!", "typeof", "-", "+"}) -> LET v == evaluate(n.k[1]) IN IF v = <<>> THEN v ELSE <<Change(n.v, v[1])>>
    [] IsBinary(n, {"&&", "||"}) ->
         LET l == evaluate(n.k[1]) IN IF l = <<>> THEN l ELSE IF Truthy(l[1]) = (n.v = "&&") THEN evaluate(n.k[2]) ELSE l
    [] IsBinary(n, Comparisons \cup {"+"}) ->
         LET l == evaluate(n.k[1])   r == evaluate(n.k[2]) IN IF <<>> \in {l, r} THEN <<>> ELSE <<Operate(n.v, l[1], r[1])>>
    [] OTHER -> <<>>
\* The node of a constant; NaN comes back as a quotient (num).
NodeOf(v) ==
  CASE v.y = "string" -> Leaf("str", v.s) [] v.y = "boolean" -> Leaf("atom", IF v.n = 1 THEN "true" ELSE "false")
    [] v.y = "number" /\ v.n \in -1 .. 2 -> Leaf("num", CASE v.n = 0 -> "0" [] v.n = 1 -> "1" [] v.n = 2 -> "2" [] v.n = -1 -> "-1")
    [] OTHER -> Null
\* What when_constant makes of an expression that is not constant: it may compare less
\* strictly, and a constant left side decides.
lessen(n) ==
  IF IsBinary(n, {"===", "!=="}) /\ ((is_string(n.k[1]) /\ is_string(n.k[2])) \/ (boolean_expr(n.k[1]) /\ boolean_expr(n.k[2])))
  THEN [n EXCEPT !.v = IF @ = "===" THEN "==" ELSE "!="]
  ELSE IF IsBinary(n, {"&&", "||"}) /\ evaluate(n.k[1]) # <<>> /\ Truthy(evaluate(n.k[1])[1]) = (n.v = "&&") THEN n.k[2]
  ELSE n
-----------------------------------------------------------------------------
\* negate( c ).
RECURSIVE negate(_)
negate(c) ==
  CASE IsUnary(c, {"!"}) /\ boolean_expr(c.k[1]) -> c.k[1]
    [] c.t = "seq" -> Seq2(c.k[1], negate(c.k[2]))
    [] c.t = "conditional" -> best_of(Not(c), Cond(c.k[1], negate(c.k[2]), negate(c.k[3])))
    [] IsBinary(c, {"=="}) -> [c EXCEPT !.v = "!="]   [] IsBinary(c, {"!="}) -> [c EXCEPT !.v = "=="]
    [] IsBinary(c, {"==="}) -> [c EXCEPT !.v = "!=="] [] IsBinary(c, {"!=="}) -> [c EXCEPT !.v = "==="]
    [] IsBinary(c, {"&&"}) -> best_of(Not(c), Binary("||", negate(c.k[1]), negate(c.k[2])))
    [] IsBinary(c, {"||"}) -> best_of(Not(c), Binary("&&", negate(c.k[1]), negate(c.k[2])))
    [] OTHER -> Not(c)
\* make_conditional( c, t, e ).
make_conditional(c, t, e) ==
  LET v == evaluate(c) IN
  IF v # <<>> THEN IF Truthy(v[1]) THEN t ELSE e
  ELSE IF IsUnary(c, {"!"}) THEN IF e # Null THEN Cond(c.k[1], e, t) ELSE Binary("||", c.k[1], t)
  ELSE IF e # Null THEN best_of(Cond(c, t, e), Cond(negate(c), e, t)) ELSE Binary("&&", c, t)
rmblock(n) == IF n.t = "block" /\ Len(n.k) = 1 THEN n.k[1] ELSE n

\* redo_if: what follows an if that aborts becomes its else.
RECURSIVE redo_if(_)
RECURSIVE Prepared(_)
Prepared(n) == IF n.t = "block" THEN Block(redo_if(n.k)) ELSE walked(n, Prepared)
redo_if(list) ==
  LET l == Each(list, Prepared)
      at == {i \in DOMAIN l : l[i].t = "if" /\ l[i].k[3] = Null /\ aborts(l[i].k[2])}
  IN IF at = {} THEN l
     ELSE LET i == CHOOSE j \in at : \A h \in at : j <= h
              rest == redo_if(SubSeq(l, i + 1, Len(l)))
          IN SubSeq(l, 1, i - 1) \o <<If(l[i].k[1], l[i].k[2], IF Len(rest) = 1 THEN rest[1] ELSE Block(rest))>>
-----------------------------------------------------------------------------
\* The passes of tighten over a list of statements.
Flat(list) == FlattenSeq([i \in DOMAIN list |-> IF list[i].t = "block" THEN list[i].k ELSE <<list[i]>>])
JoinVars(list) ==
  FoldLeft(LAMBDA a, cur : IF a # <<>> /\ cur.t = "var" /\ Last(a).t = "var" THEN Front(a) \o <<VarOf(Last(a).k \o cur.k)>> ELSE Append(a, cur),
           <<>>, list)
\* After a statement that aborts only declarations stay.
Living(list) ==
  LET quits == {i \in DOMAIN list : list[i].t \in {"return", "throw", "break", "continue"}}
      quit == CHOOSE i \in quits : \A j \in quits : i <= j
      Bare(n) == IF n.t = "var" THEN <<VarOf(Each(n.k, LAMBDA d : Def(d.v, Null)))>> ELSE IF n.t = "defun" THEN <<n>> ELSE <<>>
  IN IF quits = {} THEN list
     ELSE SubSeq(list, 1, quit) \o FlattenSeq([i \in 1 .. Len(list) - quit |-> Bare(list[quit + i])])
\* Statements that are expressions become one, and part of a return at the end.
Sequences(list) ==
  LET joined == FoldLeft(LAMBDA a, cur : IF a # <<>> /\ cur.t = "stat" /\ Last(a).t = "stat"
                                         THEN Front(a) \o <<Stat(Seq2(Last(a).k[1], cur.k[1]))>> ELSE Append(a, cur), <<>>, list)
      n == Len(joined)
  IN IF n >= 2 /\ joined[n].t \in {"return", "throw"} /\ joined[n].k[1] # Null /\ joined[n - 1].t = "stat"
     THEN SubSeq(joined, 1, n - 2) \o <<[joined[n] EXCEPT !.k = <<Seq2(joined[n - 1].k[1], @[1])>>]>>
     ELSE joined

RECURSIVE Walk(_)
RECURSIVE make_real_if(_, _, _)
tighten(list) == Sequences(Living(JoinVars(Flat(Each(list, Walk)))))
make_if(c, t, e) ==
  LET v == evaluate(c) IN
  IF v = <<>> THEN make_real_if(c, t, e)
  ELSE LET taken == IF Truthy(v[1]) THEN t ELSE e IN IF taken = Null THEN Block(<<>>) ELSE Walk(taken)
\* abort_else( c, t, e ): the else first.
abort_else(c, t, e) == Walk(Block(<<If(negate(c), e, Null)>> \o IF t.t = "block" THEN t.k ELSE <<t>>))
\* make_real_if( c, t, e ): the cases are tried in this order.
make_real_if(c0, t0, e0) ==
  LET c1 == Walk(c0)   t1 == Walk(t0)   e1 == IF empty(e0) THEN Null ELSE Walk(e0)
      c == IF empty(t1) THEN negate(c1) ELSE IF ~empty(e1) /\ second THEN negate(c1) ELSE c1
      t == IF empty(t1) \/ (~empty(e1) /\ second) THEN e1 ELSE t1
      e == IF empty(t1) \/ empty(e1) THEN Null ELSE IF second THEN t1 ELSE e1
      plain == If(c, t, e)
  IN CASE empty(t1) /\ empty(e1) -> Stat(c1)
       [] t.t = "if" /\ empty(t.k[3]) /\ empty(e) -> best_of(plain, Walk(If(Binary("&&", c, t.k[1]), t.k[2], Null)))
       [] t.t = "stat" /\ e # Null /\ e.t = "stat" -> best_of(plain, Stat(make_conditional(c, t.k[1], e.k[1])))
       [] t.t = "stat" /\ e # Null /\ e.t # "stat" -> IF aborts(e) THEN abort_else(c, t, e) ELSE plain
       [] t.t = "stat" /\ e = Null -> best_of(plain, Stat(make_conditional(c, t.k[1], Null)))
       [] t.t \in {"return", "throw"} /\ e # Null /\ t.t = e.t /\ t.k[1] # Null /\ e.k[1] # Null ->
            best_of(plain, N(t.t, "", <<make_conditional(c, t.k[1], e.k[1])>>))
       [] e # Null /\ aborts(t) -> Walk(Block(<<If(c, t, Null)>> \o IF e.t = "block" THEN e.k ELSE <<e>>))
       [] e # Null /\ ~aborts(t) /\ aborts(e) -> abort_else(c, t, e)
       [] OTHER -> plain
\* _do_while( cond, body ): a constant condition.
WalkWhile(n) ==
  LET v == evaluate(n.k[1]) IN
  IF v = <<>> THEN While(Walk(n.k[1]), Walk(n.k[2]))
  ELSE IF Truthy(v[1]) THEN For(Null, Null, Null, Walk(n.k[2])) ELSE Block(<<>>)
\* A binary expression: a constant, or the same with less.
WalkBinary(n) ==
  LET w == Binary(n.v, Walk(n.k[1]), Walk(n.k[2]))
      v == evaluate(w)
      Flip(e) == IsUnary(e, {"!"}) /\ e.k[1].t = "num"
      Flipped(e) == Leaf("num", IF Truthy(Literal(e.k[1].v)) THEN "0" ELSE "1")
  IN IF v # <<>> /\ NodeOf(v[1]) # Null THEN best_of(Walk(NodeOf(v[1])), w)
     ELSE IF n.v \notin {"==", "!="} THEN lessen(w)
     ELSE IF Flip(w.k[1]) THEN Binary(n.v, Flipped(w.k[1]), n.k[2])
     ELSE IF Flip(w.k[2]) THEN Binary(n.v, n.k[1], Flipped(w.k[2])) ELSE n
WalkNot(n) ==
  LET e == Walk(n.k[1])
      r == IF n.v = "!" THEN best_of(Not(e), negate(e)) ELSE Unary(n.v, e)
      v == evaluate(r)
  IN IF v # <<>> /\ NodeOf(v[1]) # Null THEN (IF v[1].y = "boolean" THEN Not(Leaf("num", IF v[1].n = 1 THEN "0" ELSE "1")) ELSE NodeOf(v[1])) ELSE r
\* a = a + e is a += e.
WalkAssign(n) ==
  LET r == Walk(n.k[2]) IN
  IF n.v = "=" /\ IsBinary(r, {"+"}) /\ r.k[1] = n.k[1] THEN Assign("+", n.k[1], r.k[2]) ELSE Assign(n.v, n.k[1], r)
Walk(n) ==
  CASE n.t = "if" -> make_if(n.k[1], n.k[2], n.k[3])
    [] n.t = "block" -> rmblock(Block(tighten(n.k)))
    [] n.t = "binary" -> WalkBinary(n)
    [] n.t = "conditional" -> make_conditional(Walk(n.k[1]), Walk(n.k[2]), Walk(n.k[3]))
    [] n.t = "unary" -> WalkNot(n)
    [] n.t = "atom" -> Not(Leaf("num", IF n.v = "true" THEN "0" ELSE "1"))
    [] n.t = "while" -> WalkWhile(n)
    [] n.t = "assign" -> WalkAssign(n)
    [] OTHER -> walked(n, Walk)
\* squeeze_1, of the body of a function.
squeeze(list) == tighten(redo_if(tighten(redo_if(list))))
-----------------------------------------------------------------------------
\* ast_lift_variables: the variables declared at the head, with the values the body begins by giving them.
RECURSIVE Bared(_)
Bared(n) ==
  LET valued == SelectSeq(n.k, LAMBDA d : d.k[1] # Null)
      assigns == Each(valued, LAMBDA d : Assign("=", NameOf(d.v), d.k[1]))
      all == IF valued = <<>> THEN Null ELSE FoldRight(LAMBDA car, cdr : Seq2(car, cdr), Front(assigns), Last(assigns))
  IN CASE n.t = "var" -> IF all = Null THEN Empty ELSE Stat(all)
       [] n.t = "for" /\ n.k[1].t = "var" -> LET b == Bared(n.k[1]) IN [n EXCEPT !.k[1] = IF b = Empty THEN Null ELSE b.k[1], !.k[4] = Bared(@)]
       [] OTHER -> [n EXCEPT !.k = Each(n.k, Bared)]
\* for_side_effects: the way to the first node, parents first, that does something.
RECURSIVE Effect(_)
Effect(n) ==
  IF n.t \in {"throw", "return", "break", "continue", "assign", "call", "if", "for", "while", "conditional", "defun"} \/ IsBinary(n, {"&&", "||"})
  THEN <<<<>>>>
  ELSE LET at == {i \in DOMAIN n.k : Effect(n.k[i]) # <<>>} IN
       IF at = {} THEN <<>> ELSE LET i == CHOOSE j \in at : \A h \in at : j <= h IN <<<<i>> \o Effect(n.k[i])[1]>>
RECURSIVE At(_, _)
At(n, way) == IF way = <<>> THEN n ELSE At(n.k[way[1]], Tail(way))
RECURSIVE Put(_, _, _)
Put(n, way, m) == IF way = <<>> THEN m ELSE [n EXCEPT !.k[way[1]] = Put(n.k[way[1]], Tail(way), m)]
RECURSIVE Lifted(_, _)
Lifted(names, body) ==
  LET way == Effect(body)
      hit == IF way = <<>> THEN Null ELSE At(body, way[1])
      up == IF way = <<>> THEN <<>> ELSE Front(way[1])
      parent == At(body, up)
      x == IF hit.t = "assign" /\ hit.v = "=" THEN hit.k[1].v ELSE ""
      Of(d) == d.v = x /\ d.k[1] = Null
      more == SelectSeq(names, LAMBDA d : ~Of(d)) \o <<Def(x, hit.k[2])>>
  IN IF ~\E i \in DOMAIN names : Of(names[i]) THEN <<names, body>>
     ELSE IF parent.t = "seq" THEN Lifted(more, Put(body, up, parent.k[2]))
     ELSE IF parent.t = "stat" THEN Lifted(more, Put(body, up, Block(<<>>)))
     ELSE <<more, body>>
do_body(list) ==
  LET vars == {x \in {"x", "y"} : \E i \in DOMAIN list : <<"def", x>> \in Declared(list[i])}
      names == SetToSeq(vars)
      r == Lifted(Each(names, LAMBDA x : Def(x, Null)), Block(Each(list, Bared)))
  IN IF names = <<>> THEN r[2].k ELSE <<VarOf(r[1])>> \o r[2].k
-----------------------------------------------------------------------------
\* The squeezed function does what the function did: the same calls in the same order,
\* the same variables, the same end, in every world.
SqueezedDoesSame == SameDoing(program, squeeze(program))

\* A statement that declares stays although it is never reached, for it still makes the
\* variable: unless an if comes before it, which may take it along into its dead else.
SqueezedDeclares ==
  LET q == squeeze(program)
      kept == UNION {Declared(q[i]) : i \in DOMAIN q}
  IN \A i \in DOMAIN program :
       program[i].t \in {"var", "defun"} /\ (\A j \in 1 .. i : program[j].t # "if") => Declared(program[i]) \subseteq kept

\* And so does the function with its variables lifted: but for one whose body begins with a
\* list of expressions, a later one of which gives a variable its value, for that stays there.
LiftedDoesSame ==
  \/ \E i \in DOMAIN program : program[i].t = "stat" /\ program[i].k[1].t = "seq"
  \/ SameDoing(program, do_body(program))
=============================================================================
