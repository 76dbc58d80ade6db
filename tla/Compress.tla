------------------------------ MODULE Compress ------------------------------
(***************************************************************************)
(* Compressor of UglifyJS2, in html/jquery-require-sample/r.js: statements *)
(* tightened, expressions rewritten, what is unused dropped and what is    *)
(* declared moved to the front of the function.                            *)
(*                                                                         *)
(* A context says whether only the truth of an expression counts, and the  *)
(* operator of the binary expression it is an operand of.  A new node is   *)
(* rewritten as the code does it; its parts, rewritten before, stay.       *)
(***************************************************************************)
EXTENDS JsTree

VARIABLES program,    \* the statements of the function
          hoist_vars  \* an option

IsUnary(n, ops) == n.t = "unary" /\ n.v \in ops
IsBinary(n, ops) == n.t = "binary" /\ n.v \in ops
IsConstant(n) == n.t \in {"num", "str", "atom", "undefined", "nan"}
IsLoop(n) == n.t \in {"while", "for"}
Equalities == {"==", "!=", "===", "!=="}
Comparisons == Equalities \cup {"<", "<=", ">", ">="}
Opposite(op) == CASE op = "==" -> "!=" [] op = "!=" -> "==" [] op = "===" -> "!==" [] op = "!==" -> "==="
                  [] op = "&&" -> "||" [] op = "||" -> "&&" [] op = "<" -> ">" [] op = "<=" -> ">="
is_empty(n) == n \in {Null, Empty, Block(<<>>)}
as_statement_array(n) == CASE n \in {Null, Empty} -> <<>> [] n.t = "block" -> n.k [] OTHER -> <<n>>

\* The length of the text an expression is printed as: what best_of compares.
Binding(n) ==
  CASE n.t = "seq" -> 1 [] n.t = "assign" -> 2 [] n.t = "conditional" -> 3 [] IsBinary(n, {"||"}) -> 4 [] IsBinary(n, {"&&"}) -> 5
    [] IsBinary(n, Equalities) -> 6 [] IsBinary(n, Comparisons \ Equalities) -> 7 [] IsBinary(n, {"+"}) -> 8
    [] n.t \in {"unary", "undefined"} -> 9 [] OTHER -> 10
RECURSIVE Length(_, _)
Length(n, outer) ==
  (IF Binding(n) < outer THEN 2 ELSE 0) +
  (CASE n.t \in {"num", "name", "atom"} -> Len(n.v) [] n.t = "str" -> Len(n.v) + 2 [] n.t \in {"call", "nan"} -> 3 [] n.t = "undefined" -> 6
     [] n.t = "unary" -> Length(n.k[1], 9) + (IF n.v \in {"typeof", "void"} THEN Len(n.v) + 1 ELSE 1)
     [] n.t = "binary" -> Length(n.k[1], Binding(n)) + Len(n.v) + Length(n.k[2], Binding(n) + 1)
     [] n.t = "conditional" -> Length(n.k[1], 4) + Length(n.k[2], 2) + Length(n.k[3], 2) + 2
     [] n.t = "assign" -> Length(n.k[1], 3) + Len(n.v) + Length(n.k[2], 2) + (IF n.v = "=" THEN 0 ELSE 1)
     [] n.t = "seq" -> Length(n.k[1], 2) + Length(n.k[2], 1) + 1)
best_of(x, y) == IF Length(x, 0) > Length(y, 0) THEN y ELSE x
-----------------------------------------------------------------------------
RECURSIVE is_boolean(_)
is_boolean(n) ==
  \/ IsUnary(n, {"!", "delete"}) \/ IsBinary(n, Comparisons) \/ n.t = "atom"
  \/ IsBinary(n, {"&&", "||"}) /\ is_boolean(n.k[1]) /\ is_boolean(n.k[2])
  \/ n.t = "conditional" /\ is_boolean(n.k[2]) /\ is_boolean(n.k[3])
  \/ n.t = "assign" /\ n.v = "=" /\ is_boolean(n.k[2])
  \/ n.t = "seq" /\ is_boolean(n.k[2])
RECURSIVE is_string(_)
is_string(n) ==
  \/ n.t = "str" \/ IsUnary(n, {"typeof"})
  \/ IsBinary(n, {"+"}) /\ (is_string(n.k[1]) \/ is_string(n.k[2]))
  \/ n.t \in {"assign", "seq"} /\ is_string(n.k[2])
  \/ n.t = "conditional" /\ is_string(n.k[2]) /\ is_string(n.k[3])

\* _eval: <<value>>, or nothing where the code throws.
RECURSIVE _eval(_)
_eval(n) ==
  CASE n.t = "num" -> <<Literal(n.v)>> [] n.t = "str" -> <<Str(n.v)>> [] n.t = "atom" -> <<Bool(n.v = "true")>> [] n.t = "undefined" -> <<Undef>> [] n.t = "nan" -> <<NaN>>
    [] n.t = "unary" -> LET v == _eval(n.k[1]) IN IF v = <<>> THEN v ELSE <<Change(n.v, v[1])>>
    [] IsBinary(n, {"&&", "||"}) ->
         LET l == _eval(n.k[1]) IN IF l = <<>> THEN l ELSE IF Truthy(l[1]) = (n.v = "&&") THEN _eval(n.k[2]) ELSE l
    [] IsBinary(n, Comparisons \cup {"+"}) ->
         LET l == _eval(n.k[1])   r == _eval(n.k[2]) IN IF <<>> \in {l, r} THEN <<>> ELSE <<Operate(n.v, l[1], r[1])>>
    [] n.t = "conditional" -> LET c == _eval(n.k[1]) IN IF c = <<>> THEN c ELSE _eval(n.k[IF Truthy(c[1]) THEN 2 ELSE 3])
    [] OTHER -> <<>>
make_node_from_constant(v) ==
  CASE v.y = "string" -> Leaf("str", v.s) [] v.y = "boolean" -> Leaf("atom", IF v.n = 1 THEN "true" ELSE "false")
    [] v.y = "undefined" -> Leaf("undefined", "") [] v = NaN -> Leaf("nan", "")
    [] OTHER -> Leaf("num", ToString(v.n))
\* evaluate: the node to use, and its value where it has one.
evaluate(n) == LET v == _eval(n) IN IF v = <<>> THEN <<n>> ELSE <<best_of(make_node_from_constant(v[1]), n), v[1]>>
Always(c, truth) == Len(c) > 1 /\ Truthy(c[2]) = truth

RECURSIVE negate(_)
negate(n) ==
  CASE IsUnary(n, {"!"}) -> n.k[1]
    [] n.t = "seq" -> Seq2(n.k[1], negate(n.k[2]))
    [] n.t = "conditional" -> best_of(Not(n), Cond(n.k[1], negate(n.k[2]), negate(n.k[3])))
    [] IsBinary(n, Equalities) -> [n EXCEPT !.v = Opposite(@)]
    [] IsBinary(n, {"&&", "||"}) -> best_of(Not(n), Binary(Opposite(n.v), negate(n.k[1]), negate(n.k[2])))
    [] OTHER -> Not(n)
RECURSIVE has_side_effects(_)
has_side_effects(n) ==
  \/ n.t \notin {"empty", "null", "num", "str", "atom", "undefined", "nan", "name", "block", "stat", "binary", "conditional", "unary", "seq"}
  \/ \E i \in DOMAIN n.k : has_side_effects(n.k[i])
\* The statement an abort is, or nothing.
RECURSIVE aborts(_)
aborts(n) ==
  CASE n.t \in {"return", "throw", "break", "continue"} -> n
    [] n.t = "block" /\ n.k # <<>> -> aborts(Last(n.k))
    [] n.t = "if" /\ n.k[3] # Null /\ aborts(n.k[2]) # Null -> aborts(n.k[3])
    [] OTHER -> Null
\* extract_declarations_from_unreachable_code( stat ).
RECURSIVE extract_declarations(_)
extract_declarations(n) ==
  CASE n.t = "var" -> <<VarOf(Each(n.k, LAMBDA d : Def(d.v, Null)))>>
    [] n.t = "defun" -> <<n>>
    [] OTHER -> FlattenSeq([i \in DOMAIN n.k |-> extract_declarations(n.k[i])])
-----------------------------------------------------------------------------
Cx(bool, par) == [bool |-> bool, par |-> par]
Plain == Cx(FALSE, "")
Under(n) == Cx(FALSE, IF n.t = "binary" THEN n.v ELSE n.t)
\* in_boolean_context, for the i-th part of n.
Inside(n, i, cx) ==
  [Under(n) EXCEPT !.bool = \/ (n.t \in {"if", "conditional", "while"} /\ i = 1) \/ (n.t = "for" /\ i = 2)
                            \/ IsUnary(n, {"!"}) \/ (IsBinary(n, {"&&", "||"}) /\ cx.bool)]
RECURSIVE to_array(_)
to_array(n) == IF n.t = "seq" THEN <<n.k[1]>> \o to_array(n.k[2]) ELSE <<n>>
from_array(list) == FoldRight(LAMBDA car, cdr : Seq2(car, cdr), Front(list), Last(list))

RECURSIVE transform(_, _)
RECURSIVE OptUnary(_, _)
RECURSIVE OptBinary(_, _)
RECURSIVE OptAssign(_, _)
RECURSIVE OptConditional(_, _)
RECURSIVE OptIf(_)
RECURSIVE if_break_in_loop(_)
RECURSIVE tighten_body(_, _)
RECURSIVE handle_if_return(_, _, _)

OptSeq(n) ==
  CASE ~has_side_effects(n.k[1]) -> n.k[2]
    [] n.k[1].t = "assign" /\ n.k[1].k[1] = n.k[2] -> n.k[1]
    [] OTHER -> n
Sequence(list) == FoldRight(LAMBDA car, cdr : OptSeq(Seq2(car, cdr)), Front(list), Last(list))
\* lift_sequences: what comes before the last operand comes before the operation.
Lifted(n, i, Opt(_, _)) ==
  LET x == to_array(n.k[i]) IN Sequence(Front(x) \o <<Opt([n EXCEPT !.k[i] = Last(x)], Cx(FALSE, "seq"))>>)

OptUnary(n, cx) ==
  LET e == n.k[1] IN
  IF e.t = "seq" THEN Lifted(n, 1, OptUnary)
  ELSE IF cx.bool /\ n.v = "!" /\ IsUnary(e, {"!"}) THEN e.k[1]
  ELSE IF cx.bool /\ n.v = "typeof" THEN TrueOf
  ELSE evaluate(IF cx.bool /\ n.v = "!" /\ e.t = "binary" THEN best_of(n, negate(e)) ELSE n)[1]

\* The cases where only the truth of the value counts: <<node>>, or nothing.
Decided(n) ==
  LET l == evaluate(n.k[1])   r == evaluate(n.k[2])
      ends == n.v = "||"                     \* the truth that ends it
  IN CASE n.v \in {"&&", "||"} /\ (Always(l, ends) \/ Always(r, ends)) -> <<IF ends THEN TrueOf ELSE FalseOf>>
       [] n.v \in {"&&", "||"} /\ Always(l, ~ends) -> <<r[1]>>
       [] n.v \in {"&&", "||"} /\ Always(r, ~ends) -> <<l[1]>>
       [] n.v = "+" /\ \E c \in {l, r} : Always(c, TRUE) /\ c[1].t = "str" -> <<TrueOf>>
       [] OTHER -> <<>>
Swapped(n) == IF has_side_effects(n.k[1]) /\ has_side_effects(n.k[2]) THEN n ELSE Binary(n.v, n.k[2], n.k[1])
\* A less strict comparison where it makes no difference.
Compared(n) ==
  LET l == n.k[1]   r == n.k[2]
      m == IF n.v \in {"===", "!=="} /\ ((is_string(l) /\ is_string(r)) \/ (is_boolean(l) /\ is_boolean(r)))
           THEN [n EXCEPT !.v = IF @ = "===" THEN "==" ELSE "!="] ELSE n
  IN IF m.v \in Equalities /\ l = Leaf("str", "undefined") /\ IsUnary(r, {"typeof"})
     THEN Binary(CASE m.v = "==" -> "===" [] m.v = "!=" -> "!==" [] OTHER -> m.v, r.k[1], Leaf("undefined", "")) ELSE m
OptBinary(n0, cx) ==
  LET n1 == IF n0.v \in Equalities /\ IsConstant(n0.k[2]) /\ ~IsConstant(n0.k[1]) THEN Swapped(n0) ELSE n0
      n == Compared(n1)
      known == IF cx.bool THEN Decided(n) ELSE <<>>
      value == evaluate(n)
      m == IF cx.par \in Comparisons \cup {"&&", "||", "+"} THEN n ELSE best_of(n, Not(negate(n)))
  IN CASE n1.k[1].t = "seq" -> Lifted(n1, 1, OptBinary)
       [] n1.k[2].t = "seq" /\ n1.v \notin {"&&", "||"} /\ ~has_side_effects(n1.k[1]) -> Lifted(n1, 2, OptBinary)
       [] OTHER ->
          IF known # <<>> THEN known[1]
          ELSE IF Len(value) > 1 /\ best_of(value[1], n) # n THEN value[1]
          ELSE IF m.t = "binary" /\ m.v \in {"<", "<="} /\ Swapped(m) # m THEN [Swapped(m) EXCEPT !.v = Opposite(@)]
          ELSE IF IsBinary(m, {"+"}) /\ m.k[2] = Leaf("str", "") /\ IsBinary(m.k[1], {"+"}) /\ is_string(m.k[1]) THEN m.k[1]
          ELSE m
OptAssign(n, cx) ==
  IF n.k[2].t = "seq" THEN Lifted(n, 2, OptAssign)
  ELSE IF n.v = "=" /\ IsBinary(n.k[2], {"+"}) /\ n.k[2].k[1] = n.k[1] THEN Assign("+", n.k[1], n.k[2].k[2]) ELSE n
OptConditional(n, cx) ==
  IF n.k[1].t = "seq" THEN Seq2(n.k[1].k[1], OptConditional([n EXCEPT !.k[1] = @.k[2]], Plain))
  ELSE LET c == evaluate(n.k[1])
           other == negate(c[1])
           m == IF best_of(c[1], other) = other /\ other # c[1] THEN Cond(other, n.k[3], n.k[2]) ELSE n
           t == m.k[2]   e == m.k[3]
       IN IF Len(c) > 1 THEN IF Truthy(c[2]) THEN n.k[2] ELSE n.k[3]
          ELSE IF t.t = "assign" /\ e.t = "assign" /\ t.v = e.v /\ t.k[1] = e.k[1]
               THEN Assign(t.v, t.k[1], OptConditional(Cond(m.k[1], t.k[2], e.k[2]), Plain))
          ELSE m
OptBoolean(n, cx) ==
  IF cx.par \in {"==", "!="} THEN NumOf(IF n.v = "true" THEN "1" ELSE "0") ELSE Not(NumOf(IF n.v = "true" THEN "0" ELSE "1"))
OptStat(n) == IF has_side_effects(n.k[1]) THEN n ELSE Empty
\* OPT(AST_BlockStatement): where says whose body it is.
OptBlock(list, where) ==
  LET body == tighten_body(list, where) IN IF body = <<>> THEN Empty ELSE IF Len(body) = 1 THEN body[1] ELSE Block(body)
-----------------------------------------------------------------------------
OptIf(n) ==
  LET c0 == evaluate(n.k[1])
      e0 == IF is_empty(n.k[3]) THEN Null ELSE n.k[3]
      shorter == negate(c0[1]) # c0[1] /\ best_of(c0[1], negate(c0[1])) = negate(c0[1])     \* negated_is_best
      turned == e0 # Null /\ shorter
      c == IF turned THEN negate(c0[1]) ELSE c0[1]
      t == IF turned THEN e0 ELSE n.k[2]
      e == IF turned THEN n.k[2] ELSE e0
      best == shorter /\ ~turned
      Value(x) == IF x = Null THEN Leaf("undefined", "") ELSE x
      Simple(x) == OptStat(Stat(x))
      inner == t.t = "if" /\ t.k[3] = Null /\ e = Null
      c2 == IF inner THEN OptBinary(Binary("&&", c, t.k[1]), Cx(FALSE, "if")) ELSE c
      t2 == IF inner THEN t.k[2] ELSE t
  IN CASE Len(c0) > 1 /\ Truthy(c0[2]) -> OptBlock(extract_declarations(n.k[3]) \o <<n.k[2]>>, "block")
       [] Len(c0) > 1 /\ ~Truthy(c0[2]) -> OptBlock(extract_declarations(n.k[2]) \o as_statement_array(n.k[3]), "block")
       [] OTHER ->
          IF is_empty(t) /\ is_empty(e) THEN Simple(c)
          ELSE IF t.t = "stat" /\ e.t = "stat" THEN Simple(OptConditional(Cond(c, t.k[1], e.k[1]), Cx(FALSE, "stat")))
          ELSE IF is_empty(e) /\ t.t = "stat" THEN Simple(OptBinary(IF best THEN Binary("||", negate(c), t.k[1]) ELSE Binary("&&", c, t.k[1]), Cx(FALSE, "stat")))
          ELSE IF t = Empty /\ e.t = "stat" THEN Simple(OptBinary(Binary("||", c, e.k[1]), Cx(FALSE, "stat")))
          ELSE IF t.t \in {"return", "throw"} /\ e.t = t.t
               THEN N(t.t, "", <<OptConditional(Cond(c, Value(t.k[1]), Value(e.k[1])), Plain)>>)
          ELSE IF aborts(t2) # Null /\ e # Null THEN OptBlock(<<OptIf(If(c2, t2, Null)), e>>, "block")
          ELSE IF aborts(e) # Null THEN OptBlock(<<OptIf(If(negate(c2), e, Null)), t2>>, "block")
          ELSE If(c2, t2, e)
\* if_break_in_loop: a break under a condition at the head of the body joins the loop's own.
if_break_in_loop(n) ==
  LET ci == IF n.t = "while" THEN 1 ELSE 2
      bi == Len(n.k)
      body == n.k[bi]
      first == IF body.t = "block" THEN body.k[1] ELSE body
      way == IF first.t # "if" THEN 0 ELSE IF first.k[2] = Break THEN 2 ELSE IF first.k[3] = Break THEN 3 ELSE 0
      until == IF way = 2 THEN negate(first.k[1]) ELSE first.k[1]
      rest == as_statement_array(first.k[5 - way])
  IN IF way = 0 THEN n
     ELSE if_break_in_loop([n EXCEPT !.k[ci] = IF @ = Null THEN until ELSE Binary("&&", @, until),
                                     !.k[bi] = IF body.t = "block" THEN OptBlock(rest \o Tail(body.k), "loop") ELSE OptBlock(rest, "block")])
OptFor(n) ==
  LET c == IF n.k[2] = Null THEN <<Null>> ELSE evaluate(n.k[2])
      init == IF n.k[1] = Null THEN <<>> ELSE IF n.k[1].t \in {"var", "empty"} THEN <<n.k[1]>> ELSE <<OptStat(Stat(n.k[1]))>>
  IN IF Always(c, FALSE) THEN Block(init \o extract_declarations(n.k[4]))
     ELSE if_break_in_loop([n EXCEPT !.k[2] = c[1]])
OptWhile(n) ==
  LET c == evaluate(n.k[1])
      m == if_break_in_loop([n EXCEPT !.k[1] = c[1]])
  IN IF Always(c, TRUE) THEN For(Null, Null, Null, n.k[2])
     ELSE IF Always(c, FALSE) THEN Block(extract_declarations(n.k[2]))
     ELSE OptFor(For(Null, IF m.k[1] = c[1] THEN c[1] ELSE OptBinary(m.k[1], Cx(TRUE, "for")), Null, m.k[2]))

transform(n, cx) ==
  LET Part(i) == IF n.k[i] = Null THEN Null
                 ELSE IF IsLoop(n) /\ n.k[i].t = "block" THEN OptBlock(Each(n.k[i].k, LAMBDA e : transform(e, Plain)), "loop")
                 ELSE transform(n.k[i], Inside(n, i, cx))
      m == [n EXCEPT !.k = <<>> \o [i \in DOMAIN n.k |-> Part(i)]]
  IN CASE n.t = "unary" -> OptUnary(m, cx)             [] n.t = "binary" -> OptBinary(m, cx)
       [] n.t = "assign" -> OptAssign(m, cx)           [] n.t = "conditional" -> OptConditional(m, cx)
       [] n.t = "seq" -> OptSeq(m)                     [] n.t = "atom" -> OptBoolean(m, cx)
       [] n.t = "stat" -> OptStat(m)                   [] n.t = "block" -> OptBlock(m.k, "block")
       [] n.t = "if" -> OptIf(m)                       [] n.t = "for" -> OptFor(m)
       [] n.t = "while" -> OptWhile(m)                 [] n = VarOf(<<>>) -> Empty
       [] OTHER -> m
-----------------------------------------------------------------------------
\* The passes of tighten_body.
RECURSIVE eliminate_spurious_blocks(_)
eliminate_spurious_blocks(list) ==
  FlattenSeq([i \in DOMAIN list |-> IF list[i].t = "block" THEN eliminate_spurious_blocks(list[i].k) ELSE IF list[i] = Empty THEN <<>> ELSE <<list[i]>>])
eliminate_dead_code(list, where) ==
  LET quits == {i \in DOMAIN list : aborts(list[i]) # Null}
      quit == CHOOSE i \in quits : \A j \in quits : i <= j
      kept == IF list[quit] = Continue /\ where = "loop" THEN SubSeq(list, 1, quit - 1) ELSE SubSeq(list, 1, quit)
  IN IF quits = {} THEN list ELSE kept \o FlattenSeq([i \in 1 .. Len(list) - quit |-> extract_declarations(list[quit + i])])
\* handle_if_return, of one statement and what follows it.
handle_if_return(stat, ret, where) ==
  LET in_lambda == where = "lambda"
      bare(n) == n = Return(Null)
      c == stat.k[1]   t == stat.k[2]   e == stat.k[3]
      next == IF ret = <<>> THEN Null ELSE ret[1]
      ends(ab) == (bare(ab) /\ in_lambda) \/ (ab = Continue /\ where = "loop")
      sub(list) == OptBlock(list, "block")
      front(n) == LET l == as_statement_array(n) IN SubSeq(l, 1, Len(l) - 1)
  IN IF in_lambda /\ bare(stat) /\ ret = <<>> THEN <<>>
     ELSE IF stat.t # "if" THEN <<stat>> \o ret
     ELSE IF bare(t) /\ e = Null /\ ((in_lambda /\ ret = <<>>) \/ bare(next)) THEN <<Stat(c)>> \o ret
     ELSE IF t.t = "return" /\ t.k[1] # Null /\ next.t = "return" /\ e = Null /\ (next.k[1] # Null \/ in_lambda)
          THEN <<OptIf(If(c, t, next))>> \o Tail(ret)
     ELSE IF t.t = "return" /\ t.k[1] # Null /\ ret = <<>> /\ e = Null /\ in_lambda
          THEN <<OptIf(If(c, t, Return(Leaf("undefined", ""))))>>
     ELSE IF bare(t) /\ in_lambda
          THEN <<OptIf(If(negate(c), sub(as_statement_array(e) \o ret), Null))>>
     ELSE IF t.t = "return" /\ Len(ret) = 1 /\ in_lambda /\ next.t = "stat" /\ (e = Null \/ e.t = "stat")
          THEN <<stat>> \o as_statement_array(e) \o ret \o <<Return(Leaf("undefined", ""))>>
     ELSE IF ends(aborts(t)) THEN <<OptIf(If(negate(c), sub(ret), sub(front(t))))>>
     ELSE IF ends(aborts(e)) THEN <<OptIf(If(c, sub(as_statement_array(t) \o ret), sub(front(e))))>>
     ELSE <<stat>> \o ret
\* Mutant: what follows is put before.
sequencesizeBefore(list) ==
  FoldLeft(LAMBDA a, cur :
    IF a # <<>> /\ Last(a).t = "stat" /\ cur.t \in {"return", "throw"} /\ cur.k[1] # Null
    THEN Front(a) \o <<[cur EXCEPT !.k[1] = Seq2(@, Last(a).k[1])]>> ELSE Append(a, cur), <<>>, list)
\* sequencesize: expression statements in a row become one; and then part of what follows.
sequencesize(list) ==
  FoldLeft(LAMBDA a, cur : IF a # <<>> /\ cur.t = "stat" /\ Last(a).t = "stat"
                           THEN Front(a) \o <<Stat(from_array(to_array(Last(a).k[1]) \o <<cur.k[1]>>))>> ELSE Append(a, cur), <<>>, list)
sequencesize_2(list) ==
  LET cons_seq(prev, right) == Sequence(to_array(prev.k[1]) \o <<right>>) IN
  FoldLeft(LAMBDA a, cur :
    IF a = <<>> \/ Last(a).t # "stat" THEN Append(a, cur)
    ELSE IF cur.t = "for" /\ cur.k[1] = Null THEN Front(a) \o <<[cur EXCEPT !.k[1] = Last(a).k[1]]>>
    ELSE IF cur.t \in {"if", "return", "throw"} \/ (cur.t = "for" /\ cur.k[1].t # "var")
         THEN Front(a) \o <<[cur EXCEPT !.k[1] = cons_seq(Last(a), IF @ = Null THEN Leaf("undefined", "") ELSE @)]>>
    ELSE Append(a, cur), <<>>, list)
join_consecutive_vars(list) ==
  FoldLeft(LAMBDA a, cur :
    IF a = <<>> \/ Last(a).t # "var" THEN Append(a, cur)
    ELSE IF cur.t = "var" THEN Front(a) \o <<VarOf(Last(a).k \o cur.k)>>
    ELSE IF cur.t = "for" /\ cur.k[1] = Null THEN Front(a) \o <<[cur EXCEPT !.k[1] = Last(a)]>>
    ELSE IF cur.t = "for" /\ cur.k[1].t = "var" THEN Front(a) \o <<[cur EXCEPT !.k[1] = VarOf(Last(a).k \o @.k)]>>
    ELSE Append(a, cur), <<>>, list)
tighten_body(list, where) ==
  LET s1 == eliminate_spurious_blocks(list)
      s2 == eliminate_dead_code(s1, where)
      s3 == FoldRight(LAMBDA stat, ret : handle_if_return(stat, ret, where), s2, <<>>)
      s4 == IF Len(s3) < 2 THEN s3 ELSE sequencesize_2(sequencesize(s3))
      s5 == join_consecutive_vars(s4)
      CHANGED == s5 # s4 \/ (IF Len(s3) >= 2 THEN Len(s4) # Len(s3) ELSE s3 # s2 \/ Len(s2) # Len(s1))
  IN IF CHANGED THEN tighten_body(s5, where) ELSE s5
-----------------------------------------------------------------------------
Own == {"x", "y"}
RECURSIVE Names(_)
Names(n) == (IF n.t = "name" THEN {n.v} ELSE {}) \cup UNION {Names(n.k[i]) : i \in DOMAIN n.k}
\* The names used, but in values of variables that do nothing.
RECURSIVE Uses(_)
Uses(n) == IF n.t = "def" /\ ~has_side_effects(n.k[1]) THEN {} ELSE (IF n.t = "name" THEN {n.v} ELSE {}) \cup UNION {Uses(n.k[i]) : i \in DOMAIN n.k}
\* The names in the values of the variables in s.
RECURSIVE Inits(_, _)
Inits(n, s) == (IF n.t = "def" /\ n.v \in s THEN Names(n) ELSE {}) \cup UNION {Inits(n.k[i], s) : i \in DOMAIN n.k}
in_use(list) == LET u == Uses(Block(list))   v == u \cup Inits(Block(list), u) IN v \cup Inits(Block(list), v)

\* What is left of a var statement.
DropDefs(defs, used) ==
  LET kept == SelectSeq(defs, LAMBDA d : d.v \in used \/ has_side_effects(d.k[1]))
      sorted == SelectSeq(kept, LAMBDA d : d.k[1] = Null) \o SelectSeq(kept, LAMBDA d : d.k[1] # Null)
      r == FoldLeft(LAMBDA a, d : IF d.v \notin used THEN [a EXCEPT !.effects = Append(@, d.k[1])]
                                  ELSE [defs |-> Append(a.defs, IF a.effects = <<>> THEN d ELSE Def(d.v, from_array(Append(a.effects, d.k[1])))), effects |-> <<>>],
                    [defs |-> <<>>, effects |-> <<>>], sorted)
      rest == Stat(from_array(r.effects))
  IN IF r.effects = <<>> THEN IF r.defs = <<>> THEN Empty ELSE VarOf(r.defs)
     ELSE IF r.defs = <<>> THEN Block(<<rest>>) ELSE Block(<<VarOf(r.defs), rest>>)
RECURSIVE Dropped(_, _)
Dropped(n, used) ==
  CASE n.t = "var" -> DropDefs(n.k, used)
    [] n.t = "defun" /\ n.v \notin used -> Empty
    [] n.t = "for" /\ n.k[1].t = "block" -> Block(Front(n.k[1].k) \o <<[n EXCEPT !.k[1] = Last(@.k).k[1], !.k[4] = Dropped(@, used)]>>)
    [] OTHER -> [n EXCEPT !.k = Each(n.k, LAMBDA e : Dropped(e, used))]
drop_unused(list) == LET used == in_use(list) IN Each(list, LAMBDA e : Dropped(e, used))

\* hoist_declarations: functions first, and where it is asked for the variables too.
to_assignments(defs) ==
  LET valued == SelectSeq(defs, LAMBDA d : d.k[1] # Null) IN
  IF valued = <<>> THEN Null ELSE from_array(Each(valued, LAMBDA d : Assign("=", NameOf(d.v), d.k[1])))
RECURSIVE VarsOf(_)
VarsOf(n) == IF n.t = "var" THEN <<n>> ELSE FlattenSeq([i \in DOMAIN n.k |-> VarsOf(n.k[i])])
RECURSIVE FunsOf(_)
FunsOf(n) == IF n.t = "defun" THEN <<n>> ELSE FlattenSeq([i \in DOMAIN n.k |-> FunsOf(n.k[i])])
RECURSIVE Unhoisted(_, _)
Unhoisted(n, vars) ==
  LET seq == to_assignments(n.k) IN
  CASE n.t = "defun" -> Empty
    [] n.t = "var" /\ vars -> IF seq = Null THEN Empty ELSE Stat(seq)
    [] n.t = "for" /\ n.k[1].t = "var" /\ vars -> [n EXCEPT !.k[1] = to_assignments(@.k), !.k[4] = Unhoisted(@, vars)]
    [] OTHER -> [n EXCEPT !.k = Each(n.k, LAMBDA e : Unhoisted(e, vars))]
\* The assignments a body begins with become the values of the variables: <<defs, body>>.
RECURSIVE Pulled(_, _)
Pulled(defs, body) ==
  LET first == IF body = <<>> THEN Null ELSE body[1]
      car == IF first.t # "stat" THEN Null ELSE IF first.k[1].t = "seq" THEN first.k[1].k[1] ELSE first.k[1]
      name == IF car.t = "assign" /\ car.v = "=" THEN car.k[1].v ELSE ""
      free == \E i \in DOMAIN defs : defs[i].v = name /\ defs[i].k[1] = Null
      rest == IF first.t = "stat" /\ first.k[1].t = "seq" THEN <<Stat(first.k[1].k[2])>> ELSE <<>>
  IN IF free THEN Pulled(SelectSeq(defs, LAMBDA d : d.v # name) \o <<Def(name, car.k[2])>>, rest \o Tail(body))
     ELSE IF first = Empty THEN Pulled(defs, Tail(body))
     ELSE IF first.t = "block" THEN Pulled(defs, first.k \o Tail(body))
     ELSE <<defs, body>>
hoist_declarations(list) ==
  LET vars == VarsOf(Block(list))
      all == FlattenSeq([i \in DOMAIN vars |-> vars[i].k])
      names == FoldLeft(LAMBDA a, d : IF Contains(a, d.v) THEN a ELSE Append(a, d.v), <<>>, all)
      hoisting == hoist_vars /\ Len(vars) > 1
      body == Each(list, LAMBDA e : Unhoisted(e, hoisting))
      p == Pulled(Each(names, LAMBDA x : Def(x, Null)), body)
  IN FunsOf(Block(list)) \o (IF hoisting /\ names # <<>> THEN <<VarOf(p[1])>> \o p[2] ELSE body)

compress(list) ==
  LET ready == hoist_declarations(drop_unused(list)) IN
  drop_unused(tighten_body(Each(ready, LAMBDA e : transform(e, Plain)), "lambda"))
-----------------------------------------------------------------------------
RECURSIVE Calls(_)
Calls(n) == n.t = "call" \/ \E i \in DOMAIN n.k : Calls(n.k[i])
\* What the code is known to get wrong: where only the truth counts, a call is lost beside a
\* constant that decides, and so is the operand of typeof; and a head of a for that declares
\* what is not used leaves a statement there, which is no program.
RECURSIVE Lossy(_)
Lossy(n) ==
  \/ IsBinary(n, {"&&", "||"}) /\ _eval(n.k[2]) # <<>> /\ Calls(n.k[1])
  \/ IsBinary(n, {"+"}) /\ \E i \in 1 .. 2 : n.k[i].t = "str" /\ Calls(n.k[3 - i])
  \/ IsUnary(n, {"typeof"}) /\ Calls(n)
  \/ n.t = "for" /\ n.k[1].t = "var" /\ \E i \in DOMAIN n.k[1].k : n.k[1].k[i].v \notin Names(n.k[2])
  \/ \E i \in DOMAIN n.k : Lossy(n.k[i])

\* The compressed function does what the function did: the same calls in the same order,
\* the same variables, the same end, in every world.
CompressedDoesSame == Lossy(Block(program)) \/ SameDoing(program, compress(program))

\* A variable of the function's own that is used after compression is still declared in it,
\* so that no use becomes one of a global variable.
OwnStayOwn ==
  LET q == Block(compress(program)) IN
  \A v \in Own : v \in Names(q) /\ <<"def", v>> \in Declared(Block(program)) => <<"def", v>> \in Declared(q)
=============================================================================
