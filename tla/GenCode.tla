------------------------------- MODULE GenCode -------------------------------
(***************************************************************************)
(* gen_code of UglifyJS 1 (html/jquery-require-sample/r.js, define         *)
(* 'uglifyjs/process'), without beautify: the tree of a program written out*)
(* as code.  Code is the tokens a scanner finds in it.  Text put together  *)
(* with + runs into the next text (Glue); add_spaces keeps words and signs *)
(* apart, so what it joins are the tokens one after the other.             *)
(*                                                                         *)
(* lead says that the node is the first thing of its statement, which the  *)
(* code finds out by climbing the walker's stack.                          *)
(***************************************************************************)
EXTENDS JsSource

RECURSIVE make(_, _), HasCall(_), must_has_semicolon(_), make_block_statements(_, _, _), Commas(_), DanglingIf(_)

LOCAL PRECEDENCE(op) ==
  CASE op = "||" -> 1
    [] op = "&&" -> 2
    [] op = "|" -> 3
    [] op = "^" -> 4
    [] op = "&" -> 5
    [] op \in {"==", "===", "!=", "!=="} -> 6
    [] op \in {"<", ">", "<=", ">=", "in", "instanceof"} -> 7
    [] op \in {">>", "<<", ">>>"} -> 8
    [] op \in {"+", "-"} -> 9
    [] op \in {"*", "/", "%"} -> 10

DOT_CALL_NO_PARENS == {"name", "array", "object", "string", "dot", "sub", "call", "regexp", "defun"}

NoSemicolons(x) == IF x # <<>> /\ x[Len(x)] = Sym(";") THEN SubSeq(x, 1, Len(x) - 1) ELSE x

parenthesize(n, lead, types) == IF n.t \in types THEN Parens(make(n, lead)) ELSE make(n, lead)

\* add_commas, over elements whose sequences are put in parentheses.
Commas(ns) ==
  IF ns = <<>> THEN <<>>
  ELSE parenthesize(ns[1], FALSE, {"seq"}) \o (IF Len(ns) = 1 THEN <<>> ELSE S(",") \o Commas(Tail(ns)))

\* Asked by a node about its first child; lead is the node's own.
needs_parens(n, lead) == IF n.t \in {"function", "object"} THEN lead ELSE n.t \notin DOT_CALL_NO_PARENS

\* A call inside what is called with new, functions left out.
HasCall(n) == n.t = "call" \/ (n.t # "function" /\ \E i \in DOMAIN n.k : HasCall(n.k[i]))

NewCode(n) ==
  LET ctor == n.k[1]
      f == IF ctor.t \in {"seq", "binary", "conditional", "assign"} \/ HasCall(ctor)
           THEN Parens(make(ctor, FALSE)) ELSE make(ctor, FALSE)
  IN S("new") \o f \o (IF Len(n.k) = 1 THEN <<>> ELSE Parens(Commas(Tail(n.k))))

ConditionalCode(n, lead) ==
  parenthesize(n.k[1], lead, {"assign", "seq", "conditional"}) \o S("?") \o parenthesize(n.k[2], FALSE, {"seq"})
    \o S(":") \o parenthesize(n.k[3], FALSE, {"seq"})

AssignCode(n, lead) == make(n.k[1], lead) \o S(n.v) \o parenthesize(n.k[2], FALSE, {"seq"})

DotCode(n, lead) ==
  LET expr == n.k[1]
      out == make(expr, lead)
      base == IF expr.t = "num" THEN Glue(out, S("."))
              ELSE IF expr.t # "function" /\ needs_parens(expr, lead) THEN Parens(out) ELSE out
  IN base \o <<Sym("."), Name(n.v)>>

CallCode(n, lead) ==
  LET f == make(n.k[1], lead)
      func == IF f[1] # Sym("(") /\ needs_parens(n.k[1], lead) THEN Parens(f) ELSE f
  IN func \o Parens(Commas(Tail(n.k)))

\* needs_parens(this) on the operator itself answers that it does.
BinaryCode(n, lead) ==
  LET op == n.v
      l == n.k[1]
      r == n.k[2]
      loose == {"assign", "conditional", "seq"}
      left == l.t \in loose \/ (l.t = "binary" /\ PRECEDENCE(op) > PRECEDENCE(l.v)) \/ (l.t = "function" /\ needs_parens(n, lead))
      right == r.t \in loose \/ (r.t = "binary" /\ PRECEDENCE(op) >= PRECEDENCE(r.v)
                                 /\ ~(r.v = op /\ op \in {"&&", "||", "*"}))
  IN (IF left THEN Parens(make(l, lead)) ELSE make(l, lead)) \o S(op)
     \o (IF right THEN Parens(make(r, FALSE)) ELSE make(r, FALSE))

\* operator + expr[1] is an operator: -- and ++ from two signs.
Doubled(op, n) == op = n.v /\ op \in {"+", "-"}
UnaryCode(n, lead) ==
  LET e == n.k[1]
      val == make(e, n.t = "unary-postfix" /\ lead)
      bare == e.t = "num" \/ (e.t = n.t /\ ~Doubled(n.v, e)) \/ ~needs_parens(e, lead)
      code == IF bare THEN val ELSE Parens(val)
  IN IF n.t = "unary-postfix" THEN Glue(code, S(n.v))
     ELSE IF n.v \in Words THEN S(n.v) \o code ELSE Glue(S(n.v), code)

SubCode(n, lead) ==
  LET hash == make(n.k[1], lead)
  IN (IF needs_parens(n.k[1], lead) THEN Parens(hash) ELSE hash) \o S("[") \o make(n.k[2], FALSE) \o S("]")

\* Statements in braces.
make_block(ns) == S("{") \o make_block_statements(ns, 1, <<>>) \o S("}")

make_function(n, keyword, no_parens, lead) ==
  LET name == IF n.v = "" THEN <<>> ELSE <<Name(n.v)>>
      code == keyword \o name \o Parens(Commas(n.k[1].k)) \o make_block(n.k[2].k)
  IN IF ~no_parens /\ n.t = "function" /\ lead THEN Parens(code) ELSE code

PropertyCode(p) ==
  IF p.t = "prop" THEN <<Key(p.v)>> \o S(":") \o parenthesize(p.k[1], FALSE, {"seq"})
  ELSE make_function([p.k[1] EXCEPT !.v = p.v], <<Name(p.t)>>, TRUE, FALSE)
RECURSIVE Properties(_)
Properties(ps) ==
  IF ps = <<>> THEN <<>>
  ELSE PropertyCode(ps[1]) \o (IF Len(ps) = 1 THEN <<>> ELSE S(",") \o Properties(Tail(ps)))
ObjectCode(n, lead) == LET out == S("{") \o Properties(n.k) \o S("}") IN IF lead THEN Parens(out) ELSE out

\* A hole is nothing between two commas, and a comma more at the end.
RECURSIVE Elements(_)
Elements(ns) ==
  LET el == IF ns[1] # Null THEN parenthesize(ns[1], FALSE, {"seq"}) ELSE IF Len(ns) = 1 THEN S(",") ELSE <<>>
  IN IF Len(ns) = 1 THEN el ELSE el \o S(",") \o Elements(Tail(ns))
ArrayCode(n) == S("[") \o (IF n.k = <<>> THEN <<>> ELSE Elements(n.k)) \o S("]")
-----------------------------------------------------------------------------
make_1vardef(d) ==
  <<Name(d.v)>> \o (IF d.k = <<>> THEN <<>> ELSE S("=") \o parenthesize(d.k[1], FALSE, {"seq"}))
RECURSIVE Vardefs(_)
Vardefs(ds) == make_1vardef(ds[1]) \o (IF Len(ds) = 1 THEN <<>> ELSE S(",") \o Vardefs(Tail(ds)))

\* The else would go to an if inside that has none.
DanglingIf(b) ==
  CASE b.t = "if" -> b.k[3] = Null \/ DanglingIf(b.k[3])
    [] b.t \in {"while", "do"} -> DanglingIf(b.k[2])
    [] b.t = "for" -> DanglingIf(b.k[4])
    [] b.t = "for-in" -> DanglingIf(b.k[3])
    [] OTHER -> FALSE
make_then(n) == IF n.t = "do" \/ DanglingIf(n) THEN make_block(<<n>>) ELSE make(n, FALSE)

IfCode(n) ==
  S("if") \o Parens(make(n.k[1], FALSE)) \o
  (IF n.k[3] = Null THEN make(n.k[2], FALSE) ELSE make_then(n.k[2]) \o S("else") \o make(n.k[3], FALSE))

ForCode(n) ==
  LET part(x) == IF x = Null THEN <<>> ELSE NoSemicolons(make(x, FALSE))
  IN S("for") \o Parens(part(n.k[1]) \o S(";") \o part(n.k[2]) \o S(";") \o part(n.k[3])) \o make(n.k[4], FALSE)

ForInCode(n) ==
  S("for") \o Parens(NoSemicolons(make(n.k[1], FALSE)) \o S("in") \o make(n.k[2], FALSE)) \o make(n.k[3], FALSE)

LoopCode(n) ==
  LET head == S(IF n.t = "do" THEN "while" ELSE n.t) \o Parens(make(n.k[1], FALSE))
      body == make(n.k[2], FALSE)
  IN IF n.t = "do" THEN S("do") \o body \o head \o S(";") ELSE head \o body

TryCode(n) ==
  S("try") \o make_block(n.k[1].k)
    \o (IF n.k[2] = Null THEN <<>> ELSE S("catch") \o Parens(<<Name(n.k[2].v)>>) \o make_block(n.k[2].k))
    \o (IF n.k[3] = Null THEN <<>> ELSE S("finally") \o make_block(n.k[3].k))

ExitCode(n) == S(n.t) \o (IF n.k[1] = Null THEN <<>> ELSE make(n.k[1], FALSE)) \o S(";")
JumpCode(n) == S(n.t) \o (IF n.v = "" THEN <<>> ELSE <<Name(n.v)>>) \o S(";")

RECURSIVE Branches(_)
make_switch_block(branches) == S("{") \o Branches(branches) \o S("}")
Branches(bs) ==
  IF bs = <<>> THEN <<>>
  ELSE LET b == bs[1]
           head == IF b.k[1] = Null THEN S("default") ELSE S("case") \o make(b.k[1], FALSE)
           body == make_block_statements(Tail(b.k), 1, <<>>)
       IN head \o S(":") \o body \o (IF Len(b.k) > 1 /\ Len(bs) > 1 THEN S(";") ELSE <<>>) \o Branches(Tail(bs))

empty(n) == n.t = "empty" \/ (n.t = "block" /\ n.k = <<>>)

must_has_semicolon(n) ==
  CASE n.t \in {"with", "while"} -> empty(n.k[2]) \/ must_has_semicolon(n.k[2])
    [] n.t = "for" -> empty(n.k[4]) \/ must_has_semicolon(n.k[4])
    [] n.t = "for-in" -> empty(n.k[3]) \/ must_has_semicolon(n.k[3])
    [] n.t = "if" -> IF n.k[3] # Null THEN empty(n.k[3]) \/ must_has_semicolon(n.k[3])
                     ELSE empty(n.k[2]) \/ must_has_semicolon(n.k[2])
    [] n.t = "directive" -> TRUE
    [] OTHER -> FALSE

\* Empty statements go; the last statement loses its semicolon if it may.
make_block_statements(ns, i, acc) ==
  IF i > Len(ns) THEN acc
  ELSE LET code == make(ns[i], FALSE)
           bare == IF i = Len(ns) /\ ~must_has_semicolon(ns[i]) THEN NoSemicolons(code) ELSE code
       IN make_block_statements(ns, i + 1, IF code = S(";") THEN acc ELSE acc \o bare)

make(n, lead) ==
  CASE n.t = "name" -> <<IF n.v = "this" THEN Sym("this") ELSE Name(n.v)>>
    [] n.t = "num" -> <<Num(n.v)>>
    [] n.t = "string" -> <<Str(n.v)>>
    [] n.t = "new" -> NewCode(n)
    [] n.t = "conditional" -> ConditionalCode(n, lead)
    [] n.t = "assign" -> AssignCode(n, lead)
    [] n.t = "dot" -> DotCode(n, lead)
    [] n.t = "call" -> CallCode(n, lead)
    [] n.t = "binary" -> BinaryCode(n, lead)
    [] n.t \in {"unary-prefix", "unary-postfix"} -> UnaryCode(n, lead)
    [] n.t = "sub" -> SubCode(n, lead)
    [] n.t \in {"function", "defun"} -> make_function(n, S("function"), FALSE, lead)
    [] n.t = "object" -> ObjectCode(n, lead)
    [] n.t = "array" -> ArrayCode(n)
    [] n.t = "seq" -> make(n.k[1], lead) \o S(",") \o make(n.k[2], FALSE)
    [] n.t = "toplevel" -> make_block_statements(n.k, 1, <<>>)
    [] n.t = "block" -> make_block(n.k)
    [] n.t \in {"var", "const"} -> S(n.t) \o Vardefs(n.k) \o S(";")
    [] n.t = "try" -> TryCode(n)
    [] n.t \in {"throw", "return"} -> ExitCode(n)
    [] n.t = "switch" -> S("switch") \o Parens(make(n.k[1], FALSE)) \o make_switch_block(Tail(n.k))
    [] n.t \in {"break", "continue"} -> JumpCode(n)
    [] n.t = "if" -> IfCode(n)
    [] n.t = "for" -> ForCode(n)
    [] n.t = "for-in" -> ForInCode(n)
    [] n.t \in {"while", "do", "with"} -> LoopCode(n)
    [] n.t = "stat" -> NoSemicolons(make(n.k[1], TRUE)) \o S(";")
    [] n.t = "label" -> <<Name(n.v)>> \o S(":") \o make(n.k[1], FALSE)
    [] n.t = "directive" -> <<Str(n.v)>> \o S(";")
    [] n.t = "debugger" -> <<Sym("debugger"), Sym(";")>>
    [] n.t = "empty" -> S(";")
=============================================================================
