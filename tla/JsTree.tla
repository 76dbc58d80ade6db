------------------------------- MODULE JsTree -------------------------------
(***************************************************************************)
(* Trees of small JavaScript programs and what they do: what the two       *)
(* minifiers of html/jquery-require-sample/r.js transform and must not     *)
(* change.                                                                 *)
(*                                                                         *)
(* A node has a type t, a word v (an operator, a name, a literal) and      *)
(* children k.  A program is the list of statements of a function whose    *)
(* variables are a and b, of outer functions, and x and y, its own.  f( ) and    *)
(* g( ) are calls that leave a trace; g exchanges 0 and 1 in a.            *)
(***************************************************************************)
EXTENDS Integers, Sequences, SequencesExt

Each(list, Op(_)) == <<>> \o [i \in DOMAIN list |-> Op(list[i])]
N(t, v, k) == [t |-> t, v |-> v, k |-> k]
Null       == N("null", "", <<>>)
Leaf(t, v) == N(t, v, <<>>)
Empty      == Leaf("empty", "")

NumOf(v)       == Leaf("num", v)
NameOf(v)      == Leaf("name", v)
CallOf(v)      == Leaf("call", v)
TrueOf         == Leaf("atom", "true")
FalseOf        == Leaf("atom", "false")
Unary(op, e)   == N("unary", op, <<e>>)
Not(e)         == Unary("!", e)
Binary(op, l, r) == N("binary", op, <<l, r>>)
Cond(c, t, e)  == N("conditional", "", <<c, t, e>>)
Assign(op, l, r) == N("assign", op, <<l, r>>)
Seq2(l, r)     == N("seq", "", <<l, r>>)
Stat(e)        == N("stat", "", <<e>>)
Block(list)    == N("block", "", list)
If(c, t, e)    == N("if", "", <<c, t, e>>)
Return(e)      == N("return", "", <<e>>)
Throw(e)       == N("throw", "", <<e>>)
For(i, c, s, b) == N("for", "", <<i, c, s, b>>)
While(c, b)    == N("while", "", <<c, b>>)
Def(name, e)   == N("def", name, <<e>>)
VarOf(defs)    == N("var", "", defs)
Break          == Leaf("break", "")
Continue       == Leaf("continue", "")
-----------------------------------------------------------------------------
(* Values.                                                                 *)
Val(y, n, s) == [y |-> y, n |-> n, s |-> s]
Undef   == Val("undefined", 0, "")
NaN     == Val("nan", 0, "")
Num(n)  == Val("number", n, "")
Bool(b) == Val("boolean", IF b THEN 1 ELSE 0, "")
Str(s)  == Val("string", 0, s)

Truthy(v) == CASE v.y \in {"number", "boolean"} -> v.n # 0 [] v.y = "string" -> v.s # "" [] OTHER -> FALSE
ToNum(v)  == CASE v.y \in {"number", "boolean"} -> Num(v.n) [] v = Str("") -> Num(0) [] OTHER -> NaN
Strict(v, w) == v = w /\ v # NaN
Loose(v, w)  == IF v.y = w.y THEN Strict(v, w) ELSE IF Undef \in {v, w} THEN FALSE ELSE Strict(ToNum(v), ToNum(w))
Less(v, w)   == LET m == ToNum(v)   n == ToNum(w) IN m # NaN /\ n # NaN /\ m.n < n.n
AtMost(v, w) == LET m == ToNum(v)   n == ToNum(w) IN m # NaN /\ n # NaN /\ m.n <= n.n
Text(v) == CASE v.y = "string" -> v.s [] v.y \in {"number", "boolean"} -> ToString(<<v.y, v.n>>) [] OTHER -> v.y
Plus(v, w) ==
  IF "string" \in {v.y, w.y} THEN Str(Text(v) \o Text(w))
  ELSE LET m == ToNum(v)   n == ToNum(w) IN IF NaN \in {m, n} THEN NaN ELSE Num(m.n + n.n)
Negative(v) == LET m == ToNum(v) IN IF m = NaN THEN m ELSE Num(-m.n)
Typeof(v) == Str(IF v = NaN THEN "number" ELSE v.y)
Operate(op, v, w) ==
  CASE op = "==" -> Bool(Loose(v, w))   [] op = "!=" -> Bool(~Loose(v, w))
    [] op = "===" -> Bool(Strict(v, w)) [] op = "!==" -> Bool(~Strict(v, w))
    [] op = "<" -> Bool(Less(v, w))     [] op = "<=" -> Bool(AtMost(v, w))
    [] op = ">" -> Bool(Less(w, v))     [] op = ">=" -> Bool(AtMost(w, v))
    [] op = "+" -> Plus(v, w)
Change(op, v) ==
  CASE op = "!" -> Bool(~Truthy(v)) [] op = "-" -> Negative(v) [] op = "+" -> ToNum(v)
    [] op = "typeof" -> Typeof(v) [] op = "void" -> Undef
Literal(v) == CASE v = "0" -> Num(0) [] v = "1" -> Num(1) [] v = "2" -> Num(2) [] v = "3" -> Num(3) [] v = "4" -> Num(4) [] v = "-1" -> Num(-1)
-----------------------------------------------------------------------------
(* What a program does: s holds the variables, what f( ) returns, the calls *)
(* made, the last value, and how the last statement ended.                 *)
Rounds == 2    \* after so many a loop is left alone
Done(s, v) == [s EXCEPT !.v = v]
Ended(s, how) == [s EXCEPT !.how = how]
RECURSIVE Run(_, _)
RECURSIVE RunAll(_, _)
RECURSIVE Loop(_, _, _, _, _)
RunAll(list, s) == FoldLeft(LAMBDA r, n : IF r.how = "normal" THEN Run(n, r) ELSE r, s, list)
Loop(c, step, body, s, round) ==
  IF round > Rounds THEN Ended(s, "endless")
  ELSE LET t == IF c = Null THEN Done(s, Bool(TRUE)) ELSE Run(c, s)
           r == Run(body, t)
           again == IF step = Null THEN Ended(r, "normal") ELSE Run(step, Ended(r, "normal"))
       IN IF ~Truthy(t.v) THEN t
          ELSE IF r.how = "break" THEN Ended(r, "normal")
          ELSE IF r.how \in {"normal", "continue"} THEN Loop(c, step, body, again, round + 1)
          ELSE r
Run(n, s) ==
  CASE n.t = "num"   -> Done(s, Literal(n.v))
    [] n.t = "str"   -> Done(s, Str(n.v))
    [] n.t = "atom"  -> Done(s, Bool(n.v = "true"))
    [] n.t = "undefined" -> Done(s, Undef)
    [] n.t = "nan"   -> Done(s, NaN)
    [] n.t = "name"  -> Done(s, s.var[n.v])
    [] n.t = "call"  -> IF n.v = "f" THEN [s EXCEPT !.v = s.f, !.trace = Append(@, "f")]
                        ELSE [s EXCEPT !.v = Undef, !.trace = Append(@, "g"), !.var["a"] = Num(IF Truthy(@) THEN 0 ELSE 1)]
    [] n.t = "unary" -> LET r == Run(n.k[1], s) IN Done(r, Change(n.v, r.v))
    [] n.t = "binary" /\ n.v \in {"&&", "||"} ->
         LET l == Run(n.k[1], s) IN IF Truthy(l.v) = (n.v = "&&") THEN Run(n.k[2], l) ELSE l
    [] n.t = "binary" /\ n.v \notin {"&&", "||"} ->
         LET l == Run(n.k[1], s)   r == Run(n.k[2], l) IN Done(r, Operate(n.v, l.v, r.v))
    [] n.t = "conditional" -> LET c == Run(n.k[1], s) IN Run(n.k[IF Truthy(c.v) THEN 2 ELSE 3], c)
    [] n.t = "assign" -> LET r == Run(n.k[2], s)
                             v == IF n.v = "=" THEN r.v ELSE Plus(s.var[n.k[1].v], r.v)
                         IN [r EXCEPT !.v = v, !.var[n.k[1].v] = v]
    [] n.t = "seq"   -> Run(n.k[2], Run(n.k[1], s))
    [] n.t = "stat"  -> Run(n.k[1], s)
    [] n.t = "block" -> RunAll(n.k, s)
    [] n.t = "if"    -> LET c == Run(n.k[1], s) IN
                        IF Truthy(c.v) THEN Run(n.k[2], c) ELSE IF n.k[3] = Null THEN c ELSE Run(n.k[3], c)
    [] n.t = "return" -> Ended(IF n.k[1] = Null THEN Done(s, Undef) ELSE Run(n.k[1], s), "return")
    [] n.t = "throw" -> Ended(Run(n.k[1], s), "throw")
    [] n.t = "while" -> Loop(n.k[1], Null, n.k[2], s, 1)
    [] n.t = "for" /\ n.k[1].t \in {"empty", "stat", "block"} -> Ended(s, "unparsable")    \* printed as for(;;c;s)
    [] n.t = "for" /\ n.k[1].t \notin {"empty", "stat", "block"} -> Loop(n.k[2], n.k[3], n.k[4], IF n.k[1] = Null THEN s ELSE Run(n.k[1], s), 1)
    [] n.t = "var"   -> FoldLeft(LAMBDA r, d : IF d.k[1] = Null THEN r ELSE LET e == Run(d.k[1], r) IN [e EXCEPT !.var[d.v] = e.v], s, n.k)
    [] n.t = "break" -> Ended(s, "break")
    [] n.t = "continue" -> Ended(s, "continue")
    [] n.t \in {"empty", "null", "defun"} -> s

\* The worlds a program can run in, and what of its run others can see.
Worlds == [a : {Num(0), Num(1)}, f : {Num(0), Str("s")}]
Start(w) == [var |-> [n \in {"a", "b", "x", "y"} |-> CASE n = "a" -> w.a [] n = "b" -> Num(1) [] OTHER -> Undef],
             f |-> w.f, trace |-> <<>>, v |-> Undef, how |-> "normal"]
Seen(list, w) ==
  LET r == RunAll(list, Start(w)) IN
  [trace |-> r.trace, a |-> r.var["a"], b |-> r.var["b"],
   how |-> IF r.how = "normal" THEN "return" ELSE r.how, v |-> IF r.how \in {"return", "throw"} THEN r.v ELSE Undef]
SameDoing(p, q) == \A w \in Worlds : Seen(p, w) = Seen(q, w)

\* The variables and functions a list of statements declares.
RECURSIVE Declared(_)
Declared(n) ==
  (IF n.t \in {"def", "defun"} THEN {<<n.t, n.v>>} ELSE {}) \cup UNION {Declared(n.k[i]) : i \in DOMAIN n.k}
=============================================================================
