----------------------------- MODULE Uglify2Print ----------------------------
(***************************************************************************)
(* The code generator of UglifyJS 2 (html/jquery-require-sample/r.js,      *)
(* define 'uglifyjs2'), without beautify and bracketize.  Codegen(n, lead) *)
(* is the list of calls that the DEFPRINT generator of a node makes on the *)
(* stream: a token to print, a space or a semicolon that the next token    *)
(* may need, a semicolon that is written.  Output(calls) is the stream.    *)
(* lead is first_in_statement of the node.                                 *)
(***************************************************************************)
EXTENDS JsSource

RECURSIVE Codegen(_, _), HasCall(_), HasIn(_), DanglingElse(_), print_node(_, _, _), Stream(_, _)

LOCAL PRECEDENCE(op) ==
  CASE op = "||" -> 1
    [] op = "&&" -> 2
    [] op = "|" -> 3
    [] op = "^" -> 4
    [] op = "&" -> 5
    [] op \in {"==", "===", "!=", "!=="} -> 6
    [] op \in {"<", ">", "<=", ">=", "in", "instanceof"} -> 7
    [] op \in {">>", "<<", ">>>"} -> 8
    [] op \in {"+", "-"} -> 9
    [] op \in {"*", "/", "%"} -> 10
    [] OTHER -> 0                    \* an assignment: no comparison holds

space           == <<[t |-> "space"]>>
semicolon       == <<[t |-> "semicolon"]>>
force_semicolon == <<[t |-> "force"]>>
end             == <<[t |-> "end"]>>
comma == S(",") \o space
colon == S(":") \o space

\* print: the semicolon that is due, then the space, then the token.
PrintToken(o, k) ==
  LET last == o.out[Len(o.out)]
      owed == o.semicolon /\ k \notin {Sym(";"), Sym("}")} /\ last # Sym(";")
      asked == o.space /\ ~owed
      apart == asked /\ o.out # <<>> /\ ((Word(last) /\ Word(k)) \/ SameSign(last, k))
      out == IF owed THEN o.out \o S(";") ELSE o.out
  IN [out |-> IF apart THEN out \o <<k>> ELSE Glue(out, <<k>>), space |-> FALSE, semicolon |-> FALSE]

Stream(o, calls) ==
  IF calls = <<>> THEN o.out
  ELSE LET k == calls[1] IN
       Stream(CASE k.t = "space" -> [o EXCEPT !.space = TRUE]
                [] k.t = "semicolon" -> [o EXCEPT !.semicolon = TRUE]
                [] k.t = "force" -> PrintToken([o EXCEPT !.semicolon = FALSE], Sym(";"))
                [] k.t = "end" -> [o EXCEPT !.out = IF o.semicolon /\ o.out[Len(o.out)] # Sym(";")
                                                    THEN o.out \o S(";") ELSE o.out]
                [] OTHER -> PrintToken(o, k),
              Tail(calls))
Output(calls) == Stream([out |-> <<>>, space |-> FALSE, semicolon |-> FALSE], calls)
-----------------------------------------------------------------------------
(* The rules for parentheses.                                              *)

IsCall(n)  == n.t \in {"call", "new"}
HasCall(n) == IsCall(n) \/ \E i \in DOMAIN n.k : HasCall(n.k[i])
HasIn(n)   == (n.t = "binary" /\ n.v = "in") \/ \E i \in DOMAIN n.k : HasIn(n.k[i])

IsUnary(n)      == n.t \in {"unary-prefix", "unary-postfix"}
IsPropAccess(n) == n.t \in {"dot", "sub"}
no_constructor_parens(n) == Len(n.k) = 1

BinaryParens(n, p, i) ==
  \/ IsUnary(p)
  \/ (IsCall(p) \/ IsPropAccess(p)) /\ i = 1
  \/ p.t = "binary" /\ (PRECEDENCE(p.v) > PRECEDENCE(n.v)
       \/ (PRECEDENCE(p.v) = PRECEDENCE(n.v) /\ i = 2 /\ ~(n.v = p.v /\ n.v \in {"*", "&&", "||"})))

assign_and_conditional_paren_rules(p, i) ==
  \/ IsUnary(p) \/ p.t = "binary"
  \/ (IsCall(p) \/ p.t = "conditional" \/ IsPropAccess(p)) /\ i = 1

\* n is the i-th child of p.
needs_parens(n, p, i, lead) ==
  CASE n.t \in {"function", "object"} -> lead
    [] IsUnary(n) -> IsPropAccess(p) /\ i = 1
    [] n.t = "seq" -> IsCall(p) \/ IsUnary(p) \/ p.t \in {"binary", "assign", "def", "dot", "array", "prop", "conditional"}
    [] n.t = "binary" -> BinaryParens(n, p, i)
    [] IsPropAccess(n) -> p.t = "new" /\ i = 1 /\ HasCall(n)
    [] n.t = "call" -> p.t = "new" /\ i = 1
    [] n.t = "new" -> no_constructor_parens(n) /\ (p.t = "dot" \/ (IsCall(p) /\ i = 1))
    [] n.t \in {"assign", "conditional"} -> assign_and_conditional_paren_rules(p, i)
    [] OTHER -> FALSE

\* The i-th child of p; lead of p is passed on to its first operand.
LeadTypes == {"seq", "call", "new", "dot", "sub", "conditional", "binary", "assign", "unary-postfix"}
print_node(p, i, lead) ==
  LET n == p.k[i]
      first == p.t = "stat" \/ (lead /\ i = 1 /\ p.t \in LeadTypes)
  IN IF needs_parens(n, p, i, first) THEN Parens(Codegen(n, first)) ELSE Codegen(n, first)
-----------------------------------------------------------------------------
(* The generators.                                                         *)

RECURSIVE Printed(_, _), display_body(_, _), Definitions(_, _), Branches(_)
\* The children of p from the i-th on, commas between them.
Printed(p, i) ==
  IF i > Len(p.k) THEN <<>>
  ELSE (IF p.k[i] = Null THEN <<>> ELSE print_node(p, i, FALSE)) \o (IF i = Len(p.k) THEN <<>> ELSE comma) \o Printed(p, i + 1)

\* The statements of a body; empty ones are left out.
display_body(p, i) ==
  IF i > Len(p.k) THEN <<>>
  ELSE (IF p.k[i].t = "empty" THEN <<>> ELSE Codegen(p.k[i], FALSE)) \o display_body(p, i + 1)
print_bracketed(p, i) == S("{") \o display_body(p, i) \o S("}")

force_statement(n) == IF n.t = "empty" THEN force_semicolon ELSE Codegen(n, FALSE)
make_block(n) == IF n.t = "block" THEN Codegen(n, FALSE) ELSE S("{") \o Codegen(n, FALSE) \o S("}")

DanglingElse(b) ==
  CASE b.t = "if" -> b.k[3] = Null \/ DanglingElse(b.k[3])
    [] b.t \in {"while", "do", "with"} -> DanglingElse(b.k[2])
    [] b.t = "label" -> DanglingElse(b.k[1])
    [] b.t = "for" -> DanglingElse(b.k[4])
    [] b.t = "for-in" -> DanglingElse(b.k[3])
    [] OTHER -> FALSE

make_then(n) == IF n.t = "do" \/ DanglingElse(n) THEN make_block(n) ELSE force_statement(n)

ParenPrint(p, i) == Parens(print_node(p, i, FALSE))

DoCode(n) == S("do") \o space \o force_statement(n.k[2]) \o space \o S("while") \o space \o ParenPrint(n, 1) \o semicolon
WhileCode(n) == S(n.t) \o space \o ParenPrint(n, 1) \o space \o force_statement(n.k[2])

parenthesize_for_noin(p, i) == IF HasIn(p.k[i]) THEN Parens(Codegen(p.k[i], FALSE)) ELSE print_node(p, i, FALSE)

VarDef(d, noin) ==
  <<Name(d.v)>> \o (IF d.k = <<>> THEN <<>>
                    ELSE space \o S("=") \o space \o (IF noin THEN parenthesize_for_noin(d, 1) ELSE print_node(d, 1, FALSE)))
Definitions(n, noin) ==
  S(n.t) \o space \o
  (LET RECURSIVE Rest(_)
       Rest(i) == VarDef(n.k[i], noin) \o (IF i = Len(n.k) THEN <<>> ELSE comma \o Rest(i + 1))
   IN Rest(1))

ForCode(n) ==
  LET init == IF n.k[1] = Null THEN S(";")
              ELSE (IF n.k[1].t \in {"var", "const"} THEN Definitions(n.k[1], TRUE) ELSE parenthesize_for_noin(n, 1)) \o S(";") \o space
      test == IF n.k[2] = Null THEN S(";") ELSE print_node(n, 2, FALSE) \o S(";") \o space
      step == IF n.k[3] = Null THEN <<>> ELSE print_node(n, 3, FALSE)
  IN S("for") \o space \o Parens(init \o test \o step) \o space \o force_statement(n.k[4])

ForInCode(n) ==
  LET init == IF n.k[1].t \in {"var", "const"} THEN Definitions(n.k[1], TRUE) ELSE print_node(n, 1, FALSE)
  IN S("for") \o space \o Parens(init \o space \o S("in") \o space \o print_node(n, 2, FALSE)) \o space \o force_statement(n.k[3])

\* _do_print of AST_Lambda, the keyword given.
LambdaCode(n, keyword) ==
  keyword \o (IF n.v = "" THEN <<>> ELSE space \o <<Name(n.v)>>) \o Parens(Printed(n.k[1], 1)) \o space \o print_bracketed(n.k[2], 1)

ExitCode(n) == S(n.t) \o (IF n.k[1] = Null THEN <<>> ELSE space \o print_node(n, 1, FALSE)) \o semicolon
LoopControlCode(n) == S(n.t) \o (IF n.v = "" THEN <<>> ELSE space \o <<Name(n.v)>>) \o semicolon

IfCode(n) ==
  S("if") \o space \o ParenPrint(n, 1) \o space \o
  (IF n.k[3] = Null THEN force_statement(n.k[2])
   ELSE make_then(n.k[2]) \o space \o S("else") \o space \o force_statement(n.k[3]))

\* The statements of a branch; empty ones are printed too.
BranchCode(b) ==
  LET RECURSIVE Body(_)
      Body(i) == IF i > Len(b.k) THEN <<>> ELSE Codegen(b.k[i], FALSE) \o Body(i + 1)
  IN (IF b.k[1] = Null THEN S("default") ELSE S("case") \o space \o print_node(b, 1, FALSE)) \o S(":") \o Body(2)
Branches(bs) == IF bs = <<>> THEN <<>> ELSE BranchCode(bs[1]) \o Branches(Tail(bs))
SwitchCode(n) == S("switch") \o space \o ParenPrint(n, 1) \o space \o S("{") \o Branches(Tail(n.k)) \o S("}")

TryCode(n) ==
  S("try") \o space \o print_bracketed(n.k[1], 1)
    \o (IF n.k[2] = Null THEN <<>>
        ELSE space \o S("catch") \o space \o Parens(<<Name(n.k[2].v)>>) \o space \o print_bracketed(n.k[2], 1))
    \o (IF n.k[3] = Null THEN <<>> ELSE space \o S("finally") \o space \o print_bracketed(n.k[3], 1))

CallCode(n, lead) == print_node(n, 1, lead) \o (IF n.t = "new" /\ no_constructor_parens(n) THEN <<>> ELSE Parens(Printed(n, 2)))

DotCode(n, lead) == print_node(n, 1, lead) \o (IF n.k[1].t = "num" THEN S(".") ELSE <<>>) \o <<Sym("."), Name(n.v)>>

UnaryCode(n, lead) ==
  IF n.t = "unary-postfix" THEN print_node(n, 1, lead) \o S(n.v)
  ELSE S(n.v) \o (IF n.v \in Words THEN space ELSE <<>>) \o print_node(n, 1, FALSE)

BinaryCode(n, lead) == print_node(n, 1, lead) \o space \o S(n.v) \o space \o print_node(n, 2, FALSE)

ConditionalCode(n, lead) ==
  print_node(n, 1, lead) \o space \o S("?") \o space \o print_node(n, 2, FALSE) \o space \o colon \o print_node(n, 3, FALSE)

RECURSIVE Properties(_)
PropertyCode(p) ==
  IF p.t = "prop" THEN <<Key(p.v)>> \o colon \o print_node(p, 1, FALSE) ELSE LambdaCode([p.k[1] EXCEPT !.v = p.v], <<Name(p.t)>>)
Properties(ps) ==
  IF ps = <<>> THEN <<>> ELSE PropertyCode(ps[1]) \o (IF Len(ps) = 1 THEN <<>> ELSE S(",") \o Properties(Tail(ps)))

Codegen(n, lead) ==
  CASE n.t = "name" -> <<IF n.v = "this" THEN Sym("this") ELSE Name(n.v)>>
    [] n.t = "num" -> <<Num(n.v)>>
    [] n.t = "string" -> <<Str(n.v)>>
    [] n.t = "directive" -> <<Str(n.v)>> \o semicolon
    [] n.t = "debugger" -> S("debugger") \o semicolon
    [] n.t = "toplevel" -> display_body(n, 1) \o end
    [] n.t = "label" -> <<Name(n.v)>> \o colon \o Codegen(n.k[1], FALSE)
    [] n.t = "stat" -> print_node(n, 1, TRUE) \o semicolon
    [] n.t = "block" -> print_bracketed(n, 1)
    [] n.t = "empty" -> semicolon
    [] n.t = "do" -> DoCode(n)
    [] n.t \in {"while", "with"} -> WhileCode(n)
    [] n.t = "for" -> ForCode(n)
    [] n.t = "for-in" -> ForInCode(n)
    [] n.t \in {"function", "defun"} -> LambdaCode(n, S("function"))
    [] n.t \in {"return", "throw"} -> ExitCode(n)
    [] n.t \in {"break", "continue"} -> LoopControlCode(n)
    [] n.t = "if" -> IfCode(n)
    [] n.t = "switch" -> SwitchCode(n)
    [] n.t = "try" -> TryCode(n)
    [] n.t \in {"var", "const"} -> Definitions(n, FALSE) \o semicolon
    [] n.t = "call" -> CallCode(n, lead)
    [] n.t = "new" -> S("new") \o space \o CallCode(n, lead)
    [] n.t = "seq" -> print_node(n, 1, lead) \o comma \o print_node(n, 2, FALSE)
    [] n.t = "dot" -> DotCode(n, lead)
    [] n.t = "sub" -> print_node(n, 1, lead) \o S("[") \o print_node(n, 2, FALSE) \o S("]")
    [] IsUnary(n) -> UnaryCode(n, lead)
    [] n.t \in {"binary", "assign"} -> BinaryCode(n, lead)
    [] n.t = "conditional" -> ConditionalCode(n, lead)
    [] n.t = "array" -> S("[") \o Printed(n, 1) \o S("]")
    [] n.t = "object" -> S("{") \o Properties(n.k) \o S("}")
=============================================================================
