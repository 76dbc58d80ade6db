----------------------------- MODULE Uglify2Parse ----------------------------
(***************************************************************************)
(* The parser of UglifyJS 2 in html/jquery-require-sample/r.js (define     *)
(* 'uglifyjs2'), on tokens, without options.strict.  The record c is its   *)
(* state: whether it is in a function or a loop, the labels of the         *)
(* function, and where the body began, which in_directives depends on.     *)
(***************************************************************************)
EXTENDS JsSource, SequencesExt

-----------------------------------------------------------------------------
(* The scanner.                                                            *)
(* tokenizer of UglifyJS 2 in html/jquery-require-sample/r.js, written     *)
(* anew from that of version 1: a string may go on over a line end, which  *)
(* then counts as before it, true is an atom, a regular expression is made *)
(* and may be refused, and the columns count for the source map.           *)
KEYWORDS_BEFORE_EXPRESSION == {"return", "new", "delete", "throw", "else", "case"}
PUNC_BEFORE_EXPRESSION == {"[", "{", "(", ",", ".", ";", ":"}
PUNC_CHARS == {"[", "]", "{", "}", "(", ")", ",", ";", ":"}
OPERATOR_CHARS == {"+", "-", "*", "&", "%", "=", "<", ">", "!", "?", "|", "~", "^"}
WordOperators == {"in", "instanceof", "typeof", "new", "void", "delete"}
SpelledOperators == {<<"+", "+">>, <<"-", "-">>, <<"+">>, <<"-">>, <<"!">>, <<"~">>, <<"&">>, <<"|">>, <<"^">>, <<"*">>, <<"/">>, <<"%">>,
  <<">", ">">>, <<"<", "<">>, <<">", ">", ">">>, <<"<">>, <<">">>, <<"<", "=">>, <<">", "=">>, <<"=", "=">>, <<"=", "=", "=">>,
  <<"!", "=">>, <<"!", "=", "=">>, <<"?">>, <<"=">>, <<"+", "=">>, <<"-", "=">>, <<"/", "=">>, <<"*", "=">>, <<"%", "=">>,
  <<">", ">", "=">>, <<"<", "<", "=">>, <<">", ">", ">", "=">>, <<"|", "=">>, <<"^", "=">>, <<"&", "=">>, <<"&", "&">>, <<"|", "|">>}
Spelled(v) == [i \in DOMAIN v |-> v[i][1]]
Token(type, value, st) == [type |-> type, value |-> value, pos |-> st.tokpos, end |-> st.pos, line |-> st.tokline, col |-> st.tokcol,
                          nl |-> st.nl, comments |-> <<>>]
Tokenizer == [pos |-> 1, line |-> 1, col |-> 0, nl |-> FALSE, regex |-> FALSE, comments |-> <<>>,
          tokpos |-> 1, tokline |-> 0, tokcol |-> 0, ok |-> TRUE, tok |-> <<>>]
parse_error(st) == [st EXCEPT !.ok = FALSE]
\* next, up to a place; a line end within a string is none.
forward(st, q, in_string) ==
  LET ends == NewLines(st.pos, q)
  IN [st EXCEPT !.pos = q, !.nl = @ \/ (~in_string /\ ends # {}), !.line = @ + Cardinality(ends),
               !.col = IF ends = {} THEN @ + q - st.pos ELSE q - 1 - (CHOOSE r \in ends : \A s \in ends : s <= r)]
start_token(st) == [st EXCEPT !.tokpos = st.pos, !.tokline = st.line, !.tokcol = st.col]
regexAllowed(type, value) ==
  \/ type = "operator" /\ value \notin {<<"+", "+">>, <<"-", "-">>}
  \/ type = "keyword" /\ value[1] \in KEYWORDS_BEFORE_EXPRESSION
  \/ type = "punc" /\ value[1] \in PUNC_BEFORE_EXPRESSION
token(st, type, value, is_comment) ==
  LET before == IF is_comment THEN <<>> ELSE st.comments
  IN [st EXCEPT !.regex = regexAllowed(type, Spelled(value)), !.nl = FALSE, !.comments = IF is_comment THEN @ ELSE <<>>,
               !.tok = <<[Token(type, value, st) EXCEPT !.comments = before, !.nl = @ \/ \E c \in ToSet(before) : c.nl]>>]
-----------------------------------------------------------------------------
\* A number: x, e: it has one; after: its last character was e; dot: it has a point.
RECURSIVE NumberEnd(_, _, _, _, _)
NumberEnd(p, x, e, after, dot) ==
  LET c == Ch(p) IN
  CASE c = "x" -> IF x THEN p ELSE NumberEnd(p + 1, TRUE, e, after, dot)
    [] c = "e" -> IF x THEN NumberEnd(p + 1, x, e, after, dot) ELSE IF e THEN p ELSE NumberEnd(p + 1, x, TRUE, TRUE, dot)
    [] c \in {"-", "+"} -> IF after THEN NumberEnd(p + 1, x, e, after, dot) ELSE p
    [] c = "." -> IF dot \/ x \/ e THEN p ELSE NumberEnd(p + 1, x, e, FALSE, TRUE)
    [] OTHER -> IF c \in Letters \cup Digits THEN NumberEnd(p + 1, x, e, FALSE, dot) ELSE p
\* RE_HEX_NUMBER, RE_OCT_NUMBER and RE_DEC_NUMBER.
AllIn(s, C) == \A i \in DOMAIN s : s[i] \in C
Decimal(s) == AllIn(s, Digits \cup {"."}) /\ Cardinality({i \in DOMAIN s : s[i] = "."}) <= 1
Exponent(s) == LET t == IF s # <<>> /\ s[1] \in {"+", "-"} THEN Tail(s) ELSE s
               IN Decimal(t) /\ \E i \in DOMAIN t : t[i] \in Digits
parse_js_number(s) ==
  \/ Len(s) > 2 /\ s[1] = "0" /\ s[2] = "x" /\ AllIn(SubSeq(s, 3, Len(s)), Hexadecimal)
  \/ Decimal(s)                                       \* octal numbers are among them
  \/ \E i \in DOMAIN s : s[i] = "e" /\ Decimal(SubSeq(s, 1, i - 1)) /\ Exponent(SubSeq(s, i + 1, Len(s)))
\* From p on, which is after a point that it begins with.
read_num(st, p) ==
  LET q == NumberEnd(p, FALSE, FALSE, FALSE, p # st.pos)
  IN IF parse_js_number(SubSeq(text, st.pos, q - 1)) THEN token(forward(st, q, FALSE), "num", Chars(st.pos, q), FALSE) ELSE parse_error(st)
-----------------------------------------------------------------------------
Read(p, v, ok) == [p |-> p, v |-> v, ok |-> ok]
hex_bytes(p, n) == IF \A i \in p .. p + n - 1 : Ch(i) \in Hexadecimal THEN Read(p + n, <<Given(Number(p, n, 16))>>, TRUE) ELSE Read(p, <<>>, FALSE)
read_escaped_char(p) ==
  LET c == Ch(p) IN
  CASE c = ""   -> Read(p, <<>>, FALSE)
    [] c = "n"  -> Read(p + 1, <<Given(10)>>, TRUE)
    [] c = "x"  -> hex_bytes(p + 1, 2)
    [] c = "u"  -> hex_bytes(p + 1, 4)
    [] c = "\n" -> Read(p + 1, <<>>, TRUE)
    [] OTHER    -> Read(p + 1, <<<<c, 0>>>>, TRUE)
\* At most three octal digits, of which the first is 3 at most, or two.
octal_len(p) ==
  CASE Ch(p) \notin Octal -> 0
    [] Ch(p + 1) \notin Octal -> 1
    [] OTHER -> IF Ch(p) \in {"0", "1"} /\ Ch(p + 2) \in Octal THEN 3 ELSE 2
escape(p) == LET n == octal_len(p) IN IF n > 0 THEN Read(p + n, <<Given(Number(p, n, 8))>>, TRUE) ELSE read_escaped_char(p)
RECURSIVE StringFrom(_, _, _)
StringFrom(p, quote, v) ==
  LET c == Ch(p)
      r == escape(p + 1)
  IN CASE c = "" -> Read(p, v, FALSE)
       [] c = quote -> Read(p + 1, v, TRUE)
       [] c = "\\"  -> IF r.ok THEN StringFrom(r.p, quote, v \o r.v) ELSE r
       [] OTHER     -> StringFrom(p + 1, quote, Append(v, <<c, 0>>))
read_string(st) ==
  LET r == StringFrom(st.pos + 1, Ch(st.pos), <<>>)
      bare == \E i \in DOMAIN r.v : r.v[i] = <<"\n", 0>>          \* a line end that is not escaped
  IN IF r.ok THEN token(forward(st, r.p, ~bare), "string", r.v, FALSE) ELSE parse_error(st)
-----------------------------------------------------------------------------
read_line_comment(st) ==
  LET p == st.pos + 1
      i == Find(<<"\n">>, p)
      q == IF i = 0 THEN End ELSE i
  IN token([st EXCEPT !.pos = q, !.col = @ + 1], "comment1", Chars(p, q), TRUE)
read_multiline_comment(st) ==
  LET p == st.pos + 1
      i == Find(<<"*", "/">>, p)
  IN IF i = 0 THEN parse_error(st) ELSE token(forward(st, i + 2, FALSE), "comment2", Chars(p, i), TRUE)
\* A name, with letters that are given as \uXXXX.
RECURSIVE NameFrom(_, _)
NameFrom(p, v) ==
  LET c == Ch(p)
      r == read_escaped_char(p + 1)
  IN CASE c = "\\" -> IF Ch(p + 1) = "u" /\ r.ok THEN IF ToSet(r.v) \subseteq GivenPart THEN NameFrom(r.p, v \o r.v) ELSE Read(p, v, FALSE)
                      ELSE Read(p, v, FALSE)
       [] c \in Letters \cup Digits -> NameFrom(p + 1, Append(v, <<c, 0>>))
       [] OTHER -> Read(p, v, TRUE)
RECURSIVE RegexpEnd(_, _)
RegexpEnd(p, in_class) ==
  LET c == Ch(p) IN
  CASE c = "" -> 0
    [] c = "\\" -> IF p + 1 < End THEN RegexpEnd(p + 2, in_class) ELSE 0
    [] c = "/" /\ ~in_class -> p
    [] OTHER -> RegexpEnd(p + 1, c = "[" \/ (in_class /\ c # "]"))
read_regexp(st) ==
  LET q == RegexpEnd(st.pos, FALSE)
      r == NameFrom(q + 1, <<>>)
  IN IF q = 0 THEN parse_error(st) ELSE IF ~r.ok \/ ~RegExp(SubSeq(text, st.pos, q - 1), Spelled(r.v)) THEN parse_error(st)
     ELSE token(forward(st, r.p, FALSE), "regexp", Chars(st.pos, q) \o <<<<"/", 0>>>> \o r.v, FALSE)
RECURSIVE grow(_, _)
grow(p, op) == IF p < End /\ Append(op, Ch(p)) \in SpelledOperators THEN grow(p + 1, Append(op, Ch(p))) ELSE p
read_operator(st, p) == LET q == grow(p + 1, <<Ch(p)>>) IN token(forward(st, q, FALSE), "operator", Chars(p, q), FALSE)
read_word(st) ==
  LET r == NameFrom(st.pos, <<>>)
      w == Spelled(r.v)
      T == forward(st, r.p, FALSE)
  IN IF ~r.ok THEN parse_error(st)
     ELSE IF Len(w) # 1 THEN token(T, "name", r.v, FALSE)
     ELSE token(T, CASE w[1] \in KEYWORDS_ATOM -> "atom" [] w[1] \in WordOperators -> "operator"
                     [] w[1] \in KEYWORDS \ WordOperators -> "keyword" [] OTHER -> "name", r.v, FALSE)
-----------------------------------------------------------------------------
RECURSIVE next_token(_)
\* A comment that was read: what is allowed after it is what was before it.
keepAllowed(st, T) == [T EXCEPT !.regex = st.regex]
handle_slash(st) ==
  LET past == forward(st, st.pos + 1, FALSE)
      after(T) == IF ~T.ok THEN T ELSE next_token([keepAllowed(st, T) EXCEPT !.comments = Append(@, T.tok[1])])
  IN CASE Ch(past.pos) = "/" -> after(read_line_comment(past))
       [] Ch(past.pos) = "*" -> after(read_multiline_comment(past))
       [] OTHER -> IF st.regex THEN read_regexp(past) ELSE read_operator(st, st.pos)
handle_dot(st) == IF Ch(st.pos + 1) \in Digits THEN read_num(st, st.pos + 1)
                 ELSE token(forward(st, st.pos + 1, FALSE), "punc", Chars(st.pos, st.pos + 1), FALSE)
next_token(S0) ==
  LET white(c) == c \in {" ", "\n"}
      st == start_token(forward(S0, While(S0.pos, white), FALSE))
      c == Ch(st.pos)
  IN CASE c = "" -> token(st, "eof", <<>>, FALSE)
       [] c \in {"\"", "'"} -> read_string(st)
       [] c = "." -> handle_dot(st)
       [] c = "/" -> handle_slash(st)
       [] c \in Digits -> read_num(st, st.pos)
       [] c \in PUNC_CHARS -> token(forward(st, st.pos + 1, FALSE), "punc", Chars(st.pos, st.pos + 1), FALSE)
       [] c \in OPERATOR_CHARS -> read_operator(st, st.pos)
       [] c = "\\" \/ c \in Letters -> read_word(st)
       [] OTHER -> parse_error(st)
RECURSIVE tokensFrom(_)
tokensFrom(st) ==
  LET T == next_token(st)
  IN IF ~T.ok THEN <<>> ELSE IF T.tok[1].type = "eof" THEN T.tok ELSE
     LET rest == tokensFrom(T) IN IF rest = <<>> THEN <<>> ELSE T.tok \o rest
\* The tokens of the text, the end last; none if it cannot be read.
tokens == tokensFrom(Tokenizer)
-----------------------------------------------------------------------------
(* The parser.                                                             *)
RECURSIVE statement(_, _), expression(_, _, _, _), expr_atom(_, _, _), maybe_unary(_, _, _),
          maybe_assign(_, _, _), block_(_, _), function_(_, _, _), subscripts(_, _, _), expr_op(_, _, _, _)

OPERATORS == {"in", "instanceof", "typeof", "new", "void", "delete", "++", "--", "+", "-", "!", "~", "&", "|",
              "^", "*", "/", "%", ">>", "<<", ">>>", "<", ">", "<=", ">=", "==", "===", "!=", "!==", "?", "=",
              "+=", "-=", "/=", "*=", "%=", ">>=", "<<=", ">>>=", "|=", "^=", "&=", "&&", "||"}
UNARY_PREFIX  == {"typeof", "void", "delete", "--", "++", "!", "~", "-", "+"}
UNARY_POSTFIX == {"--", "++"}
ASSIGNMENT    == {"=", "+=", "-=", "/=", "*=", "%=", ">>=", "<<=", ">>>=", "|=", "^=", "&="}

PRECEDENCE(op) ==
  CASE op = "||" -> 1
    [] op = "&&" -> 2
    [] op = "|" -> 3
    [] op = "^" -> 4
    [] op = "&" -> 5
    [] op \in {"==", "===", "!=", "!=="} -> 6
    [] op \in {"<", ">", "<=", ">=", "in", "instanceof"} -> 7
    [] op \in {">>", "<<", ">>>"} -> 8
    [] op \in {"+", "-"} -> 9
    [] op \in {"*", "/", "%"} -> 10
    [] OTHER -> 0

Start == [fn |-> FALSE, loop |-> FALSE, labels |-> {}, from |-> 1]
in_loop(c) == [c EXCEPT !.loop = TRUE]

\* this is a name like any other.
is_name(p) == IsName(p) \/ Is(p, "this")
as_name(p) == IF IsName(p) \/ IsOf(p, Words) THEN p + 1 ELSE Fail(p)

\* in_directives: only strings and semicolons since the body began.
in_directives(p, c) == \A q \in c.from .. p : Tok(q).t = "string" \/ Is(q, ";")

can_insert_semicolon(p) == Tok(p).nl \/ Tok(p).t = "eof" \/ Is(p, "}")
semicolon(p) == IF Is(p, ";") THEN p + 1 ELSE IF can_insert_semicolon(p) THEN p ELSE Fail(p)

\* An expression, commas allowed, as the code calls it without arguments.
Expr(p, c) == expression(p, c, TRUE, FALSE)
parenthesised(p, c) == LET r == Expr(Expect(p, "("), c) IN At(Expect(r.p, ")"), r.n)

simple_statement(p, c) == LET r == Expr(p, c) IN At(semicolon(r.p), N("stat", "", <<r.n>>))

string_statement(p, c) ==
  LET r == simple_statement(p, c) IN
  IF in_directives(p, c) /\ r.n.k[1].t = "string" /\ ~Is(r.p, ",")
  THEN At(r.p, Leaf("directive", r.n.k[1].v)) ELSE r

\* A label is defined once.
labeled_statement(p, c) ==
  LET r == statement(IF Tok(p).v \in c.labels THEN Dead ELSE p + 2, [c EXCEPT !.labels = @ \cup {Tok(p).v}])
  IN At(r.p, N("label", Tok(p).v, <<r.n>>))

break_cont(p, c, type) ==
  IF ~can_insert_semicolon(p) /\ is_name(p)
  THEN At(IF Tok(p).v \in c.labels THEN semicolon(p + 1) ELSE Dead, Leaf(type, Tok(p).v))
  ELSE At(IF c.loop THEN semicolon(p) ELSE Fail(p), Leaf(type, ""))

do_(p, c) ==
  LET body == statement(p, in_loop(c))
      cond == parenthesised(Expect(body.p, "while"), c)
  IN At(semicolon(cond.p), N("do", "", <<cond.n, body.n>>))

RECURSIVE vardefs(_, _, _, _)
vardefs(p, c, no_in, acc) ==
  LET q == IF is_name(p) THEN p + 1 ELSE Fail(p)
      r == IF Is(q, "=") THEN expression(q + 1, c, FALSE, no_in) ELSE At(q, Null)
      defs == Append(acc, N("def", Tok(p).v, IF Is(q, "=") THEN <<r.n>> ELSE <<>>))
  IN IF Is(r.p, ",") THEN vardefs(r.p + 1, c, no_in, defs) ELSE At(r.p, defs)

var_(p, c, no_in) == LET r == vardefs(p, c, no_in, <<>>) IN At(r.p, N("var", "", r.n))
const_(p, c)      == LET r == vardefs(p, c, FALSE, <<>>) IN At(r.p, N("const", "", r.n))

regular_for(init, c) ==
  LET q == Expect(init.p, ";")
      test == IF Is(q, ";") THEN At(q, Null) ELSE Expr(q, c)
      q2 == Expect(test.p, ";")
      step == IF Is(q2, ")") THEN At(q2, Null) ELSE Expr(q2, c)
      body == statement(Expect(step.p, ")"), in_loop(c))
  IN At(body.p, N("for", "", <<init.n, test.n, step.n, body.n>>))

for_in(init, c) ==
  LET obj == Expr(init.p + 1, c)
      body == statement(Expect(obj.p, ")"), in_loop(c))
  IN At(body.p, N("for-in", "", <<init.n, obj.n, body.n>>))

for_(p, c) ==
  LET q == Expect(p, "(")
      init == IF Is(q, ";") THEN At(q, Null)
              ELSE IF Is(q, "var") THEN var_(q + 1, c, TRUE) ELSE expression(q, c, TRUE, TRUE)
  IN IF ~Is(q, ";") /\ Is(init.p, "in")
     THEN IF init.n.t = "var" /\ Len(init.n.k) > 1 THEN At(Dead, Null) ELSE for_in(init, c)
     ELSE regular_for(init, c)

if_(p, c) ==
  LET cond == parenthesised(p, c)
      body == statement(cond.p, c)
      belse == IF Is(body.p, "else") THEN statement(body.p + 1, c) ELSE At(body.p, Null)
  IN At(belse.p, N("if", "", <<cond.n, body.n, belse.n>>))

return_(p, c) ==
  IF ~c.fn THEN At(Dead, Null)
  ELSE IF Is(p, ";") THEN At(p + 1, N("return", "", <<Null>>))
  ELSE IF can_insert_semicolon(p) THEN At(p, N("return", "", <<Null>>))
  ELSE LET r == Expr(p, c) IN At(semicolon(r.p), N("return", "", <<r.n>>))

throw_(p, c) ==
  LET r == Expr(IF Tok(p).nl THEN Dead ELSE p, c) IN At(semicolon(r.p), N("throw", "", <<r.n>>))

\* Statements up to a closing brace.
RECURSIVE Body(_, _, _), SwitchBody(_, _, _)
Body(p, c, acc) ==
  IF Is(p, "}") THEN At(p + 1, acc)
  ELSE IF p >= AtEnd THEN At(Fail(p), <<>>)
  ELSE LET r == statement(p, c) IN Body(r.p, c, Append(acc, r.n))
block_(p, c) == Body(Expect(p, "{"), c, <<>>)

SwitchBody(p, c, acc) ==
  IF Is(p, "}") THEN At(p + 1, acc)
  ELSE IF p >= AtEnd THEN At(Fail(p), <<>>)
  ELSE IF Is(p, "case")
  THEN LET r == Expr(p + 1, c) IN SwitchBody(Expect(r.p, ":"), c, Append(acc, N("case", "", <<r.n>>)))
  ELSE IF Is(p, "default") THEN SwitchBody(Expect(p + 1, ":"), c, Append(acc, N("case", "", <<Null>>)))
  ELSE IF acc = <<>> THEN At(Dead, <<>>)
  ELSE LET r == statement(p, c) IN SwitchBody(r.p, c, [acc EXCEPT ![Len(acc)].k = Append(@, r.n)])
switch_block_(p, c) ==
  LET on == parenthesised(p, c)
      r == SwitchBody(Expect(on.p, "{"), in_loop(c), <<>>)
  IN At(r.p, N("switch", "", <<on.n>> \o r.n))

try_(p, c) ==
  LET body == block_(p, c)
      name == Expect(body.p + 1, "(")
      handler == IF ~Is(body.p, "catch") THEN At(body.p, Null)
                 ELSE LET r == block_(IF is_name(name) THEN Expect(name + 1, ")") ELSE Fail(name), c)
                      IN At(r.p, N("catch", Tok(name).v, r.n))
      final == IF ~Is(handler.p, "finally") THEN At(handler.p, Null)
               ELSE LET r == block_(handler.p + 1, c) IN At(r.p, N("block", "", r.n))
  IN At(IF handler.n.t = "null" /\ final.n.t = "null" THEN Fail(final.p) ELSE final.p,
        N("try", "", <<N("block", "", body.n), handler.n, final.n>>))

statement(p, c) ==
  CASE Tok(p).t = "string" -> string_statement(p, c)
    [] is_name(p) -> IF Is(p + 1, ":") THEN labeled_statement(p, c) ELSE simple_statement(p, c)
    [] Tok(p).t = "num" \/ IsOf(p, OPERATORS) \/ Is(p, "[") \/ Is(p, "(") -> simple_statement(p, c)
    [] Is(p, "{") -> LET r == block_(p, c) IN At(r.p, N("block", "", r.n))
    [] Is(p, ";") -> At(p + 1, Leaf("empty", ""))
    [] IsOf(p, {"break", "continue"}) -> break_cont(p + 1, c, Tok(p).v)
    [] Is(p, "debugger") -> At(semicolon(p + 1), Leaf("debugger", ""))
    [] Is(p, "do") -> do_(p + 1, c)
    [] Is(p, "for") -> for_(p + 1, c)
    [] Is(p, "function") -> function_(p + 1, c, "defun")
    [] Is(p, "if") -> if_(p + 1, c)
    [] Is(p, "return") -> return_(p + 1, c)
    [] Is(p, "switch") -> switch_block_(p + 1, c)
    [] Is(p, "throw") -> throw_(p + 1, c)
    [] Is(p, "try") -> try_(p + 1, c)
    [] Is(p, "var") -> LET r == var_(p + 1, c, FALSE) IN At(semicolon(r.p), r.n)
    [] Is(p, "const") -> LET r == const_(p + 1, c) IN At(semicolon(r.p), r.n)
    [] Is(p, "while") -> LET cond == parenthesised(p + 1, c)
                             body == statement(cond.p, in_loop(c))
                         IN At(body.p, N("while", "", <<cond.n, body.n>>))
    [] Is(p, "with") -> LET obj == parenthesised(p + 1, c)
                            body == statement(obj.p, c)
                        IN At(body.p, N("with", "", <<obj.n, body.n>>))
    [] OTHER -> At(Fail(p), Null)

RECURSIVE Arguments(_, _)
Arguments(p, acc) ==
  IF Is(p, ")") THEN At(p + 1, acc)
  ELSE LET q == IF acc = <<>> THEN p ELSE Expect(p, ",") IN
       IF is_name(q) THEN Arguments(q + 1, Append(acc, Leaf("name", Tok(q).v))) ELSE At(Fail(q), <<>>)

\* The name before the parameters: an accessor's may be a string or a number.
FunctionNamed(p, kind) == is_name(p) \/ (kind = "accessor" /\ Tok(p).t \in {"string", "num"})

\* Neither the labels nor the loop outside are visible in the body.
function_(p, c, kind) ==
  LET named == FunctionNamed(p, kind)
      q == IF named THEN p + 1 ELSE IF kind = "defun" THEN Fail(p) ELSE p
      args == Arguments(Expect(q, "("), <<>>)
      body == block_(args.p, [c EXCEPT !.fn = TRUE, !.loop = FALSE, !.labels = {}, !.from = args.p + 1])
  IN At(body.p, N(kind, IF named THEN Tok(p).v ELSE "", <<N("params", "", args.n), N("body", "", body.n)>>))
-----------------------------------------------------------------------------
(* Expressions.                                                            *)

RECURSIVE expr_list(_, _, _, _, _)
expr_list(p, c, closing, allow_empty, acc) ==
  IF Is(p, closing) THEN At(p + 1, acc)
  ELSE LET q == IF acc = <<>> THEN p ELSE Expect(p, ",") IN
       IF allow_empty /\ Is(q, closing) THEN At(q + 1, acc)
       ELSE IF allow_empty /\ Is(q, ",") THEN expr_list(q, c, closing, allow_empty, Append(acc, Null))
       ELSE LET r == expression(q, c, FALSE, FALSE) IN
            IF r.p >= AtEnd THEN At(Fail(r.p), <<>>) ELSE expr_list(r.p, c, closing, allow_empty, Append(acc, r.n))

array_(p, c) == LET r == expr_list(p, c, "]", TRUE, <<>>) IN At(r.p, N("array", "", r.n))

as_property_name(p) == IF Tok(p).t \in {"num", "string"} THEN p + 1 ELSE as_name(p)

RECURSIVE object_(_, _, _)
object_(p, c, acc) ==
  IF Is(p, "}") THEN At(p + 1, N("object", "", acc))
  ELSE LET q == IF acc = <<>> THEN p ELSE Expect(p, ",")
           key == as_property_name(q)
           r == IF IsName(q) /\ Tok(q).v \in {"get", "set"} /\ ~Is(key, ":")
                THEN LET f == function_(key, c, "accessor") IN
                     At(f.p, N(Tok(q).v, f.n.v, <<[f.n EXCEPT !.t = "function", !.v = ""]>>))
                ELSE LET e == expression(Expect(key, ":"), c, FALSE, FALSE) IN
                     At(e.p, N("prop", Tok(q).v, <<e.n>>))
       IN IF Is(q, "}") THEN At(q + 1, N("object", "", acc))
          ELSE IF r.p >= AtEnd THEN At(Fail(r.p), Null)
          ELSE object_(r.p, c, Append(acc, r.n))

\* What follows new always takes calls.
new_(p, c) ==
  LET r == expr_atom(p, c, FALSE)
      args == IF Is(r.p, "(") THEN expr_list(r.p + 1, c, ")", FALSE, <<>>) ELSE At(r.p, <<>>)
  IN subscripts(At(args.p, N("new", "", <<r.n>> \o args.n)), c, TRUE)

expr_atom(p, c, allow_calls) ==
  CASE Is(p, "new") -> new_(p + 1, c)
    [] Is(p, "(") -> LET r == Expr(p + 1, c) IN subscripts(At(Expect(r.p, ")"), r.n), c, allow_calls)
    [] Is(p, "[") -> subscripts(array_(p + 1, c), c, allow_calls)
    [] Is(p, "{") -> subscripts(object_(p + 1, c, <<>>), c, allow_calls)
    [] Is(p, "function") -> subscripts(function_(p + 1, c, "function"), c, allow_calls)
    [] is_name(p) -> subscripts(At(p + 1, Leaf("name", Tok(p).v)), c, allow_calls)
    [] Tok(p).t \in {"num", "string"} -> subscripts(At(p + 1, Leaf(Tok(p).t, Tok(p).v)), c, allow_calls)
    [] OTHER -> At(Fail(p), Null)

subscripts(r, c, allow_calls) ==
  IF Is(r.p, ".")
  THEN subscripts(At(as_name(r.p + 1), N("dot", Tok(r.p + 1).v, <<r.n>>)), c, allow_calls)
  ELSE IF Is(r.p, "[")
  THEN LET e == Expr(r.p + 1, c) IN subscripts(At(Expect(e.p, "]"), N("sub", "", <<r.n, e.n>>)), c, allow_calls)
  ELSE IF allow_calls /\ Is(r.p, "(")
  THEN LET a == expr_list(r.p + 1, c, ")", FALSE, <<>>) IN
       subscripts(At(a.p, N("call", "", <<r.n>> \o a.n)), c, TRUE)
  ELSE r

RECURSIVE Postfix(_)

Postfix(r) ==
  IF IsOf(r.p, UNARY_POSTFIX) /\ ~Tok(r.p).nl
  THEN Postfix(At(r.p + 1, N("unary-postfix", Tok(r.p).v, <<r.n>>))) ELSE r

maybe_unary(p, c, allow_calls) ==
  IF IsOf(p, UNARY_PREFIX)
  THEN LET r == maybe_unary(p + 1, c, allow_calls) IN At(r.p, N("unary-prefix", Tok(p).v, <<r.n>>))
  ELSE Postfix(expr_atom(p, c, allow_calls))

\* Operators that bind tighter than min_prec, from the left.
expr_op(r, c, min_prec, no_in) ==
  LET prec == IF Tok(r.p).t = "sym" THEN PRECEDENCE(Tok(r.p).v) ELSE 0 IN
  IF prec > min_prec /\ ~(no_in /\ Is(r.p, "in"))
  THEN LET right == expr_op(maybe_unary(r.p + 1, c, TRUE), c, prec, no_in) IN
       expr_op(At(right.p, N("binary", Tok(r.p).v, <<r.n, right.n>>)), c, min_prec, no_in)
  ELSE r

maybe_conditional(p, c, no_in) ==
  LET r == expr_op(maybe_unary(p, c, TRUE), c, 0, no_in) IN
  IF ~Is(r.p, "?") THEN r
  ELSE LET yes == expression(r.p + 1, c, FALSE, FALSE)
           no == expression(Expect(yes.p, ":"), c, FALSE, no_in)
       IN At(no.p, N("conditional", "", <<r.n, yes.n, no.n>>))

maybe_assign(p, c, no_in) ==
  LET r == maybe_conditional(p, c, no_in) IN
  IF ~IsOf(r.p, ASSIGNMENT) THEN r
  ELSE LET s == maybe_assign(r.p + 1, c, no_in) IN At(s.p, N("assign", Tok(r.p).v, <<r.n, s.n>>))

expression(p, c, commas, no_in) ==
  LET r == maybe_assign(p, c, no_in) IN
  IF ~(commas /\ Is(r.p, ",")) THEN r
  ELSE LET s == expression(r.p + 1, c, TRUE, no_in) IN At(s.p, N("seq", "", <<r.n, s.n>>))

RECURSIVE Toplevel(_, _)
Toplevel(p, acc) ==
  IF p >= AtEnd THEN At(p, acc)
  ELSE LET r == statement(p, Start) IN Toplevel(r.p, Append(acc, r.n))
parse == LET r == Toplevel(1, <<>>) IN At(r.p, N("toplevel", "", r.n))
=============================================================================
