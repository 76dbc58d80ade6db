------------------------------- MODULE Esprima -------------------------------
(***************************************************************************)
(* esprima, the parser with which r.js looks for dependencies              *)
(* (html/jquery-require-sample/r.js, define 'esprima'), on tokens.  The    *)
(* record c is its state: allowIn, labelSet, inIteration, inSwitch,        *)
(* inFunctionBody and strict, which every construct puts back.             *)
(***************************************************************************)
EXTENDS JsSource, SequencesExt

-----------------------------------------------------------------------------
(* The scanner.                                                            *)
(* The scanner of esprima in html/jquery-require-sample/r.js, with which   *)
(* the optimizer finds dependencies in a module before UglifyJS squeezes   *)
(* it.  Regular expressions are scanned where the parser says: regexps is  *)
(* the set of these places.  0 is a place no text goes on from, an error.  *)
isLineTerminator(c) == c = "\n"
isWhiteSpace(c) == c = " "
isIdentifierStart(c) == c \in Letters \cup {"\\"}
isIdentifierPart(c) == isIdentifierStart(c) \/ c \in Digits
isKeyword(w) == w \in KEYWORDS \cup {"this"}
Scanned(type, value, p, q) == [type |-> type, value |-> value, pos |-> p, end |-> q]
None == Scanned("none", <<>>, 0, 0)

\* Past white space and comments; 0 if a comment does not end.
RECURSIVE skipComment(_)
skipComment(p) ==
  LET c == Ch(p)
      line == Find(<<"\n">>, p)
      block == Find(<<"*", "/">>, p + 2)
  IN CASE c = "/" /\ Ch(p + 1) = "/" -> IF line = 0 THEN End ELSE skipComment(line + 1)
       [] c = "/" /\ Ch(p + 1) = "*" -> IF block = 0 THEN 0 ELSE skipComment(block + 2)
       [] isWhiteSpace(c) \/ isLineTerminator(c) -> skipComment(p + 1)
       [] OTHER -> p
\* scanHexEscape: the value, or none.
scanHexEscape(p, n) == IF \A i \in p .. p + n - 1 : Ch(i) \in Hexadecimal THEN <<Given(Number(p, n, 16))>> ELSE <<>>
-----------------------------------------------------------------------------
\* An identifier from p on; where it is after v.  A \u without digits is the letter u.
Identifier(p, v, allowed) ==
  LET given == scanHexEscape(p + 2, 4) IN
  CASE Ch(p) # "\\" -> <<p + 1, Append(v, <<Ch(p), 0>>)>>
    [] Ch(p) = "\\" /\ Ch(p + 1) # "u" -> <<0, v>>
    [] OTHER -> IF given = <<>> THEN <<p + 2, Append(v, <<"u", 0>>)>>
                ELSE IF ToSet(given) \subseteq allowed THEN <<p + 6, v \o given>> ELSE <<0, v>>
RECURSIVE IdentifierFrom(_, _)
IdentifierFrom(p, v) ==
  IF p = 0 THEN <<0, v>> ELSE IF ~isIdentifierPart(Ch(p)) THEN <<p, v>>
  ELSE LET next == Identifier(p, v, GivenPart) IN IdentifierFrom(next[1], next[2])
scanIdentifier(p) ==
  LET first == Identifier(p, <<>>, GivenStart)
      r == IdentifierFrom(first[1], first[2])
      w == IF Len(r[2]) = 1 THEN r[2][1][1] ELSE ""
  IN IF ~isIdentifierStart(Ch(p)) \/ r[1] = 0 THEN None
     ELSE Scanned(CASE isKeyword(w) -> "keyword" [] w = "null" -> "null" [] w \in {"true", "false"} -> "boolean"
                    [] OTHER -> "identifier", r[2], p, r[1])
\* The longest first.
scanPunctuator(p) ==
  LET c1 == Ch(p)     c2 == Ch(p + 1)     c3 == Ch(p + 2)
      taken(n) == Scanned("punctuator", Chars(p, p + n), p, p + n)
  IN CASE c1 \in {";", "{", "}", ",", "(", ")"} -> taken(1)
       [] c1 = "." /\ c2 \notin Digits -> taken(1)
       [] c1 = ">" /\ c2 = ">" /\ c3 = ">" /\ Ch(p + 3) = "=" -> taken(4)
       [] <<c1, c2, c3>> \in {<<"=", "=", "=">>, <<"!", "=", "=">>, <<"<", "<", "=">>, <<">", ">", "=">>} -> taken(3)
       [] <<c1, c2, c3>> = <<">", ">", ">">> /\ Ch(p + 3) # "=" -> taken(3)
       [] OTHER ->
            IF c2 = "=" /\ c1 \in {"<", ">", "=", "!", "+", "-", "*", "%", "&", "|", "^", "/"} THEN taken(2)
            ELSE IF c1 = c2 /\ c1 \in {"+", "-", "<", ">", "&", "|"} THEN taken(2)
            ELSE IF c1 \in {"[", "]", "<", ">", "+", "-", "*", "%", "&", "|", "^", "!", "~", "?", ":", "=", "/"} THEN taken(1)
            ELSE None
-----------------------------------------------------------------------------
digitsFrom(p) == LET digit(c) == c \in Digits IN While(p, digit)
\* What follows a number must not look like a part of it.
numberUntil(p, q, decimal) ==
  IF isIdentifierStart(Ch(q)) \/ (~decimal /\ Ch(q) \in Digits) THEN None ELSE Scanned("number", Chars(p, q), p, q)
fraction(p) == IF Ch(p) = "." THEN digitsFrom(p + 1) ELSE p
exponent(p) == LET q == IF Ch(p + 1) \in {"+", "-"} THEN p + 2 ELSE p + 1
               IN IF Ch(p) # "e" THEN p ELSE IF Ch(q) \in Digits THEN digitsFrom(q) ELSE 0
scanNumericLiteral(p) ==
  LET hexdigit(c) == c \in Hexadecimal
      octaldigit(c) == c \in Octal
      hex == While(p + 2, hexdigit)
      real == exponent(fraction(digitsFrom(p)))
  IN IF Ch(p) = "0" /\ Ch(p + 1) = "x" THEN IF hex = p + 2 THEN None ELSE numberUntil(p, hex, TRUE)
     ELSE IF Ch(p) = "0" /\ Ch(p + 1) \in Octal THEN numberUntil(p, While(p + 1, octaldigit), FALSE)
     ELSE IF Ch(p) = "0" /\ Ch(p + 1) \in Digits THEN None
     ELSE IF real = 0 THEN None ELSE numberUntil(p, real, TRUE)
-----------------------------------------------------------------------------
\* What is read after a backslash at p, and where it ends.
unescape(p) ==
  LET c == Ch(p)
      n == IF c = "u" THEN 4 ELSE 2
      hex == scanHexEscape(p + 1, n)
      l == IF Ch(p + 1) \notin Octal THEN 1 ELSE IF c \in {"0", "1"} /\ Ch(p + 2) \in Octal THEN 3 ELSE 2
  IN CASE isLineTerminator(c) -> <<p + 1, <<>>>>
       [] c = "n" -> <<p + 1, <<Given(10)>>>>
       [] c \in {"u", "x"} -> IF hex = <<>> THEN <<p + 1, <<<<c, 0>>>>>> ELSE <<p + 1 + n, hex>>
       [] c \in Octal -> <<p + l, <<Given(Number(p, l, 8))>>>>
       [] OTHER -> <<p + 1, <<<<c, 0>>>>>>
RECURSIVE StringFrom(_, _, _)
StringFrom(p, quote, v) ==
  LET c == Ch(p)   r == unescape(p + 1) IN
  IF p >= End \/ isLineTerminator(c) THEN <<0, v>>
  ELSE IF c = quote THEN <<p + 1, v>>
  ELSE IF c = "\\" THEN StringFrom(r[1], quote, v \o r[2])
  ELSE StringFrom(p + 1, quote, Append(v, <<c, 0>>))
scanStringLiteral(p) ==
  LET r == StringFrom(p + 1, Ch(p), <<>>) IN IF r[1] = 0 THEN None ELSE Scanned("string", r[2], p, r[1])
\* The place after a regular expression: the end of the text ends it, too.
RECURSIVE RegExpEnd(_, _)
RegExpEnd(p, classMarker) ==
  LET c == Ch(p) IN
  IF p >= End THEN End
  ELSE IF classMarker THEN RegExpEnd(p + 1, c # "]")
  ELSE IF c = "\\" THEN IF isLineTerminator(Ch(p + 1)) THEN 0 ELSE RegExpEnd(p + 2, FALSE)
  ELSE IF c = "/" THEN p + 1
  ELSE IF isLineTerminator(c) THEN 0
  ELSE RegExpEnd(p + 1, c = "[")
\* The flags: a backslash that is not of \u is skipped.
RECURSIVE FlagsFrom(_, _)
FlagsFrom(p, v) ==
  LET given == scanHexEscape(p + 2, 4) IN
  IF ~isIdentifierPart(Ch(p)) THEN <<p, v>>
  ELSE IF Ch(p) # "\\" THEN FlagsFrom(p + 1, Append(v, <<Ch(p), 0>>))
  ELSE IF Ch(p + 1) # "u" THEN FlagsFrom(p + 1, v)
  ELSE IF given = <<>> THEN FlagsFrom(p + 2, Append(v, <<"u", 0>>)) ELSE FlagsFrom(p + 6, v \o given)
scanRegExp(p) ==
  LET q == RegExpEnd(p + 1, FALSE)
      r == FlagsFrom(q, <<>>)
      flags == [i \in DOMAIN r[2] |-> r[2][i][1]]
  IN IF q = 0 \/ q = p + 1 THEN None
     ELSE IF ~RegExp(SubSeq(text, p + 1, q - 2), flags) THEN None
     ELSE Scanned("regexp", Chars(p + 1, q - 1) \o <<<<"/", 0>>>> \o r[2], p, r[1])
advance(p0, regexps) ==
  LET p == skipComment(p0)
      mark == scanPunctuator(p)
  IN IF p = 0 THEN None
     ELSE IF p >= End THEN Scanned("eof", <<>>, p, p)
     ELSE IF p \in regexps THEN scanRegExp(p)
     ELSE IF mark # None THEN mark
     ELSE IF Ch(p) \in {"\"", "'"} THEN scanStringLiteral(p)
     ELSE IF Ch(p) = "." \/ Ch(p) \in Digits THEN scanNumericLiteral(p)
     ELSE scanIdentifier(p)
\* peekLineTerminator: skipping what is before the next token counts a line.
peekLineTerminator(p) == NewLines(p, skipComment(p)) # {}
-----------------------------------------------------------------------------
(* The parser.                                                             *)
RECURSIVE parseAssignmentExpression(_, _), parseStatement(_, _), parseUnaryExpression(_, _),
          parseExpression(_, _), parseFunctionExpression(_, _), parseLeftHandSideExpression(_, _),
          parseFunctionDeclaration(_, _), parseSourceElement(_, _), parseBlock(_, _), parseFunctionSourceElements(_, _)

Top == [in |-> TRUE, labels |-> {}, iter |-> FALSE, switch |-> FALSE, fn |-> FALSE, strict |-> FALSE]
AllowIn(c) == [c EXCEPT !.in = TRUE]

isRestrictedWord(v) == v \in {"eval", "arguments"}
isIdentifierName(p) == IsName(p) \/ IsOf(p, Words)
isLeftHandSide(n)   == n.t \in {"dot", "sub"} \/ (n.t = "name" /\ n.v # "this")
Restricted(n, c)    == c.strict /\ n.t = "name" /\ isRestrictedWord(n.v)

\* The checks of an assignment, a ++ or a --: at p the error is raised.
Assignable(n, c, p) == IF isLeftHandSide(n) /\ ~Restricted(n, c) THEN p ELSE Fail(p)

\* consumeSemicolon: a semicolon, or the place of one that may be left out.
consumeSemicolon(p) ==
  IF Is(p, ";") /\ ~Tok(p).nl THEN p + 1
  ELSE IF Tok(p).nl THEN p
  ELSE IF Tok(p).t = "eof" \/ Is(p, "}") THEN p
  ELSE Fail(p)

\* Items up to the closing symbol, commas between them.
RECURSIVE parseElements(_, _, _)
parseElements(p, c, acc) ==
  IF Is(p, "]") THEN At(p + 1, N("array", "", acc))
  ELSE IF Is(p, ",") THEN parseElements(p + 1, c, Append(acc, Null))
  ELSE LET r == parseAssignmentExpression(p, c) IN
       IF r.p >= AtEnd THEN At(Fail(r.p), Null)
       ELSE parseElements(IF Is(r.p, "]") THEN r.p ELSE Expect(r.p, ","), c, Append(acc, r.n))
parseArrayInitialiser(p, c) == parseElements(Expect(p, "["), c, <<>>)

parseObjectPropertyKey(p) ==
  IF Tok(p).t \in {"name", "string", "num"} \/ isIdentifierName(p) THEN At(p + 1, Tok(p).v) ELSE At(Fail(p), "")

\* get and set are names; they are accessors unless a colon follows.
parseObjectProperty(p, c) ==
  LET key == parseObjectPropertyKey(p) IN
  IF IsName(p) /\ Tok(p).v \in {"get", "set"} /\ ~Is(p + 1, ":")
  THEN LET name == parseObjectPropertyKey(p + 1)
           open == Expect(name.p, "(")
           param == IF Tok(p).v = "get" THEN At(open, <<>>)
                    ELSE IF IsName(open) THEN At(open + 1, <<Leaf("name", Tok(open).v)>>)
                    ELSE At(Fail(open), <<>>)
           f == parseFunctionSourceElements(Expect(param.p, ")"), c)
       IN At(f.p, N(Tok(p).v, name.n, <<N("function", "", <<N("params", "", param.n), f.n>>)>>))
  ELSE LET r == parseAssignmentExpression(Expect(key.p, ":"), c) IN At(r.p, N("prop", key.n, <<r.n>>))

\* A name is data, or a getter and a setter, and data once in strict code.
Clash(ps, q, c) ==
  \E i \in DOMAIN ps : ps[i].v = q.v /\
    (IF ps[i].t = "prop" THEN (c.strict /\ q.t = "prop") \/ q.t # "prop"
     ELSE q.t = "prop" \/ q.t = ps[i].t)

RECURSIVE parseProperties(_, _, _)
parseProperties(p, c, acc) ==
  IF Is(p, "}") THEN At(p + 1, N("object", "", acc))
  ELSE LET r == parseObjectProperty(p, c) IN
       IF r.p >= AtEnd THEN At(Fail(r.p), Null)
       ELSE IF Clash(acc, r.n, c) THEN At(Dead, Null)
       ELSE parseProperties(IF Is(r.p, "}") THEN r.p ELSE Expect(r.p, ","), c, Append(acc, r.n))
parseObjectInitialiser(p, c) == parseProperties(Expect(p, "{"), c, <<>>)

parsePrimaryExpression(p, c) ==
  CASE Tok(p).t \in {"name", "string", "num"} -> At(p + 1, Leaf(Tok(p).t, Tok(p).v))
    [] Is(p, "this") -> At(p + 1, Leaf("name", "this"))
    [] Is(p, "function") -> parseFunctionExpression(p, c)
    [] Is(p, "[") -> parseArrayInitialiser(p, c)
    [] Is(p, "{") -> parseObjectInitialiser(p, c)
    [] Is(p, "(") -> LET r == parseExpression(p + 1, c) IN At(Expect(r.p, ")"), r.n)
    [] OTHER -> At(Fail(p), Null)

RECURSIVE parseArgs(_, _, _)
parseArgs(p, c, acc) ==
  LET r == parseAssignmentExpression(p, c) IN
  IF Is(r.p, ")") THEN At(r.p + 1, Append(acc, r.n))
  ELSE IF Is(r.p, ",") THEN parseArgs(r.p + 1, c, Append(acc, r.n))
  ELSE At(Fail(r.p), <<>>)
parseArguments(p, c) == IF Is(Expect(p, "("), ")") THEN At(p + 2, <<>>) ELSE parseArgs(Expect(p, "("), c, <<>>)

parseNonComputedMember(p, n) ==
  IF isIdentifierName(p) THEN At(p + 1, N("dot", Tok(p).v, <<n>>)) ELSE At(Fail(p), Null)
parseComputedMember(p, c, n) ==
  LET r == parseExpression(Expect(p, "["), c) IN At(Expect(r.p, "]"), N("sub", "", <<n, r.n>>))

RECURSIVE parseMembers(_, _, _)
parseMembers(r, c, calls) ==
  IF Is(r.p, ".") THEN parseMembers(parseNonComputedMember(r.p + 1, r.n), c, calls)
  ELSE IF Is(r.p, "[") THEN parseMembers(parseComputedMember(r.p, c, r.n), c, calls)
  ELSE IF calls /\ Is(r.p, "(")
  THEN LET a == parseArguments(r.p, c) IN parseMembers(At(a.p, N("call", "", <<r.n>> \o a.n)), c, calls)
  ELSE r

parseNewExpression(p, c) ==
  LET r == parseLeftHandSideExpression(Expect(p, "new"), c)
      a == IF Is(r.p, "(") THEN parseArguments(r.p, c) ELSE At(r.p, <<>>)
  IN At(a.p, N("new", "", <<r.n>> \o a.n))

parseLeftHandSideExpressionAllowCall(p, c) ==
  parseMembers(IF Is(p, "new") THEN parseNewExpression(p, c) ELSE parsePrimaryExpression(p, c), c, TRUE)
parseLeftHandSideExpression(p, c) ==
  parseMembers(IF Is(p, "new") THEN parseNewExpression(p, c) ELSE parsePrimaryExpression(p, c), c, FALSE)

parsePostfixExpression(p, c) ==
  LET r == parseLeftHandSideExpressionAllowCall(p, c) IN
  IF IsOf(r.p, {"++", "--"}) /\ ~Tok(r.p).nl
  THEN At(Assignable(r.n, c, r.p + 1), N("unary-postfix", Tok(r.p).v, <<r.n>>))
  ELSE r

parseUnaryExpression(p, c) ==
  IF IsOf(p, {"++", "--"})
  THEN LET r == parseUnaryExpression(p + 1, c) IN At(Assignable(r.n, c, r.p), N("unary-prefix", Tok(p).v, <<r.n>>))
  ELSE IF IsOf(p, {"+", "-", "~", "!", "delete", "void", "typeof"})
  THEN LET r == parseUnaryExpression(p + 1, c) IN
       At(IF c.strict /\ Is(p, "delete") /\ r.n.t = "name" THEN Fail(r.p) ELSE r.p,
          N("unary-prefix", Tok(p).v, <<r.n>>))
  ELSE parsePostfixExpression(p, c)
-----------------------------------------------------------------------------
(* The levels of the binary operators.  Each takes what is on its left, or *)
(* Nothing, an operand of the next level that starts with the unary        *)
(* expression u, and goes on while its operator follows.                   *)

Nothing == At(0, Null)
Join(left, s) == IF left = Nothing THEN s ELSE At(s.p, N("binary", Tok(left.p).v, <<left.n, s.n>>))

NextUnary(r, c) == parseUnaryExpression(r.p + 1, AllowIn(c))

RECURSIVE parseMultiplicativeExpression(_, _, _), parseAdditiveExpression(_, _, _), parseShiftExpression(_, _, _),
          parseRelationalExpression(_, _, _), parseEqualityExpression(_, _, _), parseBitwiseANDExpression(_, _, _),
          parseBitwiseXORExpression(_, _, _), parseBitwiseORExpression(_, _, _), parseLogicalANDExpression(_, _, _),
          parseLogicalORExpression(_, _, _)

parseMultiplicativeExpression(left, u, c) ==
  LET r == Join(left, u) IN
  IF IsOf(r.p, {"*", "/", "%"}) THEN parseMultiplicativeExpression(r, NextUnary(r, c), c) ELSE r
parseAdditiveExpression(left, u, c) ==
  LET r == Join(left, parseMultiplicativeExpression(Nothing, u, c)) IN
  IF IsOf(r.p, {"+", "-"}) THEN parseAdditiveExpression(r, NextUnary(r, c), c) ELSE r
parseShiftExpression(left, u, c) ==
  LET r == Join(left, parseAdditiveExpression(Nothing, u, c)) IN
  IF IsOf(r.p, {"<<", ">>", ">>>"}) THEN parseShiftExpression(r, NextUnary(r, c), c) ELSE r
\* `in` is an operator where it is allowed, and inside the operands always.
parseRelationalExpression(left, u, c) ==
  LET r == Join(left, parseShiftExpression(Nothing, u, AllowIn(c))) IN
  IF IsOf(r.p, {"<", ">", "<=", ">=", "instanceof"}) \/ (c.in /\ Is(r.p, "in"))
  THEN parseRelationalExpression(r, NextUnary(r, c), c) ELSE r
parseEqualityExpression(left, u, c) ==
  LET r == Join(left, parseRelationalExpression(Nothing, u, c)) IN
  IF IsOf(r.p, {"==", "!=", "===", "!=="}) THEN parseEqualityExpression(r, NextUnary(r, c), c) ELSE r
parseBitwiseANDExpression(left, u, c) ==
  LET r == Join(left, parseEqualityExpression(Nothing, u, c)) IN
  IF Is(r.p, "&") THEN parseBitwiseANDExpression(r, NextUnary(r, c), c) ELSE r
parseBitwiseXORExpression(left, u, c) ==
  LET r == Join(left, parseBitwiseANDExpression(Nothing, u, c)) IN
  IF Is(r.p, "^") THEN parseBitwiseXORExpression(r, NextUnary(r, c), c) ELSE r
parseBitwiseORExpression(left, u, c) ==
  LET r == Join(left, parseBitwiseXORExpression(Nothing, u, c)) IN
  IF Is(r.p, "|") THEN parseBitwiseORExpression(r, NextUnary(r, c), c) ELSE r
parseLogicalANDExpression(left, u, c) ==
  LET r == Join(left, parseBitwiseORExpression(Nothing, u, c)) IN
  IF Is(r.p, "&&") THEN parseLogicalANDExpression(r, NextUnary(r, c), c) ELSE r
parseLogicalORExpression(left, u, c) ==
  LET r == Join(left, parseLogicalANDExpression(Nothing, u, c)) IN
  IF Is(r.p, "||") THEN parseLogicalORExpression(r, NextUnary(r, c), c) ELSE r

BinaryOps == {"*", "/", "%", "+", "-", "<<", ">>", ">>>", "<", ">", "<=", ">=", "instanceof", "in",
              "==", "!=", "===", "!==", "&", "^", "|", "&&", "||"}

\* A unary expression with no such operator after it goes through as it is.
parseConditionalExpression(p, c) ==
  LET u == parseUnaryExpression(p, AllowIn(c))
      r == IF IsOf(u.p, BinaryOps) THEN parseLogicalORExpression(Nothing, u, c) ELSE u
  IN IF ~Is(r.p, "?") THEN r
     ELSE LET yes == parseAssignmentExpression(r.p + 1, AllowIn(c))
              no == parseAssignmentExpression(Expect(yes.p, ":"), c)
          IN At(no.p, N("conditional", "", <<r.n, yes.n, no.n>>))

AssignOps == {"=", "*=", "/=", "%=", "+=", "-=", "<<=", ">>=", ">>>=", "&=", "^=", "|="}

parseAssignmentExpression(p, c) ==
  LET r == parseConditionalExpression(p, c) IN
  IF ~IsOf(r.p, AssignOps) THEN r
  ELSE LET s == parseAssignmentExpression(Assignable(r.n, c, r.p + 1), c) IN
       At(s.p, N("assign", Tok(r.p).v, <<r.n, s.n>>))

\* A sequence; its list is kept as a chain of pairs.
parseExpression(p, c) ==
  LET r == parseAssignmentExpression(p, c) IN
  IF ~Is(r.p, ",") THEN r
  ELSE LET s == parseExpression(r.p + 1, c) IN At(s.p, N("seq", "", <<r.n, s.n>>))
-----------------------------------------------------------------------------
(* Statements.                                                             *)

RECURSIVE parseElementsUntil(_, _, _)
parseElementsUntil(p, c, acc) ==
  IF p >= AtEnd \/ Is(p, "}") THEN At(p, acc)
  ELSE LET r == parseSourceElement(p, c) IN parseElementsUntil(r.p, c, Append(acc, r.n))

parseStatementList(p, c) == parseElementsUntil(p, c, <<>>)
parseBlock(p, c) ==
  LET r == parseStatementList(Expect(p, "{"), c) IN At(Expect(r.p, "}"), N("block", "", r.n))

parseVariableIdentifier(p) == IF IsName(p) THEN p + 1 ELSE Fail(p)

parseVariableDeclaration(p, c, kind) ==
  LET q == parseVariableIdentifier(p)
      q2 == IF c.strict /\ isRestrictedWord(Tok(p).v) THEN Fail(p) ELSE q
  IN IF kind = "const" \/ Is(q2, "=")
     THEN LET r == parseAssignmentExpression(Expect(q2, "="), c) IN At(r.p, N("def", Tok(p).v, <<r.n>>))
     ELSE At(q2, Leaf("def", Tok(p).v))

RECURSIVE parseVariableDeclarationList(_, _, _, _)
parseVariableDeclarationList(p, c, kind, acc) ==
  LET r == parseVariableDeclaration(p, c, kind) IN
  IF Is(r.p, ",") THEN parseVariableDeclarationList(r.p + 1, c, kind, Append(acc, r.n))
  ELSE At(r.p, N(kind, "", Append(acc, r.n)))

parseVariableStatement(p, c) ==
  LET r == parseVariableDeclarationList(p + 1, c, Tok(p).v, <<>>) IN At(consumeSemicolon(r.p), r.n)

\* The expression in parentheses after a keyword.
ParenExpression(p, c) == LET r == parseExpression(Expect(p, "("), c) IN At(Expect(r.p, ")"), r.n)
Loop(c) == [c EXCEPT !.iter = TRUE]

parseIfStatement(p, c) ==
  LET test == ParenExpression(p + 1, c)
      yes == parseStatement(test.p, c)
      no == IF Is(yes.p, "else") THEN parseStatement(yes.p + 1, c) ELSE At(yes.p, Null)
  IN At(no.p, N("if", "", <<test.n, yes.n, no.n>>))

\* The semicolon after a do is taken if it is there, and not asked for.
parseDoWhileStatement(p, c) ==
  LET body == parseStatement(p + 1, Loop(c))
      test == ParenExpression(Expect(body.p, "while"), c)
  IN At(IF Is(test.p, ";") THEN test.p + 1 ELSE test.p, N("do", "", <<test.n, body.n>>))

parseWhileStatement(p, c) ==
  LET test == ParenExpression(p + 1, c)
      body == parseStatement(test.p, Loop(c))
  IN At(body.p, N("while", "", <<test.n, body.n>>))

\* The init of a for, where `in` is not an operator.
parseForInit(p, c) ==
  LET d == [c EXCEPT !.in = FALSE] IN
  IF Is(p, "var") THEN parseVariableDeclarationList(p + 1, d, "var", <<>>) ELSE parseExpression(p, d)

parseForStatement(p, c) ==
  LET q == Expect(p + 1, "(")
      init == IF Is(q, ";") THEN At(q, Null) ELSE parseForInit(q, c)
  IN IF Is(init.p, "in") /\ init.n.t # "null" /\ (init.n.t = "var" => Len(init.n.k) = 1)
     THEN LET from == IF init.n.t = "var" \/ isLeftHandSide(init.n) THEN init.p + 1 ELSE Dead
              obj == parseExpression(from, c)
              body == parseStatement(Expect(obj.p, ")"), Loop(c))
          IN At(body.p, N("for-in", "", <<init.n, obj.n, body.n>>))
     ELSE LET q1 == Expect(init.p, ";")
              test == IF Is(q1, ";") THEN At(q1, Null) ELSE parseExpression(q1, c)
              q2 == Expect(test.p, ";")
              step == IF Is(q2, ")") THEN At(q2, Null) ELSE parseExpression(q2, c)
              body == parseStatement(Expect(step.p, ")"), Loop(c))
          IN At(body.p, N("for", "", <<init.n, test.n, step.n, body.n>>))

\* break and continue: a label on the same line, or a loop around.
Jump(p, c, type, around) ==
  IF Is(p + 1, ";") \/ Tok(p + 1).nl \/ ~IsName(p + 1)
  THEN At(IF around THEN consumeSemicolon(p + 1) ELSE Fail(IF Is(p + 1, ";") THEN p ELSE p + 1), Leaf(type, ""))
  ELSE At(IF Tok(p + 1).v \in c.labels THEN consumeSemicolon(p + 2) ELSE Dead, Leaf(type, Tok(p + 1).v))
parseContinueStatement(p, c) == Jump(p, c, "continue", c.iter)
parseBreakStatement(p, c)    == Jump(p, c, "break", c.iter \/ c.switch)

parseReturnStatement(p, c) ==
  IF ~c.fn THEN At(Dead, Null)
  ELSE IF Tok(p + 1).nl THEN At(p + 1, N("return", "", <<Null>>))
  ELSE IF Is(p + 1, ";") \/ Is(p + 1, "}") \/ Tok(p + 1).t = "eof"
  THEN At(consumeSemicolon(p + 1), N("return", "", <<Null>>))
  ELSE LET r == parseExpression(p + 1, c) IN At(consumeSemicolon(r.p), N("return", "", <<r.n>>))

parseWithStatement(p, c) ==
  LET obj == ParenExpression(IF c.strict THEN Dead ELSE p + 1, c)
      body == parseStatement(obj.p, c)
  IN At(body.p, N("with", "", <<obj.n, body.n>>))

RECURSIVE CaseBody(_, _, _), parseCases(_, _, _)
CaseBody(p, c, acc) ==
  IF p >= AtEnd \/ IsOf(p, {"}", "default", "case"}) THEN At(p, acc)
  ELSE LET r == parseStatement(p, c) IN CaseBody(r.p, c, Append(acc, r.n))
parseSwitchCase(p, c) ==
  LET test == IF Is(p, "default") THEN At(p + 1, Null) ELSE parseExpression(Expect(p, "case"), c)
      body == CaseBody(Expect(test.p, ":"), c, <<>>)
  IN At(body.p, N("case", "", <<test.n>> \o body.n))
parseCases(p, c, acc) ==
  IF p >= AtEnd \/ Is(p, "}") THEN At(p, acc)
  ELSE LET r == parseSwitchCase(p, c) IN parseCases(r.p, c, Append(acc, r.n))
parseSwitchStatement(p, c) ==
  LET on == ParenExpression(p + 1, c)
      cases == parseCases(Expect(on.p, "{"), [c EXCEPT !.switch = TRUE], <<>>)
  IN At(Expect(cases.p, "}"), N("switch", "", <<on.n>> \o cases.n))

parseThrowStatement(p, c) ==
  LET r == parseExpression(IF Tok(p + 1).nl THEN Dead ELSE p + 1, c)
  IN At(consumeSemicolon(r.p), N("throw", "", <<r.n>>))

\* The parameter of a catch may be any expression, or missing.
parseCatchClause(p, c) ==
  LET q == Expect(p + 1, "(")
      param == IF Is(q, ")") THEN At(q, Null) ELSE parseExpression(q, c)
      body == parseBlock(Expect(IF Restricted(param.n, c) THEN Fail(param.p) ELSE param.p, ")"), c)
  IN At(body.p, N("catch", IF param.n.t = "name" THEN param.n.v ELSE "", body.n.k))

parseTryStatement(p, c) ==
  LET body == parseBlock(p + 1, c)
      handler == IF Is(body.p, "catch") THEN parseCatchClause(body.p, c) ELSE At(body.p, Null)
      final == IF Is(handler.p, "finally") THEN parseBlock(handler.p + 1, c) ELSE At(handler.p, Null)
  IN At(IF handler.n.t = "null" /\ final.n.t = "null" THEN Fail(final.p) ELSE final.p,
        N("try", "", <<body.n, handler.n, final.n>>))

parseExpressionStatement(p, c) ==
  LET r == parseExpression(p, c) IN At(consumeSemicolon(r.p), N("stat", "", <<r.n>>))

\* An expression or, when it is a name and a colon follows, a label.
parseLabelled(p, c) ==
  LET r == parseExpression(p, c) IN
  IF r.n.t = "name" /\ r.n.v # "this" /\ Is(r.p, ":")
  THEN LET s == parseStatement(IF r.n.v \in c.labels THEN Dead ELSE r.p + 1, [c EXCEPT !.labels = @ \cup {r.n.v}])
       IN At(s.p, N("label", r.n.v, <<s.n>>))
  ELSE At(consumeSemicolon(r.p), N("stat", "", <<r.n>>))

parseStatement(p, c) ==
  CASE Is(p, ";") -> At(p + 1, Leaf("empty", ""))
    [] Is(p, "{") -> parseBlock(p, c)
    [] Is(p, "break") -> parseBreakStatement(p, c)
    [] Is(p, "continue") -> parseContinueStatement(p, c)
    [] Is(p, "debugger") -> At(consumeSemicolon(p + 1), Leaf("debugger", ""))
    [] Is(p, "do") -> parseDoWhileStatement(p, c)
    [] Is(p, "for") -> parseForStatement(p, c)
    [] Is(p, "function") -> parseFunctionDeclaration(p, c)
    [] Is(p, "if") -> parseIfStatement(p, c)
    [] Is(p, "return") -> parseReturnStatement(p, c)
    [] Is(p, "switch") -> parseSwitchStatement(p, c)
    [] Is(p, "throw") -> parseThrowStatement(p, c)
    [] Is(p, "try") -> parseTryStatement(p, c)
    [] Is(p, "var") -> parseVariableStatement(p, c)
    [] Is(p, "while") -> parseWhileStatement(p, c)
    [] Is(p, "with") -> parseWithStatement(p, c)
    [] Is(p, "(") -> parseExpressionStatement(p, c)
    [] OTHER -> parseLabelled(p, c)

parseSourceElement(p, c) == IF Is(p, "const") THEN parseVariableStatement(p, c) ELSE parseStatement(p, c)
-----------------------------------------------------------------------------
(* Functions and the program.                                              *)

\* The string literals at the head of a body; "use strict" turns strict on.
RECURSIVE Directives(_, _, _)
Directives(p, c, acc) ==
  IF Tok(p).t # "string" THEN [p |-> p, n |-> acc, strict |-> c.strict]
  ELSE LET r == parseSourceElement(p, c) IN
       IF r.n.k[1].t # "string" THEN [p |-> r.p, n |-> Append(acc, r.n), strict |-> c.strict]
       ELSE Directives(r.p, [c EXCEPT !.strict = @ \/ Tok(p).v = "use strict"], Append(acc, r.n))

parseFunctionSourceElements(p, c) ==
  LET head == Directives(Expect(p, "{"), c, <<>>)
      body == parseElementsUntil(head.p, [Top EXCEPT !.fn = TRUE, !.strict = head.strict], head.n)
  IN At(Expect(body.p, "}"), N("body", IF head.strict THEN "strict" ELSE "", body.n))

RECURSIVE Params(_, _)
Params(p, acc) ==
  LET q == parseVariableIdentifier(p)
      more == Append(acc, Leaf("name", Tok(p).v))
  IN IF Is(q, ")") THEN At(q, more) ELSE IF Is(q, ",") THEN Params(q + 1, more) ELSE At(Fail(q), <<>>)

\* A declaration or an expression: in strict code, or
\* when the body turns out to be strict, names and parameters are restricted.
parseFunction(p, c, declaration) ==
  LET named == declaration \/ ~Is(p + 1, "(")
      q == Expect(IF named THEN parseVariableIdentifier(p + 1) ELSE p + 1, "(")
      params == IF Is(q, ")") THEN At(q, <<>>) ELSE Params(q, <<>>)
      body == parseFunctionSourceElements(Expect(params.p, ")"), c)
      name == IF named THEN Tok(p + 1).v ELSE ""
      names == {params.n[i].v : i \in DOMAIN params.n}
      bad == isRestrictedWord(name) \/ (\E v \in names : isRestrictedWord(v))
             \/ Cardinality(names) < Len(params.n)
  IN At(IF bad /\ body.n.v = "strict" THEN Fail(body.p) ELSE body.p,
        N(IF declaration THEN "defun" ELSE "function", name,
          <<N("params", "", params.n), [body.n EXCEPT !.v = ""]>>))
parseFunctionDeclaration(p, c) == parseFunction(p, c, TRUE)
parseFunctionExpression(p, c)  == parseFunction(p, c, FALSE)

RECURSIVE parseSourceElements(_, _, _)
parseSourceElements(p, c, acc) ==
  IF p >= AtEnd THEN At(p, acc)
  ELSE LET r == parseSourceElement(p, c) IN parseSourceElements(r.p, c, Append(acc, r.n))

parseProgram ==
  LET head == Directives(1, Top, <<>>)
      r == parseSourceElements(head.p, [Top EXCEPT !.strict = head.strict], head.n)
  IN At(r.p, N("toplevel", "", r.n))
=============================================================================
