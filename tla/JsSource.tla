------------------------------ MODULE JsSource ------------------------------
(***************************************************************************)
(* What the scanners and parsers of JavaScript in                          *)
(* html/jquery-require-sample/r.js share.                                  *)
(*                                                                         *)
(* For the scanners: the text they read and what they look up in it.  A    *)
(* keyword counts as one character, a letter.  A value is a sequence of    *)
(* characters, each <<c, 0>>, or <<"", n>> when it was given by its number.*)
(*                                                                         *)
(* For the parsers: the tokens of a program and the nodes of its tree.  A  *)
(* token is a symbol (punctuator, operator or keyword), a name, a number or*)
(* a string; nl says that a line ends before it.  A parser is at a position*)
(* of the tokens; a syntax error is a position from which nothing matches  *)
(* any more.                                                               *)
(***************************************************************************)
EXTENDS Naturals, Sequences, FiniteSets

VARIABLES text, toks

-----------------------------------------------------------------------------
(* Texts.                                                                  *)
KEYWORDS == {"break", "case", "catch", "const", "continue", "debugger", "default", "delete", "do", "else", "finally", "for",
             "function", "if", "in", "instanceof", "new", "return", "switch", "throw", "try", "typeof", "var", "void", "while", "with"}
KEYWORDS_ATOM == {"false", "null", "true"}
Letters == {"a", "e", "x", "n", "u", "g"} \cup KEYWORDS \cup KEYWORDS_ATOM \cup {"this", "undefined"}
Octal  == {"0", "1", "4"}
Digits == Octal \cup {"8"}
Hexadecimal == Digits \cup {"a", "e"}
Worth == [c \in Hexadecimal |-> CASE c = "0" -> 0 [] c = "1" -> 1 [] c = "4" -> 4 [] c = "8" -> 8 [] c = "a" -> 10 [] c = "e" -> 14]

Ch(p) == IF p \in 1 .. Len(text) THEN text[p] ELSE ""
End == Len(text) + 1
Chars(p, q) == [i \in 1 .. q - p |-> <<text[p + i - 1], 0>>]
Given(n) == <<"", n>>
\* Letters that are written by their numbers: those of a and 1.
GivenStart == {Given(97)}
GivenPart  == {Given(97), Given(49)}
\* The first place from p on that P does not hold of; where w stands from p on, or 0.
While(p, P(_)) == CHOOSE q \in p .. End : (q = End \/ ~P(text[q])) /\ \A r \in p .. q - 1 : P(text[r])
Find(w, p) == LET at == {q \in p .. End - Len(w) : SubSeq(text, q, q + Len(w) - 1) = w}
              IN IF at = {} THEN 0 ELSE CHOOSE q \in at : \A r \in at : q <= r
NewLines(p, q) == {r \in p .. q - 1 : text[r] = "\n"}
\* The number that n digits at p write, of base b.
RECURSIVE Number(_, _, _)
Number(p, n, b) == IF n = 0 THEN 0 ELSE Number(p, n - 1, b) * b + Worth[text[p + n - 1]]
\* What new RegExp refuses of these: an open class, nothing to repeat, and other flags than g.
RECURSIVE Closed(_, _)
Closed(s, in_class) ==
  IF s = <<>> THEN ~in_class
  ELSE IF s[1] = "\\" THEN Len(s) > 1 /\ Closed(SubSeq(s, 3, Len(s)), in_class)
  ELSE Closed(Tail(s), IF in_class THEN s[1] # "]" ELSE s[1] = "[")
Repeats(s) == \A i \in DOMAIN s : s[i] \in {"*", "+"} => i > 1 /\ s[i - 1] \notin {"*", "+"}
RegExp(body, flags) == Closed(body, FALSE) /\ Repeats(body) /\ flags \in {<<>>, <<"g">>}
-----------------------------------------------------------------------------
(* Tokens.                                                                 *)
Sym(v)     == [t |-> "sym", v |-> v, nl |-> FALSE]
Name(v)    == [t |-> "name", v |-> v, nl |-> FALSE]
Str(v)     == [t |-> "string", v |-> v, nl |-> FALSE]
Num(v)     == [t |-> "num", v |-> v, nl |-> FALSE]
NewLine(k) == [k EXCEPT !.nl = TRUE]

Eof     == [t |-> "eof", v |-> "", nl |-> FALSE]
ErrTok  == [t |-> "error", v |-> "", nl |-> FALSE]

Dead    == Len(toks) + 3      \* an error at one of the tokens
Short   == Len(toks) + 2      \* an error at the end of the tokens
AtEnd   == Len(toks) + 1

Tok(p) == IF p <= Len(toks) THEN toks[p] ELSE IF p = AtEnd THEN Eof ELSE ErrTok

Is(p, v)    == p <= Len(toks) /\ toks[p].t = "sym" /\ toks[p].v = v
IsOf(p, vs) == p <= Len(toks) /\ toks[p].t = "sym" /\ toks[p].v \in vs
IsName(p)   == p <= Len(toks) /\ toks[p].t = "name"

Words == {"break", "case", "catch", "const", "continue", "debugger", "default", "delete", "do", "else",
          "finally", "for", "function", "if", "in", "instanceof", "new", "return", "switch", "this",
          "throw", "try", "typeof", "var", "void", "while", "with"}

Fail(p)      == IF p < AtEnd THEN Dead ELSE IF p = AtEnd THEN Short ELSE p
Expect(p, v) == IF Is(p, v) THEN p + 1 ELSE Fail(p)

\* A node, and a parser's answer: the position after it.
N(t, v, k) == [t |-> t, v |-> v, k |-> k]
Null       == N("null", "", <<>>)
Leaf(t, v) == N(t, v, <<>>)
At(p, n)   == [p |-> p, n |-> n]

Accepted(r) == r.p = AtEnd
-----------------------------------------------------------------------------
(* Code that a printer writes, as the tokens a scanner finds in it.        *)

S(v) == <<Sym(v)>>
Parens(x) == S("(") \o x \o S(")")

\* What a scanner sees when one text ends with x and the next begins with y.
Word(k) == k.t \in {"name", "num"} \/ (k.t = "sym" /\ k.v \in Words)
Signs == {"+", "-", "++", "--"}
SameSign(x, y) == x.v \in Signs /\ y.v \in Signs /\ (x.v \in {"+", "++"} <=> y.v \in {"+", "++"})
Run(x, y) ==
  IF Word(x) /\ Word(y) THEN <<Name("glued")>>
  ELSE IF x = Num("1") /\ y = Sym(".") THEN <<Num("1.")>>
  ELSE IF x = y /\ x.v \in {"+", "-"} THEN IF x.v = "+" THEN S("++") ELSE S("--")
  ELSE IF x.v \in {"+", "-"} /\ SameSign(x, y) THEN <<y, x>>
  ELSE <<x, y>>
Glue(a, b) ==
  IF a = <<>> \/ b = <<>> THEN a \o b
  ELSE SubSeq(a, 1, Len(a) - 1) \o Run(a[Len(a)], b[1]) \o Tail(b)

\* How a key is written: a number, a name or, if it is no identifier, a string.
Key(v) == IF v = "1" THEN Num(v) ELSE IF v \in Words \cup {"use strict"} THEN Str(v) ELSE Name(v)
=============================================================================
