------------------------------- MODULE MCSyntax ------------------------------
(***************************************************************************)
(* The three scanners, the three parsers and the two code generators of    *)
(* html/jquery-require-sample/r.js side by side.  The optimizer reads a    *)
(* file with esprima, to find its dependencies, then with UglifyJS 1 or 2, *)
(* and writes what UglifyJS prints in its place: the build is right only if*)
(* the readers see the same tokens and the same program and if what is     *)
(* written is that program.                                                *)
(*                                                                         *)
(* A behaviour types a text, or a program of tokens, a fragment of an      *)
(* alphabet at a time.                                                     *)
(***************************************************************************)
EXTENDS JsSource, SequencesExt

CONSTANT Alphabets          \* each a set of fragments, which are sequences of tokens, and
                            \* the length beyond which a program is not typed any further
CONSTANT Scripts            \* alphabets of fragments of text, and how many a text has at most
VARIABLES alphabet,         \* the one this program is typed with
          script            \* the one this text is typed with

E  == INSTANCE Esprima
U1 == INSTANCE UglifyParse
U2 == INSTANCE Uglify2Parse
G1 == INSTANCE GenCode
G2 == INSTANCE Uglify2Print
R1(out) == INSTANCE UglifyParse WITH toks <- out
R2(out) == INSTANCE Uglify2Parse WITH toks <- out

Init == toks = <<>> /\ alphabet \in DOMAIN Alphabets
Type(fragment) ==
  /\ Len(toks) < Alphabets[alphabet].max
  /\ toks' = toks \o fragment
  /\ UNCHANGED alphabet
Next == \E fragment \in Alphabets[alphabet].fragments : Type(fragment)
\* Esprima has found no error in what is there.
Viable == E!parseProgram.p # Dead
-----------------------------------------------------------------------------
RECURSIVE Plain(_), Norm(_), Odd1(_), Odd2(_), HasIn(_), Lenient(_)

\* A directive is a statement of a string.
Plain(n) ==
  IF n.t = "directive" THEN N("stat", "", <<Leaf("string", n.v)>>)
  ELSE [n EXCEPT !.k = [i \in DOMAIN @ |-> Plain(@[i])]]

\* Programs on which esprima and UglifyJS differ.  Esprima takes any
\* expression for the parameter of a catch, and does not ask for the
\* semicolon of a do; UglifyJS takes the calls after new new for calls.
Lenient(n) ==
  \/ n.t = "catch" /\ n.v = ""
  \/ n.t = "do"
  \/ n.t = "new" /\ n.k[1].t = "new"
  \/ \E i \in DOMAIN n.k : Lenient(n.k[i])

\* UglifyJS, either version, accepts every program that esprima accepts, and builds
\* the same tree: statements, operators and their grouping, semicolons that are left out.
SameTree(e, u) == Accepted(e) /\ ~Lenient(e.n) => Accepted(u) /\ Plain(u.n) = e.n

\* Trees are compared up to what a printer may change: empty statements in
\* a list, a block of one statement, the grouping of , && || and *.
Lists == {"toplevel", "block", "body", "catch", "case"}
Associative(n) == n.t = "seq" \/ (n.t = "binary" /\ n.v \in {"&&", "||", "*"})
Operands(n, x) == IF x.t = n.t /\ x.v = n.v THEN x.k ELSE <<x>>
Norm(n) ==
  LET kids == [i \in DOMAIN n.k |-> Norm(n.k[i])]
      list == SelectSeq(kids, LAMBDA x : x.t # "empty")
  IN CASE Associative(n) -> [n EXCEPT !.k = Operands(n, kids[1]) \o Operands(n, kids[2])]
       [] n.t = "block" /\ Len(list) = 1 -> list[1]
       [] n.t \in Lists -> [n EXCEPT !.k = list]
       [] n.t = "num" -> Leaf("num", "1")
       [] OTHER -> [n EXCEPT !.k = kids]

\* A string in parentheses at the head of a body is printed as a directive.
Headed(n) ==
  n.t \in {"toplevel", "body"} /\ \E i \in DOMAIN n.k :
    /\ n.k[i].t = "stat" /\ n.k[i].k[1].t = "string"
    /\ \A j \in 1 .. i - 1 : n.k[j].t \in {"directive", "empty"} \/ (n.k[j].t = "stat" /\ n.k[j].k[1].t = "string")
\* A label on an empty statement, last in its body, loses the statement;
\* with UglifyJS 1 the empty body of a loop with a label goes the same way.
RECURSIVE EndsInLabel(_, _)
EndsInLabel(n, loops) ==
  CASE n.t = "label" -> \/ n.k[1].t = "empty" \/ EndsInLabel(n.k[1], loops)
                        \/ loops /\ G1!must_has_semicolon(n.k[1])
    [] n.t = "if" -> EndsInLabel(n.k[IF n.k[3] = Null THEN 2 ELSE 3], loops)
    [] n.t \in {"while", "with", "for", "for-in"} -> EndsInLabel(n.k[Len(n.k)], loops)
    [] OTHER -> FALSE
LabelLast(n, loops) ==
  n.t \in Lists /\ \E i \in DOMAIN n.k :
    EndsInLabel(n.k[i], loops) /\ \A j \in i + 1 .. Len(n.k) : n.k[j].t = "empty"
HasIn(n) == (n.t = "binary" /\ n.v = "in") \/ \E i \in DOMAIN n.k : HasIn(n.k[i])

Prefix(n, ops) == n.t = "unary-prefix" /\ n.v \in ops
\* A sign before ++ or -- with the same sign.
SignStep(n) == Prefix(n, {"+", "-"}) /\ Prefix(n.k[1], {"++", "--"}) /\ SameSign(n, n.k[1])
SignSign(n) == Prefix(n, {"+", "-"}) /\ Prefix(n.k[1], Signs) /\ SameSign(n, n.k[1])

Odd1(n) ==
  \/ Headed(n) \/ LabelLast(n, TRUE) \/ SignStep(n)
  \/ n.t = "for" /\ HasIn(n.k[1])
  \/ n.t = "new" /\ n.k[1].t \in {"unary-prefix", "unary-postfix"}
  \/ n.t = "call" /\ G1!needs_parens(n.k[1], FALSE) /\ G1!make(n.k[1], FALSE)[1] = Sym("(")
  \/ \E i \in DOMAIN n.k : Odd1(n.k[i])
Odd2(n) ==
  \/ Headed(n) \/ LabelLast(n, FALSE) \/ SignSign(n)
  \/ n.t \in {"call", "new"} /\ n.k[1].t \in {"unary-prefix", "unary-postfix"}
  \/ n.t = "array" /\ n.k # <<>> /\ n.k[Len(n.k)] = Null
  \/ n.t = "sub" /\ (n.k[1].t = "seq" \/ (n.k[1].t = "new" /\ Len(n.k[1].k) = 1))
  \/ \E i \in DOMAIN n.k : Odd2(n.k[i])

\* What was printed of the tree n is read back as that tree.
ReadBack(n, out, r) == r.p = Len(out) + 1 /\ Norm(r.n) = Norm(n)
RoundTrip1(n, out) == Odd1(n) \/ ReadBack(n, out, R1(out)!parse)
RoundTrip2(n, out) == Odd2(n) \/ ReadBack(n, out, R2(out)!parse)

\* All who read a program build the same tree, and what either version prints is read
\* back as that tree, except where the tree is one of those that it misprints.
TreesAgree ==
  LET e == E!parseProgram
      u1 == U1!parse
      u2 == U2!parse
  IN /\ SameTree(e, u1) /\ SameTree(e, u2)
     /\ Accepted(e) /\ Accepted(u1) /\ Accepted(u2) =>
          RoundTrip1(u1.n, G1!make(u1.n, FALSE)) /\ RoundTrip2(u2.n, G2!Output(G2!Codegen(u2.n, FALSE)))
-----------------------------------------------------------------------------
(* Texts and their tokens.                                                 *)
Places == 1 .. Len(text)

\* The tokens that esprima finds, when it looks for regular expressions at these places.
RECURSIVE EsprimaFrom(_, _)
EsprimaFrom(p, regexps) ==
  LET k == E!advance(p, regexps)
  IN IF k.type = "none" THEN <<>> ELSE IF k.type = "eof" THEN <<k>> ELSE
     LET rest == EsprimaFrom(k.end, regexps) IN IF rest = <<>> THEN <<>> ELSE <<k>> \o rest
Regexps(ts) == {ts[i].pos : i \in {j \in DOMAIN ts : ts[j].type = "regexp"}}

TkInit == text = <<>> /\ script \in DOMAIN Scripts
TkNext == /\ Len(text) < Scripts[script].max /\ UNCHANGED script
          /\ \E f \in Scripts[script].fragments : text' = text \o f
-----------------------------------------------------------------------------
SameToken(k, l) == k.value = l.value /\ k.pos = l.pos /\ k.end = l.end
Bare(k) == k.type = "string" /\ \E i \in DOMAIN k.value : k.value[i] = <<"\n", 0>>
RefusedRegexp(k) == k.type = "regexp" /\
  LET n == CHOOSE i \in DOMAIN k.value : k.value[i] = <<"/", 0>> /\ i + k.pos = U1!RegexpEnd(k.pos + 1, FALSE)
      w == U1!Spelled(k.value)
  IN ~RegExp(SubSeq(w, 1, n - 1), SubSeq(w, n + 1, Len(w)))
\* Both versions of UglifyJS see the same tokens, on the same lines, with the same
\* comments; but version 2 lets a string go on over a line end (9595; not in
\* 15170-15190) and refuses invalid regular expressions (15253).
SameInBoth ==
  LET a == U1!tokens
      b == U2!tokens
  IN /\ a # <<>> /\ b # <<>> =>
          /\ Len(a) = Len(b)
          /\ \A i \in DOMAIN a : SameToken(a[i], b[i]) /\ a[i].nl = b[i].nl /\ Len(a[i].comments) = Len(b[i].comments)
     /\ a = <<>> /\ b # <<>> => \E i \in DOMAIN b : Bare(b[i])
     /\ a # <<>> /\ b = <<>> => \E i \in DOMAIN a : RefusedRegexp(a[i])
OctalPoint == \E p \in Places : E!Ch(p) = "0" /\ E!Ch(p + 1) \in E!Octal /\ \E q \in p + 2 .. Len(text) : text[q] = "."
\* Esprima sees the same tokens, and line ends between the same, as long as it looks
\* for regular expressions where UglifyJS does; two tokens it makes of 01.5, and it
\* takes the end of the text for that of a regular expression (5308-5338).
SameInEsprima ==
  LET b == U2!tokens
      e == EsprimaFrom(1, Regexps(b))
  IN b # <<>> /\ e # <<>> /\ ~OctalPoint =>
       /\ Len(e) = Len(b)
       /\ \A i \in DOMAIN b : SameToken(b[i], e[i])
       /\ \A i \in DOMAIN b : ~Bare(b[i]) /\ b[i].type # "regexp" =>
            (b[i].nl <=> E!peekLineTerminator(IF i = 1 THEN 1 ELSE b[i - 1].end))
BadEscape == \E p \in Places : text[p] = "\\" /\ E!Ch(p + 1) \in {"u", "x"}
                 /\ E!scanHexEscape(p + 2, IF E!Ch(p + 1) = "u" THEN 4 ELSE 2) = <<>>
\* What esprima reads UglifyJS reads, too, but for invalid escapes, which it takes for
\* letters (5225-5231, 4821), and names and points next to octal numbers.
ReadAfterEsprima ==
  LET e == EsprimaFrom(1, {})
  IN e # <<>> /\ ~BadEscape /\ ~OctalPoint /\ (\A i \in Places : text[i] # "/") => U1!tokens # <<>> /\ U2!tokens # <<>>
Covers(ts) ==
  \A i \in DOMAIN ts :
    LET from == IF i = 1 THEN 1 ELSE ts[i - 1].end
        cs == ts[i].comments
    IN /\ from <= ts[i].pos /\ ts[i].pos <= ts[i].end
       /\ \A c \in DOMAIN cs : /\ (IF c = 1 THEN from ELSE cs[c - 1].end) <= cs[c].pos /\ cs[c].end <= ts[i].pos
                               /\ cs[c].value = E!Chars(cs[c].pos + 2, IF cs[c].type = "comment2" THEN cs[c].end - 2 ELSE cs[c].end)
       /\ \A p \in from .. ts[i].pos - 1 : text[p] \in {" ", "\n"} \/ \E c \in DOMAIN cs : p \in cs[c].pos .. cs[c].end - 1
\* Every character is in a token or in a comment of the next one, or it is white space.
NothingLost == Covers(U1!tokens) /\ Covers(U2!tokens)
\* A token is said to follow a line end if one is before it, in a comment or not:
\* on this depends where a semicolon is inserted.
LineEndsSeen ==
  \A ts \in {U1!tokens, U2!tokens} : \A i \in DOMAIN ts :
    LET ends == E!NewLines(IF i = 1 THEN 1 ELSE ts[i - 1].end, ts[i].pos) # {}
    IN (ends => ts[i].nl) /\ (ts[i].nl => ends \/ Bare(ts[i]) \/ (ts[i].type = "regexp" /\ E!NewLines(ts[i].pos, ts[i].end) # {}))
\* Version 2 knows where each token is: with these places it makes the source map.
PlacesTrue ==
  LET ts == U2!tokens IN \A i \in DOMAIN ts :
    LET ends == E!NewLines(1, ts[i].pos) IN
    ts[i].type # "eof" =>
    /\ ts[i].line = 1 + Cardinality(ends)
    /\ ts[i].col = ts[i].pos - 1 - (IF ends = {} THEN 0 ELSE CHOOSE r \in ends : \A s \in ends : s <= r)
EndsExpression(k) == \/ k.type \in {"name", "num", "string", "atom", "regexp"}
                     \/ U1!Spelled(k.value) \in {<<"]">>, <<")">>, <<"}">>, <<"+", "+">>, <<"-", "-">>}
\* A slash divides after what can end an expression, and begins a regular expression
\* where none has ended; at the begin of a statement the parser asks again (9936).
SlashRight ==
  \A ts \in {U1!tokens, U2!tokens} : \A i \in DOMAIN ts :
    /\ ts[i].type = "regexp" => i > 1 /\ ~EndsExpression(ts[i - 1])
    /\ ts[i].type = "operator" /\ text[ts[i].pos] = "/" /\ i > 1 => EndsExpression(ts[i - 1]) \/ U1!Spelled(ts[i - 1].value) = <<"do">>

\* Together: the text is cut into the same tokens by all who read it.
TokensAgree ==
  SameInBoth /\ SameInEsprima /\ ReadAfterEsprima /\ NothingLost /\ LineEndsSeen /\ PlacesTrue /\ SlashRight
-----------------------------------------------------------------------------
(* For TLC, one alphabet for each part of the language.  A head such as    *)
(* `if ( a )` is a fragment, so that programs of several statements are    *)
(* reached.  A behaviour types a text or a program, which is read when it  *)
(* is handed over; the other one stays empty.                              *)

Ones(T) == {<<t>> : t \in T}
a == Name("a")
Group(word) == <<Sym(word), Sym("("), a, Sym(")")>>

Arithmetic == Ones({a, Num("1"), Sym("+"), Sym("-"), Sym("*"), Sym("("), Sym(")"), Sym("++"), NewLine(Sym("++"))})
Assigning == Ones({a, Sym("="), Sym("?"), Sym(":"), Sym(","), Sym("("), Sym(")"), Sym("in"), Sym("&&"), Sym("==")})
Members    == Ones({a, Num("1"), Sym("new"), Sym("["), Sym("]"), Sym("("), Sym(")"), Sym(","), Sym("typeof")})
                \cup {<<Sym("."), a>>}
Fors       == Ones({a, Sym(")"), Sym(";"), Sym("in"), Sym("var"), Sym(","), Sym("=")}) \cup {<<Sym("for"), Sym("(")>>}
Ifs        == Ones({a, Sym("else"), Sym(";"), Sym("{"), Sym("}"), NewLine(a), Sym("do")}) \cup {Group("if"), Group("while")}
Jumps      == Ones({a, Sym(";"), Sym("break"), Sym("continue"), Sym("{"), Sym("}")})
                \cup {<<a, Sym(":")>>, Group("while"), <<Sym("do")>>}
Functions  == Ones({a, Sym("("), Sym(")"), Sym(";"), Sym("{"), Sym("}"), Sym("return"), NewLine(Num("1")), Str("use strict")})
                \cup {<<Sym("function")>>}
Switches   == Ones({a, Sym("{"), Sym("}"), Sym("default"), Sym(":"), Sym("break"), Sym(";")})
                \cup {Group("switch") \o <<Sym("{")>>, <<Sym("case"), a, Sym(":")>>}
Tries      == Ones({a, Sym("try"), Sym("{"), Sym("}"), Sym("finally"), Sym("throw"), NewLine(a)}) \cup {Group("catch")}
Objects    == Ones({a, Name("get"), Sym("("), Sym(")"), Sym("{"), Sym("}"), Sym(","), Sym(":"), Str("use strict")})
Calls      == Ones({a, Sym("("), Sym(")"), Sym("+"), Sym("?"), Sym(":")}) \cup {<<Sym("("), a, Sym(","), a, Sym(")")>>}

Upto(fragments, max) == [fragments |-> fragments, max |-> max]
Parts == <<Upto(Arithmetic, 5), Upto(Assigning, 5), Upto(Members, 5), Upto(Fors, 6), Upto(Ifs, 6), Upto(Jumps, 6),
           Upto(Functions, 6), Upto(Switches, 8), Upto(Tries, 6), Upto(Objects, 6), Upto(Calls, 9)>>

-----------------------------------------------------------------------------
(* Texts, from which the scanners make tokens: a fragment is a sequence of *)
(* characters, or of words that no character is next to.                   *)

VARIABLE typed   \* a text, a program, or nothing any more

Texts == <<
  Upto(Ones({"a", "]", "/", "=", "\n", "return", "in", "do", "true"}) \cup {<<"+", "+">>}, 4),
  Upto(Ones({"/", "[", "]", "\\", "a", "\n", "g"}) \cup {<<"=", "/">>}, 5),
  Upto(Ones({"0", "1", "8", "x", "e", ".", "+"}), 5),
  Upto(Ones({"\"", "'", "\\", "\n", "n", "4", "x"}) \cup {<<"1", "0">>}, 5),
  Upto(Ones({"/", "*", "\n", " ", "a", "return"}), 6),
  Upto(Ones({">", "<", "=", "!", "+", "-", "&", "|", "%", "^", "~", "?", ":"}), 4),
  Upto(Ones({"a", "1", "in", "\\", " ", "u"}) \cup {<<"\\", "u", "0", "0", "4", "1">>, <<"\\", "u", "0", "0", "1", "8">>}, 4),
  Upto(Ones({"a", "/", ")"}) \cup {<<"+", "+">>}, 6)>>

allVars == <<toks, alphabet, text, script, typed>>
AllInit ==
  /\ typed \in {"text", "program"}
  /\ Init /\ (typed = "text" => alphabet = 1)
  /\ TkInit /\ (typed = "program" => script = 1)
HandOver == typed # "nothing" /\ typed' = "nothing" /\ toks' = <<>> /\ text' = <<>> /\ UNCHANGED <<alphabet, script>>
AllNext ==
  \/ typed = "text" /\ TkNext /\ UNCHANGED <<typed, toks, alphabet>>
  \/ typed = "program" /\ Next /\ UNCHANGED <<typed, text, script>>
  \/ HandOver
AllSpec == AllInit /\ [][AllNext]_allVars

\* A text that is handed over to the scanners is cut into the same tokens by all of
\* them, at the places where they stand (r.js 4850-5800, 9400-9770, 15000-15320).
SameTokens == [][HandOver /\ typed = "text" => TokensAgree]_allVars
\* A program that is handed over to the parsers is the same tree for all of them, and
\* what the two versions of UglifyJS print is that tree again.
SameTrees == [][HandOver /\ typed = "program" => TreesAgree]_allVars
=============================================================================
