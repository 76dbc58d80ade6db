------------------------------ MODULE MCBuild -------------------------------
(***************************************************************************)
(* The module names of html/njs/require.js and what html/jquery-require-   *)
(* sample/r.js does when it builds, for TLC: names, configuration, layers, *)
(* modules, style sheets, source maps and promises, and what the two       *)
(* versions of UglifyJS do to programs before they print them: ast_squeeze,*)
(* the Compressor, and the mangling of names.  A behaviour is one of one   *)
(* part, and the others stay in an initial state.  Where a part computes   *)
(* something of what is put together step by step, it does so when it is   *)
(* handed over, which may be at any time and ends the behaviour.           *)
(***************************************************************************)
EXTENDS JsTree, Prim, FiniteSets, TLC

VARIABLES part,
  name, base,
  graph, ver, edits, builds, mods, combined, phase, at, out, cache, layers, shadows, temp, index,
  cmd, file, main, args,
  statements,
  maps, printed, node, mapOps,
  source, disk, todo, combinedCss, imports,
  program, second, hoist_vars,
  scopes, toplevel

-----------------------------------------------------------------------------
(* Module names.                                                           *)

GivenNames == UNION {[1 .. n -> {"a", "b", "p", "main", ".", ".."}] : n \in 1 .. 4}
Bases == {<<>>} \cup UNION {[1 .. n -> {"a", "b", "p"}] : n \in 1 .. 3}
Far == (<<"a">> :> <<"lib", "a">>) @@ (<<"a", "b">> :> <<"far">>) @@ (<<"main">> :> <<"top">>)
Packages == "p" :> [location |-> <<"packs", "p">>, main |-> "main"]
Maps == (<<"a">> :> ((<<"b">> :> <<"b1">>) @@ (<<"b", "a">> :> <<"b2", "x">>))) @@ (<<"a", "b">> :> (<<"b">> :> <<"b3">>))
        @@ (<<"p">> :> (<<"a">> :> <<"q">>))
Star == (<<"b", "a", "b">> :> <<"s">>) @@ (<<"b">> :> <<"s1">>) @@ (<<"main">> :> <<"p">>)
Nm == INSTANCE ModuleNames WITH Paths <- Far, Pkgs <- Packages, Map <- Maps, StarMap <- Star, BaseUrl <- <<"scripts">>

-----------------------------------------------------------------------------
(* Builds.                                                                 *)

Graph(a, b, c, d) == ("a" :> a) @@ ("b" :> b) @@ ("c" :> c) @@ ("d" :> d)
Graphs == {Graph(<<"b", "c">>, <<"c">>, <<>>, <<"a">>), Graph(<<"b">>, <<"a", "c">>, <<>>, <<"c", "b">>), Graph(<<"b">>, <<"c">>, <<"a">>, <<>>),
           Graph(<<"c", "b">>, <<"d">>, <<"b">>, <<"c">>), Graph(<<>>, <<"a">>, <<"a", "b">>, <<"a">>)}
Layer(n, inc, ex, sh) == [name |-> n, include |-> inc, exclude |-> ex, shallow |-> sh]
Profiles == {<<Layer("a", <<"a">>, <<>>, {})>>, <<Layer("a", <<"a", "d">>, <<>>, {}), Layer("b", <<"b">>, <<>>, {})>>,
             <<Layer("b", <<"b">>, <<"c">>, {}), Layer("a", <<"a">>, <<"b">>, {})>>,
             <<Layer("a", <<"a">>, <<"b">>, {}), Layer("b", <<"b">>, <<>>, {"c"})>>,
             <<Layer("c", <<"c">>, <<>>, {}), Layer("b", <<"b">>, <<"c">>, {}), Layer("a", <<"a">>, <<"b">>, {})>>,
             <<Layer("d", <<"d">>, <<>>, {"b"}), Layer("b", <<"b">>, <<>>, {})>>}
BdIdle == graph = Graph(<<>>, <<"a">>, <<"a", "b">>, <<"a">>)

-----------------------------------------------------------------------------
(* Configurations of a build.                                              *)

Rel(s) == [abs |-> FALSE, seg |-> s]
Abs(s) == [abs |-> TRUE, seg |-> s]
Unset == Rel(<<"?">>)
Config(appDir, dir, baseUrl, paths, opt, n) ==
  [appDir |-> appDir, dir |-> dir, baseUrl |-> baseUrl, orig |-> Unset, out |-> Unset, paths |-> paths, opt |-> opt, name |-> n, modules |-> FALSE]
Roots == {Unset, Rel(<<"js">>), Rel(<<"..", "lib">>)}
PathMaps == {<<>>, "j" :> Rel(<<"j">>), "j" :> Rel(<<"..", "k">>), "l" :> Abs(<<"l">>)}
Commands == {Config(Unset, dir, root, p, o, "m") : dir \in {Unset, Rel(<<"out">>)}, root \in {Unset, Rel(<<"src">>)},
                                                   p \in {<<>>, "j" :> Rel(<<"i">>)}, o \in {"", "y"}}
BuildFiles == {Config(app, dir, root, p, o, "") : app \in {Unset, Rel(<<"app">>)}, dir \in {Unset, Rel(<<"..", "out">>)},
                                                  root \in Roots, p \in PathMaps, o \in {"", "x"}}
MainFiles == {Config(Unset, Unset, root, p, o, "") : root \in Roots, p \in PathMaps, o \in {"", "z"}}
Bd == INSTANCE Build WITH
  Files <- {"a", "b", "c", "d"}, Api <- {"d"}, MaxBuilds <- 2, MaxEdits <- 1,
  Cwd <- Abs(<<"c">>), BuildDir <- Abs(<<"p">>), MainDir <- Abs(<<"p", "app", "js">>),
  Arguments <- {<<<<"paths", "j">>, "1">>, <<<<"paths", "l">>, "2">>, <<<<"paths", "j">>, "3">>, <<<<"name">>, "4">>, <<<<"a", "b">>, "5">>}
CfIdle == cmd = Config(Unset, Unset, Unset, <<>>, "", "m")

-----------------------------------------------------------------------------
(* Files of modules, made ready for transport.                             *)

Node(t, v, k) == [t |-> t, v |-> v, k |-> k]
Lit(v) == Node("str", v, <<>>)
Fun(params, k) == Node("fun", params, k)
List(k) == Node("arr", "", k)
Call(f, k) == Node("call", f, k)
Needs(m) == Call("require", <<Lit(m)>>)
Plain == Node("obj", "", <<>>)
DefineArgs == {<<List(<<Lit("a")>>), Fun("1", <<>>)>>, <<Fun("0", <<>>)>>, <<Fun("1", <<Needs("b")>>)>>, <<Fun("3", <<Needs("b"), Needs("a")>>)>>,
               <<Lit("n"), Fun("1", <<Needs("c")>>)>>, <<Lit("m"), Fun("1", <<Needs("c")>>)>>, <<Lit("n"), List(<<Lit("a")>>), Fun("1", <<>>)>>,
               <<Lit("n"), Plain>>, <<Plain>>, <<Node("name", "f", <<>>)>>, <<Node("num", "5", <<>>)>>}
Others == {Needs("b"), Call("require", <<List(<<Lit("a")>>), Fun("0", <<Needs("d"), Call("define", <<Lit("o"), List(<<>>), Fun("0", <<>>)>>)>>)>>),
           Call("require.config", <<Plain>>), Call("require", <<Plain, List(<<Lit("e")>>)>>),
           Node("exports", "", <<>>), Node("moduleExports", "", <<>>), Node("varExports", "", <<>>), Node("amd", "", <<>>), Call("g", <<Needs("b")>>)}
Tp == INSTANCE Transport WITH Args <- DefineArgs, MaxLength <- 2, file <- statements

-----------------------------------------------------------------------------
(* Source maps.                                                            *)

Mapping(gl, gc, src, ol, oc, n) == [gl |-> gl, gc |-> gc, src |-> src, ol |-> ol, oc |-> oc, name |-> n]
Mappings == {Mapping(1, 0, 1, 1, 0, 0), Mapping(1, 17, 0, 0, 0, 0), Mapping(1, 5, 2, 2, 40, 2),
             Mapping(2, 16, 1, 2, 5, 0), Mapping(2, 5, 0, 0, 0, 0), Mapping(4, 0, 1, 3, 0, 1),
             Mapping(4, 40, 2, 2, 20, 0), Mapping(0, 0, 1, 1, 1, 0), Mapping(1, 0, 1, 0, 0, 0), Mapping(1, 0, 0, 0, 0, 1)}
Sm == INSTANCE SourceMaps WITH MaxMappings <- 3, Spots <- {<<1, 0>>, <<2, 16>>, <<5, 0>>}, MaxTokens <- 2,
        Texts <- {<<>>, <<"x">>, <<"x", "\n", "x">>}, Places <- {<<0, 0, 0>>, <<1, 1, 0>>, <<2, 3, 20>>}, MaxOps <- 3, ops <- mapOps

-----------------------------------------------------------------------------
(* Style sheets.                                                           *)

Item(t, path, v) == [t |-> t, path |-> path, v |-> v]
Imp(path) == Item("import", path, "")
Media(path) == Item("import", path, "print")
Rest(n, url) == <<Item("comment", <<n>>, "license"), Item("rule", <<>>, "rule " \o n), Item("comment", <<n, n>>, "plain"), Item("url", url, n)>>
SheetA == {<<>>, <<Imp(<<"b">>)>>, <<Imp(<<"s", "c">>)>>, <<Imp(<<"b">>), Imp(<<"s", "c">>)>>, <<Imp(<<"s", "c">>), Imp(<<"b">>)>>,
           <<Imp(<<"s", "c">>), Media(<<"b">>)>>, <<Imp(<<"i">>), Imp(<<"s", "d">>)>>}
SheetB == {<<>>, <<Imp(<<".", "s", "c">>)>>, <<Imp(<<"i">>), Imp(<<".", "s", "d">>)>>}
SheetC == {<<>>, <<Imp(<<"d">>)>>, <<Imp(<<"..", "b">>)>>, <<Media(<<"d">>)>>}
SheetD == {<<>>, <<Imp(<<"c">>)>>}
Urls == {<<"u">>, <<"..", "u">>, <<".", "t", "..", "u">>, <<".", "..", "u">>}
Directory(ia, ib, ic, id, u) ==
  (<<"a">> :> (ia \o Rest("a", <<"u">>))) @@ (<<"b">> :> (ib \o Rest("b", <<".", "u">>)))
  @@ (<<"s", "c">> :> (ic \o Rest("c", u))) @@ (<<"s", "d">> :> (id \o Rest("d", u)))
\* No circle of imports from directory to directory.
Circle(ib, ic) == ib # <<>> /\ ic = <<Imp(<<"..", "b">>)>>
Sheets == {Directory(s[1], s[2], s[3], s[4], s[5]) : s \in {t \in SheetA \X SheetB \X SheetC \X SheetD \X Urls : ~Circle(t[2], t[3])}}
Cs == INSTANCE Css WITH Ignore <- {<<"s", "d">>}, combined <- combinedCss
CsIdle == source = Directory(<<>>, <<>>, <<>>, <<>>, <<"u">>) /\ ~combinedCss

-----------------------------------------------------------------------------
(* Promises.                                                               *)

PmIdle == sync

-----------------------------------------------------------------------------
(* Programs: an expression in a few statements, or one to three            *)
(* statements; and scopes.                                                 *)

A == NameOf("a")
B == NameOf("b")
X == NameOf("x")
Y == NameOf("y")
F == CallOf("f")
G == CallOf("g")
Atoms == {A, F, G, NumOf("0"), NumOf("1"), TrueOf, Leaf("str", "s")}
Small == {Not(A), Not(F), Binary("&&", A, F), Binary("||", F, B), Binary("===", Not(A), Not(F)), Binary("==", TrueOf, A),
          Binary("+", A, Leaf("str", "")), Cond(A, F, G), Assign("=", A, Binary("+", A, F)), Seq2(F, B), Binary("<", A, F), Unary("typeof", F),
          Binary("&&", TrueOf, F), Binary("||", NumOf("0"), F), Binary("+", NumOf("1"), NumOf("1"))}
Expressions ==
  {Not(e) : e \in Small \cup Atoms}
  \cup {Binary(o, p[1], p[2]) : o \in {"&&", "||", "===", "!=", "<", "+"}, p \in (Atoms \X (Atoms \cup Small)) \cup (Small \X Atoms)}
  \cup {Cond(c, e, d) : c \in Small, e, d \in {A, F, Not(A)}} \cup {Seq2(e, d) : e, d \in Small \cup {A}}
  \cup {Assign(o, A, e) : o \in {"=", "+"}, e \in Small}
Branches == {Cond(e, Assign("=", A, B), Assign("=", A, F)) : e \in Small}

Statements ==
  {Stat(F), Stat(G), Stat(Assign("=", A, B)), Stat(Assign("=", X, A)), Return(A), Return(X), Return(Null), Throw(F),
   Block(<<Stat(F), Stat(G)>>), VarOf(<<Def("x", F)>>), VarOf(<<Def("x", Null)>>), Leaf("defun", "h")}
  \cup {If(A, Stat(F), Null), If(A, Stat(F), Stat(G)), If(F, Return(B), Null), If(A, Block(<<Stat(G), Return(F)>>), Null),
        If(Not(A), Return(F), Return(B)), If(A, Block(<<>>), Stat(F)), If(A, If(F, Stat(G), Null), Null), If(TrueOf, Stat(F), Stat(G)),
        If(A, Stat(F), Return(Null)), If(A, Block(<<>>), Null), If(A, Block(<<VarOf(<<Def("x", A)>>), Stat(F)>>), Null),
        If(Not(F), Block(<<Stat(G), Stat(F)>>), Stat(G))}
  \cup {While(A, Stat(G)), While(TrueOf, Stat(F)), While(A, Block(<<If(F, Break, Null), Stat(G)>>)),
        While(A, Block(<<If(A, Continue, Null), Stat(F)>>))}
ForLoop == For(VarOf(<<Def("x", A)>>), Binary("<", X, NumOf("1")), Assign("+", X, NumOf("1")), Stat(F))
StatementsOf ==
  [squeeze  |-> Statements \cup {VarOf(<<Def("x", A), Def("y", Binary("+", X, B))>>), Return(Binary("+", Assign("=", X, F), A)), Return(Y)},
   compress |-> Statements \cup {VarOf(<<Def("x", F), Def("y", X)>>), Return(Binary("+", X, Y)), ForLoop, If(A, Block(<<Stat(F), Return(Null)>>), Null),
                                 If(A, Block(<<If(F, Return(A), Null), Return(Null)>>), Stat(G)),
                                 While(A, Block(<<Stat(F), If(B, Block(<<Stat(G), Continue>>), Null), Stat(F)>>))}]
Thirds ==
  [squeeze  |-> StatementsOf["squeeze"],
   compress |-> {Stat(F), Return(A), Return(Y), Return(Null), If(F, Return(B), Null), VarOf(<<Def("x", F)>>), Stat(Assign("=", X, A)),
                 Leaf("defun", "h"), While(A, Stat(G))}]
Used ==
  [squeeze  |-> UNION {{<<Return(e)>>, <<Stat(e), Return(A)>>, <<If(e, Return(A), Stat(F))>>} : e \in Expressions},
   compress |-> UNION {{<<Return(e)>>, <<If(e, Return(A), Stat(F))>>} : e \in Expressions \cup Branches}]

Sq == INSTANCE Squeeze
Co == INSTANCE Compress
Mg == INSTANCE Scopes WITH Names <- {0, 9}, Used <- {0, 9}, MaxScopes <- 3

-----------------------------------------------------------------------------
Parts == {"names", "build", "config", "transport", "maps", "css", "prim", "squeeze", "compress", "mangle"}
InitOf(p) ==
  /\ part = p
  /\ name = <<>> /\ base \in (IF p = "names" THEN Bases ELSE {<<>>})
  /\ Bd!BInit /\ (p # "build" => BdIdle)
  /\ Bd!CfInit /\ (p # "config" => CfIdle)
  /\ Tp!TpInit
  /\ Sm!SmInit /\ (p # "maps" => node.place = <<0, 0, 0>>)
  /\ Cs!CsInit /\ (p # "css" => CsIdle)
  /\ PmInit /\ (p # "prim" => PmIdle)
  /\ program = <<>> /\ hoist_vars = FALSE /\ second \in (IF p = "squeeze" THEN BOOLEAN ELSE {FALSE})
  /\ Mg!ScInit /\ (p # "mangle" => ~toplevel)
Init == \E p \in Parts : InitOf(p)

nmVars == <<name, base>>
bdVars == <<graph, ver, edits, builds, mods, combined, phase, at, out, cache, layers, shadows, temp, index>>
cfVars == <<cmd, file, main, args>>
smVars == <<maps, printed, node, mapOps>>
csVars == <<source, disk, todo, combinedCss, imports>>
programVars == <<program, second, hoist_vars>>
scopeVars == <<scopes, toplevel>>
vars == <<part, nmVars, bdVars, cfVars, statements, smVars, csVars, pmvars, programVars, scopeVars>>

\* A step of one part.
Only(p) ==
  /\ part = p /\ UNCHANGED part
  /\ (p # "names" => UNCHANGED nmVars) /\ (p # "build" => UNCHANGED bdVars)
  /\ (p # "config" => UNCHANGED cfVars) /\ (p # "transport" => UNCHANGED statements) /\ (p # "maps" => UNCHANGED smVars)
  /\ (p # "css" => UNCHANGED csVars) /\ (p # "prim" => UNCHANGED pmvars)
  /\ (p \notin {"squeeze", "compress"} => UNCHANGED programVars) /\ (p # "mangle" => UNCHANGED scopeVars)
GiveName == name = <<>> /\ name' \in GivenNames /\ UNCHANGED base
ByStatement == \A i \in DOMAIN program : program[i] \in StatementsOf[part]
Write ==
  /\ UNCHANGED <<second, hoist_vars>>
  /\ \/ program = <<>> /\ program' \in Used[part]
     \/ Len(program) < 2 /\ ByStatement /\ \E s \in StatementsOf[part] : program' = Append(program, s)
     \/ Len(program) = 2 /\ ByStatement /\ \E s \in Thirds[part] : program' = Append(program, s)
HoistVars ==
  /\ ~hoist_vars /\ \E i \in DOMAIN program : Co!VarsOf(program[i]) # <<>>
  /\ hoist_vars' = TRUE /\ UNCHANGED <<program, second>>
HandOver ==
  /\ part \in {"config", "transport", "squeeze", "compress", "mangle"} /\ part' = "none"
  /\ file' = Bd!NoConfig /\ main' = Bd!NoConfig /\ args' = <<>> /\ statements' = <<>>
  /\ program' = <<>> /\ hoist_vars' = FALSE /\ scopes' = SubSeq(scopes, 1, 1)
  /\ UNCHANGED <<nmVars, bdVars, cmd, smVars, csVars, pmvars, second, toplevel>>
Next ==
  \/ HandOver
  \/ Only("names") /\ GiveName
  \/ Only("build") /\ Bd!BNext
  \/ Only("config") /\ Bd!CfNext
  \/ Only("transport") /\ Tp!TpNext
  \/ Only("maps") /\ Sm!SmNext
  \/ Only("css") /\ Cs!CsNext
  \/ Only("prim") /\ PmNext
  \/ Only("squeeze") /\ Write
  \/ Only("compress") /\ (Write \/ HoistVars)
  \/ Only("mangle") /\ Mg!ScNext
Spec == Init /\ [][Next]_vars

-----------------------------------------------------------------------------
(* What must hold.                                                         *)

\* A name means the same module whoever asks for it and however it is spelled, its
\* identifier is final, and configuration is applied by the longest fit
\* (require.js normalize and nameToUrl; ModuleNames.tla).
NamesFinal == part = "names" => Nm!NamesFinal
\* A later part of the configuration wins, each path keeps the place it was written
\* for, and the build writes in its own directory only (Build.tla).
ConfigMerged == [][HandOver /\ part = "config" => Bd!ConfigMerged]_vars
\* A layer holds, in order, all that its modules need and no other layer gives, read at
\* one moment, in this build and in the next one over edited sources (Build.tla).
LayersWhole == part = "build" => Bd!LayersWhole
\* A file rewritten for a layer registers what it would register by itself
\* (Transport.tla).
ModulesCarried == [][HandOver /\ part = "transport" => Tp!ModulesCarried]_vars
\* Mappings survive being written, read, searched and passed on from one map through
\* another (SourceMaps.tla).
MapsLead == part = "maps" => Sm!MapsLead
\* A flattened style sheet shows the page as the separate ones did (Css.tla).
SheetsKept == part = "css" => Cs!SheetsKept
\* A program that was squeezed, compressed or given short names does what it did before,
\* call by call and value by value (Squeeze.tla, Compress.tla, Scopes.tla).
ShrunkDoesSame ==
  [][HandOver => /\ part = "squeeze" => Sq!SqueezedDoesSame /\ Sq!SqueezedDeclares /\ Sq!LiftedDoesSame
                 /\ part = "compress" => Co!CompressedDoesSame /\ Co!OwnStayOwn
                 /\ part = "mangle" => Mg!SameMeaning1 /\ Mg!SameMeaning2]_vars

\* What a layer excludes is not in it, with all that it needs ("All the dependencies
\* of the excluded module will be excluded too").
ExcludedOut == part = "build" => Bd!ExcludedOut
=============================================================================
