----------------------------- MODULE Transport ------------------------------
(***************************************************************************)
(* How the build of html/jquery-require-sample/r.js reads a module's file  *)
(* and rewrites it: transform.toTransport names its anonymous define and   *)
(* lists what its factory requires, the namespace pragma renames the       *)
(* loader's calls, commonJs.convert wraps a CommonJS file.  A file so      *)
(* rewritten and put in a layer must register what the file itself         *)
(* registers when the loader of a page (html/njs/require.js, define) runs  *)
(* it.                                                                     *)
(*                                                                         *)
(* A file is a list of nodes with a type t, a word v and children k:       *)
(* "call" (v: the function called, k: its arguments), "fun" (v: its number *)
(* of parameters, k: its body), "str", "arr", "obj", "name", "num", "if"   *)
(* (v: its test, k: the two branches), "iife" (a function called at once), *)
(* and the marks a CommonJS file is known by.                              *)
(***************************************************************************)
EXTENDS Naturals, Sequences, SequencesExt

N(t, v, k) == [t |-> t, v |-> v, k |-> k]
Lit(s)     == N("str", s, <<>>)
Arr(k)     == N("arr", "", k)
Fun(n, k)  == N("fun", n, k)
Call(f, k) == N("call", f, k)
Nope       == N("none", "", <<>>)
Arg(node, i) == IF i \in DOMAIN node.k THEN node.k[i] ELSE Nope
Is(node, f)  == node.t = "call" /\ node.v = f
Each(list, Op(_)) == <<>> \o [i \in DOMAIN list |-> Op(list[i])]
-----------------------------------------------------------------------------
(* parse.                                                                  *)
\* Every node below a node and it, in the order traverse visits them.
RECURSIVE Nodes(_)
Nodes(node) == <<node>> \o FlattenSeq(Each(node.k, Nodes))
traverse(file) == FlattenSeq(Each(file, Nodes))
First(list, Test(_)) == LET hits == SelectSeq(list, Test) IN IF hits = <<>> THEN Nope ELSE hits[1]
Literals(list) == Each(SelectSeq(list, LAMBDA e : e.t \in {"str", "num"}), LAMBDA e : e.v)
getValidDeps(node) == IF node.t = "arr" THEN Literals(node.k) ELSE <<>>
hasDefine(node) == Is(node, "define")
Configs == {"require.config", "requirejs.config"}
hasRequire(node) == IF node.t = "call" /\ node.v \in {"require", "requirejs"} \cup Configs THEN node.v ELSE ""
findRequireDepNames(nodes) ==
  Literals(Each(SelectSeq(nodes, LAMBDA n : Is(n, "require") /\ Len(n.k) = 1), LAMBDA n : n.k[1]))
\* The standard names in front of what a factory requires, by its parameters.
Standard(params) == CASE params = "0" -> <<>> [] params = "1" -> <<"require">> [] OTHER -> <<"require", "exports", "module">>
getAnonDepsFromNode(fun) == IF fun = Nope THEN <<>> ELSE Standard(fun.v) \o findRequireDepNames(Nodes(fun))
\* The define's own arguments: what parseNode makes of their order.
NameOf(call) == IF Arg(call, 1).t \in {"str", "num"} THEN Arg(call, 1).v ELSE ""
DepsOf(call) ==
  LET a == Arg(call, 1)
      d == CASE a.t = "arr" -> a [] a.t \in {"str", "num"} -> Arg(call, 2) [] OTHER -> Nope
  IN IF a.t \in {"str", "num"} /\ d.t \in {"fun", "obj"} THEN Nope ELSE d
FactoryOf(call) ==
  LET a == Arg(call, 1)   b == Arg(call, 2)
  IN CASE a.t = "arr" -> b
       [] a.t = "fun" -> a
       [] a.t \in {"str", "num"} -> IF b.t = "fun" THEN b ELSE IF b.t = "obj" THEN Nope ELSE Arg(call, 3)
       [] OTHER -> Nope
\* The match a node is: its kind, name and dependencies, or nothing.
parseNode(node) ==
  LET config == Arg(node, 1).t = "obj"
      deps == getValidDeps(IF config THEN Arg(node, 2) ELSE Arg(node, 1))
      own == DepsOf(node)
  IN IF hasRequire(node) \in {"require", "requirejs"}
     THEN IF deps = <<>> THEN <<>> ELSE <<<<"require", "", deps>>>>
     ELSE IF ~hasDefine(node) \/ node.k = <<>> THEN <<>>
     ELSE IF own.t = "arr" THEN <<<<"define", NameOf(node), getValidDeps(own)>>>>
     ELSE IF FactoryOf(node).t = "fun" THEN <<<<"define", NameOf(node), getAnonDepsFromNode(FactoryOf(node))>>>>
     ELSE IF own # Nope \/ FactoryOf(node) # Nope THEN <<>>
     ELSE <<<<"define", NameOf(node), <<>>>>>>
\* The matches of a tree, with the nodes they are. An if whose test the has
\* replacement made a literal shows one branch; a match is dug into when
\* deeper holds of its kind.
RECURSIVE recurse(_, _, _)
recurse(node, has, deeper) ==
  IF has /\ node.t = "if" /\ node.v \in {"true", "false"}
  THEN recurse(node.k[IF node.v = "true" THEN 1 ELSE 2], has, deeper)
  ELSE LET hit == Each(parseNode(node), LAMBDA m : <<m, node>>)
       IN hit \o IF hit # <<>> /\ hit[1][1][1] \notin deeper THEN <<>>
                 ELSE FlattenSeq(Each(node.k, LAMBDA n : recurse(n, has, deeper)))
Matches(file, has, deeper) == FlattenSeq(Each(file, LAMBDA n : recurse(n, has, deeper)))
AnyKind == {"define", "require"}
findDependencies(file, has) == FlattenSeq(Each(Matches(file, has, AnyKind), LAMBDA m : m[1][3]))
\* The defines parse writes for a file: <<name, dependencies>>, the module's own
\* with those of no name; and whether it asks for a define.
parse(name, file, has, nested) ==
  LET found == Each(Matches(file, has, IF nested THEN AnyKind ELSE {}), LAMBDA m : m[1])
      anon == FlattenSeq(Each(SelectSeq(found, LAMBDA m : m[2] = ""), LAMBDA m : m[3]))
      named == Each(SelectSeq(found, LAMBDA m : m[2] # ""), LAMBDA m : <<m[2], m[3]>>)
      own == SelectInSeq(named, LAMBDA m : m[1] = name)
  IN [defines |-> IF own # 0 THEN [named EXCEPT ![own] = <<name, @[2] \o anon>>]
                  ELSE IF anon # <<>> THEN Append(named, <<name, anon>>) ELSE named,
      needs |-> ~\E i \in DOMAIN found : found[i][1] = "define" /\ found[i][2] \in {"", name}]
findCjsDependencies(file) == findRequireDepNames(traverse(file))
hasDefDefine(node)  == node.t = "defdefine"
hasDefineAmd(node)  == node.t = "amd"
usesAmdOrRequireJs(file) ==
  \E i \in DOMAIN traverse(file) : LET n == traverse(file)[i] IN
    \/ hasDefDefine(n) \/ hasDefineAmd(n) \/ hasDefine(n)
    \/ hasRequire(n) # "" /\ Arg(n, 1).t \in {"obj", "arr"}
\* What shows a CommonJS file; exports that a variable of the file holds are its own.
usesCommonJs(file) ==
  LET nodes == traverse(file)
      At(t) == {i \in DOMAIN nodes : nodes[i].t = t}
  IN \/ At("dirname") \cup At("moduleExports") # {}
     \/ \E i \in At("exports") : ~\E j \in At("varExports") : j < i
     \/ findCjsDependencies(file) # <<>>
-----------------------------------------------------------------------------
CONSTANTS Args,       \* the argument lists a define call of a file may have
          Others,     \* other statements of a file
          MaxLength   \* statements in a file

VARIABLE file

(* The two ways a file is run.                                             *)
Module == "m"   \* the module the file is
-----------------------------------------------------------------------------
(* What a page's loader registers: define, with the name of the script.    *)
TextScan(fun) == IF fun.v = "0" THEN <<>> ELSE Standard(fun.v) \o findRequireDepNames(Nodes(fun))
Registered(call, script) ==
  LET named == Arg(call, 1).t = "str"
      rest == IF named THEN Tail(call.k) ELSE call.k
      listed == rest # <<>> /\ rest[1].t = "arr"
      body == IF listed THEN Tail(rest) ELSE rest
      deps == IF listed THEN Literals(rest[1].k) ELSE <<>>
      factory == IF body = <<>> THEN Nope ELSE body[1]
  IN [name |-> IF named THEN Arg(call, 1).v ELSE script,
      deps |-> IF deps = <<>> /\ factory.t = "fun" THEN TextScan(factory) ELSE deps,
      factory |-> factory]
\* The calls of f a script makes while it loads: in functions called at once and
\* in the branches taken, not in factories.
RECURSIVE Made(_, _)
Made(list, f) ==
  FlattenSeq(Each(list, LAMBDA n :
    CASE Is(n, f) -> <<n>>
      [] n.t = "iife" -> Made(n.k, f)
      [] n.t = "if" -> Made(<<n.k[IF n.v = "false" THEN 2 ELSE 1]>>, f)
      [] OTHER -> <<>>))
Runs(list, f, script) == Each(Made(list, f), LAMBDA c : Registered(c, script))
-----------------------------------------------------------------------------
(* toTransport: the define calls it finds by their tokens, in the order of *)
(* the file.                                                               *)
Action(call) ==
  LET a == Arg(call, 1).t   only == Len(call.k) = 1
  IN CASE a \in {"arr", "obj"} -> "skip"
       [] a = "fun" -> "scan"
       [] a = "str" -> IF Arg(call, 2).t = "fun" THEN "scan" ELSE "skip"
       [] a \in {"name", "this"} /\ only -> "empty"
       [] a = "num" /\ only -> "skip"
       [] OTHER -> "none"
Defining(call, ns) == call.t = "call" /\ call.v \in {"define"} \cup (IF ns = "" THEN {} ELSE {ns \o ".define"})
Found(call, ns) == Defining(call, ns) /\ call.k # <<>> /\ Action(call) # "none"
NeedsId(call) == Arg(call, 1).t # "str"
\* The paths of the calls found, a call before those in it.
RECURSIVE PathsIn(_, _)
PathsIn(list, ns) ==
  FlattenSeq(<<>> \o [i \in DOMAIN list |->
    (IF Found(list[i], ns) THEN <<<<i>>>> ELSE <<>>) \o Each(PathsIn(list[i].k, ns), LAMBDA p : <<i>> \o p)])
RECURSIVE At(_, _)
At(list, path) == IF Len(path) = 1 THEN list[path[1]] ELSE At(list[path[1]].k, Tail(path))
RECURSIVE Put(_, _, _)
Put(list, path, node) ==
  IF Len(path) = 1 THEN [list EXCEPT ![path[1]] = node] ELSE [list EXCEPT ![path[1]].k = Put(@, Tail(path), node)]
\* The calls to change: the anonymous one and the only named one without its
\* dependencies. None when two are anonymous.
defineRanges(list, ns) ==
  LET paths == PathsIn(list, ns)
      anon == SelectSeq(paths, LAMBDA p : NeedsId(At(list, p)))
      scans == SelectSeq(paths, LAMBDA p : ~NeedsId(At(list, p)) /\ Action(At(list, p)) = "scan")
      named == IF Len(scans) > 1 THEN <<>> ELSE scans
  IN IF Len(anon) > 1 THEN <<>>
     ELSE SelectSeq(paths, LAMBDA p : p \in ToSet(anon) \cup ToSet(named))
\* The end of a call is lost when another one is found inside it.
EndLost(list, path, ns) == PathsIn(At(list, path).k, ns) # <<>>
\* Mutant: the dependencies are put in front of the name.
InsertedFirst(call, deps, kept) == [call EXCEPT !.k = kept \o <<Arr(Each(deps, Lit))>> \o @]
Inserted(call, deps, kept) ==
  LET list == Arr(Each(deps, Lit))
  IN IF NeedsId(call) THEN [call EXCEPT !.k = kept \o @]
     ELSE [call EXCEPT !.k = kept \o <<@[1], list>> \o Tail(@)]
\* One change, from the last call of the file up: kept is the text put in so far,
\* which is put in every call that is changed after.
Changed(st, path, ns, name) ==
  LET call == At(st.list, path)
      deps == getAnonDepsFromNode(IF NeedsId(call) THEN Arg(call, 1) ELSE Arg(call, 2))
      scan == Action(call) = "scan"
      id == IF NeedsId(call) /\ name # "" THEN <<Lit(name)>> ELSE <<>>
      more == st.kept \o id \o (IF scan /\ NeedsId(call) THEN <<Arr(Each(deps, Lit))>> ELSE <<>>)
      new == IF scan THEN Inserted(call, deps, more) ELSE [call EXCEPT !.k = more \o @]
  IN [list |-> Put(st.list, path, IF ns # "" /\ call.v = "define" THEN [new EXCEPT !.v = ns \o ".define"] ELSE new),
      kept |-> more,
      ok |-> st.ok /\ ~(scan /\ EndLost(st.list, path, ns)),
      found |-> st.found \cup {IF NeedsId(call) THEN name ELSE Arg(call, 1).v}]
toTransport(list, ns, name) ==
  FoldRight(LAMBDA path, st : Changed(st, path, ns, name), defineRanges(list, ns),
            [list |-> list, kept |-> <<>>, ok |-> TRUE, found |-> {}])
\* A named define without its dependencies above the anonymous one: it gets the
\* text put in the anonymous one.
Carried(list, ns) ==
  LET r == defineRanges(list, ns) IN Len(r) = 2 /\ ~NeedsId(At(list, r[1]))
-----------------------------------------------------------------------------
(* The namespace pragma and the CommonJS conversion.                       *)
Named(f, ns) == ns \o "." \o f
\* parse.renameNamespace: the calls that parse matches, the inside of a define left alone.
RECURSIVE renameNamespace(_, _)
renameNamespace(list, ns) ==
  Each(list, LAMBDA n :
    LET hit == parseNode(n)
        in == [n EXCEPT !.k = IF hit # <<>> /\ hit[1][1] = "define" THEN @ ELSE renameNamespace(@, ns)]
    IN IF hit # <<>> THEN [in EXCEPT !.v = Named(@, ns)] ELSE in)
RECURSIVE renameConfig(_, _)
renameConfig(list, ns) ==
  Each(list, LAMBDA n : LET in == [n EXCEPT !.k = renameConfig(@, ns)]
                        IN IF n.t = "call" /\ n.v \in Configs THEN [in EXCEPT !.v = Named(@, ns)] ELSE in)
namespace(list, ns) == IF ns = "" THEN list ELSE renameNamespace(renameConfig(list, ns), ns)
convert(list) ==
  IF usesAmdOrRequireJs(list) \/ ~usesCommonJs(list) THEN list ELSE <<Call("define", <<Fun("3", list)>>)>>
\* The names that need no define from the build: the named ones of what parse wrote
\* for the trace, but for a module that needs one, and what toTransport found.
modulesWithNames(list) ==
  LET p == parse(Module, list, TRUE, FALSE)
  IN ({p.defines[i][1] : i \in DOMAIN p.defines} \ (IF p.needs THEN {Module} ELSE {})) \cup toTransport(list, "", Module).found
layerText(list) ==
  toTransport(list, "", Module).list
  \o IF Module \in modulesWithNames(list) THEN <<>> ELSE <<Call("define", <<Lit(Module), Fun("0", <<>>)>>)>>
-----------------------------------------------------------------------------
(* Files are put together statement by statement.                          *)
Defines == {Call("define", a) : a \in Args}
Inner == {<<d>> : d \in Defines} \cup {<<>>}
Statements == Defines \cup Others \cup {N("iife", "", i) : i \in Inner}
              \cup {N("if", t, <<d, Nope>>) : t \in {"", "true", "false"}, d \in Defines}
              \cup {Call("define", <<Fun("1", <<d>>)>>) : d \in Defines}
TpInit == file = <<>>
TpNext == Len(file) < MaxLength /\ \E s \in Statements : file' = Append(file, s)

\* Written without parameters, a factory takes no part of what it requires.
Sparse(call) == \E i \in DOMAIN call.k : call.k[i].t = "fun" /\ call.k[i].v = "0"
Blind(list) == \E i \in DOMAIN Made(list, "define") : Sparse(Made(list, "define")[i])
\* The file in the layer registers what the file registers, the module's name in
\* place of that of the script (require.js 1944-1999, r.js 20758-21010).
TransportSame ==
  LET out == toTransport(file, "", Module)
  IN out.ok /\ ~Blind(file) /\ ~Carried(file, "") /\ Len(SelectSeq(PathsIn(file, ""), LAMBDA p : NeedsId(At(file, p)))) < 2
       => Runs(out.list, "define", "layer") = Runs(file, "define", Module)
\* A dependency that loading the module would ask for is one the build follows:
\* of the require calls with a list and the defines, in the branches that are left.
BuildFollows ==
  LET deps(entries) == UNION {ToSet(entries[i].deps) : i \in DOMAIN entries}
      asked == deps(Runs(file, "define", Module))
      defines == parse(Module, file, TRUE, FALSE).defines
      written == UNION {ToSet(defines[i][2]) : i \in DOMAIN defines}
  IN asked \subseteq written /\ written \subseteq ToSet(findDependencies(file, TRUE))
\* A layer defines the module of the file once: by the file's own define, or, when
\* the file has none, by the one the build adds; of files with one anonymous define
\* at most and none in a branch that is left out (20066-20070, 22538-22541, 24259-24268).
DefinedOnce ==
  LET anon == SelectSeq(PathsIn(file, ""), LAMBDA p : NeedsId(At(file, p)))
      made == Runs(file, "define", Module)
      mine(list) == SelectSeq(list, LAMBDA d : d.name = Module)
  IN toTransport(file, "", Module).ok /\ ~Carried(file, "") /\ Len(mine(made)) < 2 /\ Len(anon) < 2
     /\ (\A i \in DOMAIN file : file[i].v # "false")
       => Len(mine(Runs(layerText(file), "define", "layer"))) = 1
\* In a namespace, every call that registers while the file loads is the one of
\* the namespace, with the same arguments, and a factory still calls its own.
NamespaceSame ==
  LET out == toTransport(namespace(file, "ns"), "ns", Module)
      here == toTransport(file, "", Module)
  IN out.ok /\ here.ok /\ ~Carried(file, "")
       => Runs(out.list, "ns.define", Module) = Runs(here.list, "define", Module) /\ Made(out.list, "define") = <<>>
\* A file converted is not converted again, not even after its define got its
\* name: the build converts on tracing, on writing and in the last pass. And what
\* is converted keeps what it requires.
ConvertOnce ==
  LET once == convert(file)
      layer == toTransport(once, "", Module)
  IN /\ convert(once) = once
     /\ layer.ok => convert(layer.list) = layer.list
     /\ once # file => ToSet(findCjsDependencies(file)) \subseteq ToSet(findDependencies(once, FALSE))
\* Together: what the build writes for a file registers what the file does, needs what it
\* needs, and stays as it is when it is written again.
ModulesCarried == TransportSame /\ BuildFollows /\ DefinedOnce /\ NamespaceSame /\ ConvertOnce
=============================================================================
