------------------------------- MODULE Loader -------------------------------
(***************************************************************************)
(* One context of the module loader html/njs/require.js: what the page's   *)
(* require calls, arriving scripts, failing scripts, the 50 ms timer and   *)
(* plugins do to the registry of modules.                                  *)
(*                                                                         *)
(* JavaScript runs a handler to its end, so a handler is one action.  The  *)
(* functions it calls call each other through listeners; they are          *)
(* operators from a state S of the context to the next one.  An exception  *)
(* is S.thrown: every operator leaves a state with an exception alone,     *)
(* up to the handler or the try block that ends it.                        *)
(***************************************************************************)
EXTENDS Naturals, Sequences, FiniteSets
CONSTANTS Scenarios,   \* the pages: which modules there are and what they do
          MaxDepth     \* calls of emit within each other that fit on the stack

VARIABLES scn,         \* the page
          ctx,         \* the context
          made         \* require calls that the page has made

vars == <<scn, ctx, made>>

(* The page: deps, defines and factory give for each name the dependencies *)
(* in its define call, the names that its script defines ("" when the call *)
(* is anonymous) and what its factory does; inner is what the factory      *)
(* requires; paths counts the places a script can be loaded from; plugin   *)
(* is the prefix of a resource; shim the shim configuration, and late the  *)
(* names that only a later require.config configures.                      *)

Names    == DOMAIN scn.deps
NoLis    == [k |-> "none"]
Plain(n) == <<n, 0>>            \* the id of a normalised name
MkReq(n) == <<"_@r", n>>        \* the id of a require call

\* A new Module object; listeners that undef saved are taken over.
NewModule(S, id) ==
  LET saved == id \in DOMAIN S.undefEvents IN
  [S EXCEPT
     !.mods = Append(@, [id |-> id, ev |-> IF saved THEN S.undefEvents[id] ELSE Len(S.evs) + 1,
        url |-> IF id[1] \in Names THEN S.path[id[1]] ELSE 0,
        shim |-> id[1] \in S.shim /\ id[2] = 0, deps |-> <<>>, matched |-> {}, count |-> 0,
        exps |-> <<>>, plugins |-> <<>>, factory |-> NoLis, errback |-> NoLis, value |-> "undefined",
        inited |-> FALSE, enabled |-> FALSE, enabling |-> FALSE, fetched |-> FALSE,
        defining |-> FALSE, defined |-> FALSE, emitted |-> FALSE, complete |-> FALSE,
        error |-> FALSE, ignore |-> FALSE, usingExports |-> FALSE]),
     !.evs = IF saved THEN @ ELSE Append(@, [defined |-> <<>>, error |-> <<>>]),
     !.registry = [i \in DOMAIN @ \cup {id} |-> IF i = id THEN Len(S.mods) + 1 ELSE @[i]]]

getModule(S, id) == IF id \in DOMAIN S.registry THEN S ELSE NewModule(S, id)
Obj(S, id) == IF id \in DOMAIN S.registry THEN S.registry[id] ELSE 0
Drop(f, id) == [i \in DOMAIN f \ {id} |-> f[i]]

IsDefine(S, o)   == S.mods[o].id[1] # "_@r"
Listeners(S, o, name) == S.evs[S.mods[o].ev][name]
ListenTo(S, o, name, lis) == [S EXCEPT !.evs[S.mods[o].ev][name] = Append(@, lis)]

\* The id that a dependency gets.  A plugin's resource whose plugin is not
\* there yet cannot be normalised and gets a number of its own.
makeModuleMap(S, n) ==
  IF scn.plugin[n] # "" /\ Plain(scn.plugin[n]) \notin DOMAIN S.defined
  THEN [S |-> [S EXCEPT !.unnormalized = @ + 1], id |-> <<n, S.unnormalized + 1>>]
  ELSE [S |-> S, id |-> Plain(n)]

cleanRegistry(S, id) == [S EXCEPT !.registry = Drop(@, id),
                                  !.enabledReg = SelectSeq(@, LAMBDA i : i # id)]

\* splice(defQueue.length - 1, 0, ...): in front of the last entry.
takeGlobalQueue(S) ==
  LET q == S.defQueue  n == Len(q) IN
  [S EXCEPT !.defQueue = IF n = 0 THEN S.globalQueue
                         ELSE SubSeq(q, 1, n - 1) \o S.globalQueue \o <<q[n]>>,
            !.globalQueue = <<>>]

\* context.load: a script element for the module is put into the page.
load(S, o) ==
  LET n == S.mods[o].id[1]  url == <<n, S.mods[o].url>> IN
  IF url \in S.urlFetched THEN S
  ELSE [S EXCEPT !.urlFetched = @ \cup {url}, !.net = Append(@, url)]

\* defineDep: because of cycles a listener can be called a second time.
defineDep(S, o, i, val) ==
  IF i \in S.mods[o].matched THEN S
  ELSE [S EXCEPT !.mods[o].matched = @ \cup {i}, !.mods[o].count = @ - 1, !.mods[o].exps[i] = val]

\* The handler of the dependency "exports": the object is there at once.
ExportsHandler(S, o, i) ==
  LET m == S.mods[o]
      T == [S EXCEPT !.mods[o].usingExports = TRUE, !.mods[o].deps[i].id = Plain("exports"),
                     !.mods[o].exps[i] = "exports"]
  IN IF ~IsDefine(S, o) \/ m.value # "undefined" THEN T
     ELSE [T EXCEPT !.mods[o].value = "exports",
                    !.defined = [j \in DOMAIN @ \cup {m.id} |-> IF j = m.id THEN "exports" ELSE @[j]]]

Ready(m) == m.count < 1 /\ ~m.defined

\* What follows F, unless an exception is on its way.
AndThen(S, F(_)) == IF S.thrown = "" THEN F(S) ELSE S

\* Fire closes the circle: whatever a function has called in the end, a listener, or
\* check and enable of another module, is called through it.
RECURSIVE Fire(_, _, _)
Check(S, o)  == Fire(S, [k |-> "check", o |-> o], "")
Enable(S, o) == Fire(S, [k |-> "enable", o |-> o], "")

\* on(depMap, name, fn): a module that has told its listeners calls at once.
on(S, id, name, lis) ==
  LET o == Obj(S, id) IN
  IF id \in DOMAIN S.defined /\ (o = 0 \/ S.mods[o].complete)
  THEN IF name = "defined" THEN Fire(S, lis, S.defined[id]) ELSE S
  ELSE LET T == getModule(S, id) IN ListenTo(T, T.registry[id], name, lis)

RECURSIVE EmitFrom(_, _, _, _, _)
EmitFrom(S, o, name, i, val) ==
  IF S.thrown # "" \/ i > Len(Listeners(S, o, name)) THEN S
  ELSE EmitFrom(Fire(S, Listeners(S, o, name)[i], val), o, name, i + 1, val)

\* Listeners of an error are removed after they were called.
emit(S, o, name, val) ==
  IF S.depth >= MaxDepth THEN [S EXCEPT !.thrown = "RangeError"]
  ELSE AndThen(EmitFrom([S EXCEPT !.depth = @ + 1], o, name, 1, val), LAMBDA T :
         IF name = "error" THEN [T EXCEPT !.depth = @ - 1, !.evs[T.mods[o].ev].error = <<>>]
                           ELSE [T EXCEPT !.depth = @ - 1])

\* onError(err): each module named in the error tells its listeners; with no
\* listener at all req.onError throws.
RECURSIVE OnErrorIds(_, _, _)
OnErrorIds(S, ids, told) ==
  IF ids = <<>> \/ S.thrown # "" THEN [S |-> S, told |-> told]
  ELSE LET o == Obj(S, Head(ids)) IN
       IF o = 0 THEN OnErrorIds(S, Tail(ids), told)
       ELSE LET T == [S EXCEPT !.mods[o].error = TRUE]  l == Listeners(T, o, "error") IN
            OnErrorIds(IF l = <<>> THEN T ELSE emit(T, o, "error", "err"), Tail(ids),
                       told \/ l # <<>>)

Told(r, type, named) ==
  AndThen(r.S, LAMBDA S : IF r.told THEN [S EXCEPT !.told = @ \cup named]
                          ELSE [S EXCEPT !.thrown = type, !.blame = named])
onError(S, type, ids) == Told(OnErrorIds(S, ids, FALSE), type, {ids[i][1] : i \in DOMAIN ids})

\* Module.init: only the first define call for a module counts.
init(S, o, a) ==
  IF S.thrown # "" \/ S.mods[o].inited THEN S
  ELSE LET eb == CASE a.errback # NoLis -> a.errback
                   [] a.errback = NoLis /\ Listeners(S, o, "error") # <<>> -> [k |-> "emit", o |-> o]
                   [] OTHER -> NoLis
           T == IF a.errback # NoLis THEN ListenTo(S, o, "error", a.errback) ELSE S
           U == [T EXCEPT !.mods[o].deps = [i \in DOMAIN a.deps |-> [name |-> a.deps[i], id |-> <<>>]],
                          !.mods[o].exps = [i \in DOMAIN a.deps |-> "undefined"],
                          !.mods[o].factory = a.factory, !.mods[o].errback = eb,
                          !.mods[o].inited = TRUE, !.mods[o].ignore = a.ignore]
       IN Fire(U, [k |-> IF a.enabled \/ U.mods[o].enabled THEN "enable" ELSE "check", o |-> o], "")

\* The module in the registry is enabled, if there is one.
EnableObj(S, id) == IF Obj(S, id) = 0 THEN S ELSE Enable(S, Obj(S, id))

\* Module.callPlugin: the plugin becomes a dependency, and is enabled.
callPlugin(S, o) ==
  LET p == Plain(scn.plugin[S.mods[o].id[1]])
  IN AndThen(EnableObj(on([S EXCEPT !.mods[o].deps = Append(@, [name |-> p[1], id |-> p]),
                                    !.mods[o].exps = Append(@, "plugin")],
                          p, "defined", [k |-> "plugin", o |-> o]), p),
             LAMBDA U : [U EXCEPT !.mods[o].plugins = Append(@, p)])

\* callGetModule: a module that is defined already is skipped.
callGetModule(S, n) ==
  IF Plain(n) \in DOMAIN S.defined THEN S
  ELSE LET T == getModule(S, Plain(n)) IN
       init(T, T.registry[Plain(n)], [deps |-> scn.deps[n], factory |-> [k |-> "module", n |-> n],
                                      errback |-> NoLis, enabled |-> FALSE, ignore |-> FALSE])

\* One entry of the queue of define calls is taken.
TakeDefine(S, n) == IF n = "" THEN onError(S, "mismatch", <<>>) ELSE callGetModule(S, n)

RECURSIVE intakeDefines(_)
intakeDefines(S) ==
  LET T == takeGlobalQueue(S) IN
  IF T.thrown # "" \/ T.defQueue = <<>> THEN T
  ELSE intakeDefines(TakeDefine([T EXCEPT !.defQueue = Tail(@)], Head(T.defQueue)))

\* The function that makeRequire returns, with an array of dependencies.
localRequire(S, a) == AndThen(intakeDefines(S), LAMBDA T : [T EXCEPT !.ticks = Append(@, a)])

\* Module.fetch: the shim's dependencies first, then the script or the plugin.
fetch(S, o) ==
  IF S.mods[o].fetched THEN S
  ELSE LET T == [S EXCEPT !.mods[o].fetched = TRUE, !.late = FALSE] IN
       CASE T.mods[o].shim ->
              localRequire(T, [deps |-> scn.shim[T.mods[o].id[1]], factory |-> [k |-> "shim", o |-> o],
                               errback |-> NoLis])
         [] ~T.mods[o].shim /\ scn.plugin[T.mods[o].id[1]] # "" -> callPlugin(T, o)
         [] OTHER -> load(T, o)

\* A factory requires more, and may throw then.
Throws(S, n) == IF scn.factory[n] = "throws" THEN [S EXCEPT !.thrown = "define", !.blame = {n}] ELSE S
RunFactory(S, n) ==
  Throws(IF scn.inner[n] = <<>> THEN S
         ELSE localRequire(S, [deps |-> scn.inner[n], factory |-> NoLis, errback |-> NoLis]), n)

\* The factory or the callback runs.  early records the dependencies that are
\* not defined at that moment.
execCb(S, o) ==
  LET m == S.mods[o]  f == m.factory  n == m.id[1]
      missing == {<<n, m.deps[i].name>> : i \in {j \in DOMAIN m.deps :
                     m.deps[j].name \in Names /\ Plain(m.deps[j].name) \notin DOMAIN S.defined}}
  IN CASE f.k = "module" ->
            RunFactory([S EXCEPT !.ran[f.n] = IF @ < 2 THEN @ + 1 ELSE @, !.early = @ \cup missing,
                                 !.blind = @ \cup {m.deps[i].name : i \in {j \in DOMAIN m.exps :
                                                      m.exps[j] = "undefined"}}], f.n)
       [] f.k = "callback" -> [S EXCEPT !.called[f.r] = IF @ < 2 THEN @ + 1 ELSE @,
                                        !.early = @ \cup missing]
       [] f.k = "shim" -> IF scn.plugin[S.mods[f.o].id[1]] # "" THEN callPlugin(S, f.o) ELSE load(S, f.o)
       [] f.k = "text" -> init(S, f.o, [deps |-> <<>>, factory |-> [k |-> "value", v |-> m.exps[1]],
                                        errback |-> NoLis, enabled |-> TRUE, ignore |-> FALSE])
       [] OTHER -> S

\* What the module's value becomes: what the factory returned, or the exports
\* object when it returned nothing.
ValueOf(S, o) ==
  LET m == S.mods[o]  f == m.factory
      ret == CASE f.k = "module" -> IF scn.factory[f.n] = "throws" THEN "undefined" ELSE scn.factory[f.n]
               [] f.k = "value" -> f.v
               [] OTHER -> "undefined"
  IN IF f.k = "module" /\ ret = "undefined" /\ m.usingExports THEN m.value ELSE ret

\* The part of Module.check that defines the module.
Defined(S, o, v) ==
  LET id == S.mods[o].id
      T == [S EXCEPT !.mods[o].value = v, !.mods[o].defined = TRUE]
  IN cleanRegistry(IF ~IsDefine(S, o) \/ S.mods[o].ignore THEN T
                   ELSE [T EXCEPT !.defined = [i \in DOMAIN @ \cup {id} |-> IF i = id THEN v ELSE @[i]]], id)

\* After the factory; what it throws goes to the module's listeners, if there are any.
Executed(T, o, guarded, depth) ==
  IF T.thrown = "" THEN Defined(T, o, ValueOf(T, o))
  ELSE IF ~guarded THEN T
  ELSE onError([T EXCEPT !.thrown = "", !.depth = depth, !.mods[o].error = TRUE], "define", <<T.mods[o].id>>)
DefineSelf(S, o) == Executed(execCb(S, o), o, Listeners(S, o, "error") # <<>>, S.depth)

\* The module tells its listeners once that it is defined.
TellDefined(U, o) ==
  LET m == U.mods[o] IN
  IF U.thrown # "" \/ m.error THEN U
  ELSE IF ~m.defined \/ m.emitted THEN [U EXCEPT !.mods[o].defining = FALSE]
  ELSE AndThen(emit([U EXCEPT !.mods[o].defining = FALSE, !.mods[o].emitted = TRUE], o, "defined", m.value),
               LAMBDA X : [X EXCEPT !.mods[o].complete = TRUE])

\* Module.check.
check(S, o) ==
  LET m == S.mods[o]
      T == [S EXCEPT !.mods[o].defining = TRUE]
  IN CASE ~m.enabled \/ m.enabling -> S
       [] ~m.inited -> fetch(S, o)
       [] m.inited /\ m.error -> emit(S, o, "error", "err")
       [] m.inited /\ ~m.error /\ ~m.defining -> TellDefined(IF Ready(m) THEN DefineSelf(T, o) ELSE T, o)
       [] OTHER -> S

\* Module.enable, for each dependency and then for each plugin.
EnableIdle(S, id) ==
  LET q == Obj(S, id) IN IF S.thrown = "" /\ q # 0 /\ ~S.mods[q].enabled THEN Enable(S, q) ELSE S
OnErrback(S, o, id) == AndThen(S, LAMBDA T : IF T.mods[o].errback = NoLis THEN T ELSE on(T, id, "error", T.mods[o].errback))
\* The listeners of a dependency that has got its id.
OnDep(mm, o, i) ==
  OnErrback(on([mm.S EXCEPT !.mods[o].deps[i].id = mm.id, !.mods[o].count = @ + 1],
               mm.id, "defined", [k |-> "dep", o |-> o, i |-> i]), o, mm.id)
EnableMapped(S, id) == IF id[1] \in Names THEN EnableIdle(S, id) ELSE S
EnableDep(S, o, i) ==
  LET d == S.mods[o].deps[i]
      mm == makeModuleMap(S, d.name)
  IN CASE d.id # <<>> -> EnableMapped(S, d.id)
       [] d.id = <<>> /\ d.name = "exports" -> ExportsHandler(S, o, i)
       [] OTHER -> EnableMapped(OnDep(mm, o, i), mm.id)

RECURSIVE EnableDeps(_, _, _)
EnableDeps(S, o, i) ==
  IF S.thrown # "" \/ i > Len(S.mods[o].deps) THEN S ELSE EnableDeps(EnableDep(S, o, i), o, i + 1)

RECURSIVE EnablePlugins(_, _, _)
EnablePlugins(S, o, i) ==
  IF S.thrown # "" \/ i > Len(S.mods[o].plugins) THEN S
  ELSE EnablePlugins(EnableIdle(S, S.mods[o].plugins[i]), o, i + 1)

enable(S, o) ==
  LET id == S.mods[o].id
      T == [S EXCEPT !.enabledReg = IF \E i \in DOMAIN @ : @[i] = id THEN @ ELSE Append(@, id),
                     !.enabledObj = [i \in DOMAIN @ \cup {id} |-> IF i = id THEN o ELSE @[i]],
                     !.mods[o].enabled = TRUE, !.mods[o].enabling = TRUE]
  IN AndThen(EnablePlugins(EnableDeps(T, o, 1), o, 1), LAMBDA U : Check([U EXCEPT !.mods[o].enabling = FALSE], o))

\* The plugin is there.  A resource that could not be normalised waits for its
\* normalised twin; another one is handed to the plugin.
EnableTwin(T, o, id) ==
  LET q == Obj(T, id)
      U == [T EXCEPT !.mods[o].deps = Append(@, [name |-> id[1], id |-> id]), !.mods[o].exps = Append(@, "twin")]
      W == IF Listeners(U, o, "error") = <<>> THEN U ELSE ListenTo(U, q, "error", [k |-> "emit", o |-> o])
  IN IF T.thrown # "" \/ q = 0 THEN T ELSE Enable(W, q)
PluginReady(S, o) ==
  LET m == S.mods[o]  id == Plain(m.id[1]) IN
  IF m.id[2] > 0 THEN EnableTwin(on(S, id, "defined", [k |-> "twin", o |-> o]), o, id)
  ELSE [S EXCEPT !.resources = @ \cup {o}]

\* A dependency arrived, an error is handed on, the page's errback, a plugin or the
\* normalised twin of a resource arrived; a module is checked or enabled.
Fire(S, lis, val) ==
  CASE S.thrown # "" -> S
    [] lis.k = "dep"    -> Check(defineDep(S, lis.o, lis.i, val), lis.o)
    [] lis.k = "emit"   -> emit(S, lis.o, "error", val)
    [] lis.k = "user"   -> [S EXCEPT !.failed[lis.r] = IF @ < 2 THEN @ + 1 ELSE @]
    [] lis.k = "plugin" -> PluginReady(S, lis.o)
    [] lis.k = "twin"   -> init(S, lis.o, [deps |-> <<>>, factory |-> [k |-> "value", v |-> val],
                                           errback |-> NoLis, enabled |-> TRUE, ignore |-> TRUE])
    [] lis.k = "check"  -> check(S, lis.o)
    [] lis.k = "enable" -> enable(S, lis.o)
    [] OTHER -> S

\* require.undef: the listeners of a module that is loading are kept.
undef(S, n) ==
  LET id == Plain(n)  T == takeGlobalQueue(S)  o == Obj(T, id)
      U == [T EXCEPT !.defined = Drop(@, id), !.urlFetched = @ \ {<<n, T.path[n]>>},
                     !.undefEvents = Drop(@, id)]
  IN IF o = 0 THEN U
     ELSE cleanRegistry(IF Listeners(U, o, "defined") = <<>> THEN U
                        ELSE [U EXCEPT !.undefEvents = [i \in DOMAIN @ \cup {id} |->
                                         IF i = id THEN U.mods[o].ev ELSE @[i]]], id)

HasFallback(S, id) == id[2] = 0 /\ id[1] \in Names /\ S.path[id[1]] < scn.paths[id[1]]

\* hasPathFallback: forget the module and require it from the next path.
UseFallback(S, id) ==
  localRequire(undef([S EXCEPT !.path[id[1]] = @ + 1], id[1]),
               [deps |-> <<id[1]>>, factory |-> NoLis, errback |-> NoLis])

\* breakCycle: a dependency that was met on the way is taken as it is.
RECURSIVE breakCycle(_, _), BreakDeps(_, _, _)
breakCycle(B, o) ==
  LET S == B.S  id == S.mods[o].id IN
  IF S.mods[o].error THEN [B EXCEPT !.S = emit(S, o, "error", "err")]
  ELSE [BreakDeps([B EXCEPT !.traced = @ \cup {id}], o, 1) EXCEPT !.processed = @ \cup {id}]

BreakDeps(B, o, i) ==
  LET S == B.S IN
  IF S.thrown # "" \/ i > Len(S.mods[o].deps) THEN B
  ELSE LET id == S.mods[o].deps[i].id  q == Obj(S, id) IN
       IF q = 0 \/ i \in S.mods[o].matched \/ id \in B.processed
       THEN BreakDeps(B, o, i + 1)
       ELSE IF id \in B.traced
       THEN BreakDeps([B EXCEPT !.S = Fire(S, [k |-> "dep", o |-> o, i |-> i],
                          IF id \in DOMAIN S.defined THEN S.defined[id] ELSE "undefined")], o, i + 1)
       ELSE BreakDeps(breakCycle(B, q), o, i + 1)

\* The survey that checkLoaded makes of the enabled modules.
RECURSIVE Survey(_, _, _)
Survey(V, ids, expired) ==
  IF ids = <<>> \/ V.S.thrown # "" THEN V
  ELSE LET id == Head(ids)  S == V.S  o == S.enabledObj[id]  m == S.mods[o]
           calls == IF id[1] = "_@r" THEN Append(V.calls, o) ELSE V.calls
       IN IF ~\E i \in DOMAIN S.enabledReg : S.enabledReg[i] = id
          THEN Survey(V, Tail(ids), expired)
          ELSE IF m.error \/ m.inited
          THEN Survey([V EXCEPT !.calls = calls], Tail(ids), expired)
          ELSE IF expired /\ HasFallback(S, id)
          THEN Survey([V EXCEPT !.S = UseFallback(S, id), !.fallback = TRUE, !.still = TRUE],
                      Tail(ids), expired)
          ELSE IF expired
          THEN Survey([V EXCEPT !.noLoads = Append(@, id)], Tail(ids), expired)
          ELSE IF m.fetched
          THEN Survey([V EXCEPT !.still = TRUE, !.cycles = @ /\ scn.plugin[id[1]] # ""], Tail(ids), expired)
          ELSE Survey(V, Tail(ids), expired)

\* Mutant: cycles are not broken.
BreakNone(S, os) == S

RECURSIVE BreakAll(_, _)
BreakAll(S, os) ==
  IF os = <<>> \/ S.thrown # "" THEN S
  ELSE BreakAll(breakCycle([S |-> S, traced |-> {}, processed |-> {}], Head(os)).S, Tail(os))

\* Whether checkLoaded looks again in 50 ms.
LookAgain(V, expired) == (~expired \/ V.fallback) /\ V.still

\* What checkLoaded does about what it saw.
Surveyed(V, expired) ==
  IF V.S.thrown # "" THEN V.S
  ELSE IF expired /\ V.noLoads # <<>> THEN onError(V.S, "timeout", V.noLoads)
  ELSE AndThen(IF V.cycles THEN BreakAll(V.S, V.calls) ELSE V.S, LAMBDA T :
         [T EXCEPT !.timer = @ \/ LookAgain(V, expired), !.inCheckLoaded = FALSE])

\* checkLoaded: report what did not come in time, break cycles when nothing is
\* loading, look again in 50 ms otherwise.
checkLoaded(S) ==
  IF S.thrown # "" \/ S.inCheckLoaded THEN S
  ELSE Surveyed(Survey([S |-> [S EXCEPT !.inCheckLoaded = TRUE], calls |-> <<>>, noLoads |-> <<>>,
                        still |-> FALSE, cycles |-> TRUE, fallback |-> FALSE], S.enabledReg, S.late), S.late)

\* completeLoad: the script of module n has run.  The first anonymous define
\* is for n; a second one ends the loop.
RECURSIVE CompleteQueue(_, _, _)
CompleteQueue(S, n, found) ==
  IF S.thrown # "" \/ S.defQueue = <<>> THEN [S |-> S, found |-> found]
  ELSE LET d == Head(S.defQueue)  T == [S EXCEPT !.defQueue = Tail(@)] IN
       IF d = "" /\ found THEN [S |-> T, found |-> found]
       ELSE CompleteQueue(callGetModule(T, IF d = "" THEN n ELSE d), n, found \/ d = "" \/ d = n)

\* The script has defined no module n: a shim, a global, or an error.
DefinedNone(T, n, o) ==
  LET shimmed == n \in T.shim IN
  IF scn.enforceDefine /\ ~shimmed
  THEN IF HasFallback(T, Plain(n)) THEN UseFallback(T, Plain(n)) ELSE onError(T, "nodefine", <<Plain(n)>>)
  ELSE checkLoaded(init(T, o, [deps |-> IF shimmed THEN scn.shim[n] ELSE <<>>,
                               factory |-> [k |-> "value", v |-> IF shimmed THEN "global" ELSE "undefined"],
                               errback |-> NoLis, enabled |-> FALSE, ignore |-> FALSE]))
QueueTaken(r, n) ==
  LET T == r.S  o == Obj(T, Plain(n)) IN
  IF T.thrown # "" THEN T
  ELSE IF ~r.found /\ Plain(n) \notin DOMAIN T.defined /\ o # 0 /\ ~T.mods[o].inited THEN DefinedNone(T, n, o)
  ELSE checkLoaded(T)
completeLoad(S, n) == QueueTaken(CompleteQueue(takeGlobalQueue(S), n, FALSE), n)

-----------------------------------------------------------------------------
(* The page and the browser.                                               *)

Start(p) ==
  [mods |-> <<>>, evs |-> <<>>, registry |-> <<>>, enabledReg |-> <<>>, enabledObj |-> <<>>,
   defined |-> <<>>, undefEvents |-> <<>>, urlFetched |-> {}, defQueue |-> <<>>,
   globalQueue |-> <<>>, path |-> [n \in DOMAIN p.deps |-> 1],
   shim |-> DOMAIN p.shim \ p.late, configured |-> p.late = {},
   unnormalized |-> 0, requires |-> 0, inCheckLoaded |-> FALSE, timer |-> FALSE, beat |-> 0, late |-> FALSE,
   ticks |-> <<>>, net |-> <<>>, executed |-> <<>>, resources |-> {},
   thrown |-> "", blame |-> {}, depth |-> 0,
   ran |-> [n \in DOMAIN p.deps |-> 0], called |-> [r \in DOMAIN p.reqs |-> 0],
   failed |-> [r \in DOMAIN p.reqs |-> 0], early |-> {}, blind |-> {}, told |-> {},
   reports |-> {}]

Init == scn \in Scenarios /\ ctx = Start(scn) /\ made = 0

\* The end of a handler: an exception that nobody caught is reported.
Finish(S) ==
  ctx' = IF S.thrown = "" THEN S
         ELSE [S EXCEPT !.thrown = "", !.blame = {}, !.depth = 0,
                        !.reports = @ \cup {[type |-> S.thrown, of |-> S.blame]}]

\* The page calls require(deps, callback, errback).
Require ==
  /\ made < Len(scn.reqs)
  /\ made' = made + 1
  /\ LET r == scn.reqs[made + 1] IN
     Finish(localRequire(ctx, [deps |-> r.deps, factory |-> [k |-> "callback", r |-> made + 1],
              errback |-> IF r.errback THEN [k |-> "user", r |-> made + 1] ELSE NoLis]))
  /\ UNCHANGED scn

\* The nextTick part of a require call.
MakeCall(S, a) ==
  LET id == MkReq(S.requires + 1)
      T == getModule([S EXCEPT !.requires = @ + 1], id)
  IN checkLoaded(init(T, T.registry[id], [deps |-> a.deps, factory |-> a.factory,
                                          errback |-> a.errback, enabled |-> TRUE, ignore |-> FALSE]))
Tick ==
  /\ ctx.ticks # <<>>
  /\ Finish(AndThen(intakeDefines([ctx EXCEPT !.ticks = Tail(@)]), LAMBDA S : MakeCall(S, Head(ctx.ticks))))
  /\ UNCHANGED <<scn, made>>

RemoveAt(q, i) == SubSeq(q, 1, i - 1) \o SubSeq(q, i + 1, Len(q))

\* A script arrives: its define calls fill the global queue.
Run(S, n) == [S EXCEPT !.globalQueue = @ \o scn.defines[n]]

onScriptLoad(i) ==
  /\ ~scn.loose
  /\ Finish(completeLoad(Run([ctx EXCEPT !.net = RemoveAt(@, i)], ctx.net[i][1]), ctx.net[i][1]))
  /\ UNCHANGED <<scn, made>>

\* A browser that runs other scripts before it fires the load event tells
\* define which script is interactive: the call gets that script's name and
\* goes to the context's own queue.
ScriptRuns(i) ==
  /\ scn.loose
  /\ LET n == ctx.net[i][1] IN
     ctx' = [ctx EXCEPT !.net = RemoveAt(@, i), !.executed = Append(@, ctx.net[i]),
               !.defQueue = @ \o [k \in DOMAIN scn.defines[n] |->
                                     IF scn.defines[n][k] = "" THEN n ELSE scn.defines[n][k]]]
  /\ UNCHANGED <<scn, made>>

LoadEvent ==
  /\ ctx.executed # <<>>
  /\ Finish(completeLoad([ctx EXCEPT !.executed = Tail(@)], Head(ctx.executed)[1]))
  /\ UNCHANGED <<scn, made>>

onScriptError(i) ==
  /\ ctx.net[i] \in scn.fails
  /\ LET S == [ctx EXCEPT !.net = RemoveAt(@, i)]  id == Plain(ctx.net[i][1]) IN
     Finish(IF HasFallback(S, id) THEN UseFallback(S, id) ELSE onError(S, "scripterror", <<id>>))
  /\ UNCHANGED <<scn, made>>

\* The 50 ms timer that checkLoaded set; beat makes each look a step.
Timer ==
  /\ ctx.timer
  /\ Finish(checkLoaded([ctx EXCEPT !.timer = FALSE, !.beat = 1 - @]))
  /\ UNCHANGED <<scn, made>>

\* Nothing is on its way but scripts that never come.
Idle ==
  /\ made = Len(scn.reqs) /\ ctx.ticks = <<>> /\ ctx.executed = <<>> /\ ctx.resources = {}
  /\ \A i \in DOMAIN ctx.net : ctx.net[i] \in scn.lost

\* waitSeconds have passed since the last fetch: on a slow page at any time.
Expire ==
  /\ ~ctx.late /\ ctx.timer /\ (scn.slow \/ Idle)
  /\ ctx' = [ctx EXCEPT !.late = TRUE]
  /\ UNCHANGED <<scn, made>>

\* A plugin calls load(value), load.error(err) or load.fromText(text).
ResourceLoads(o) ==
  /\ Finish(init([ctx EXCEPT !.resources = @ \ {o}], o,
                 [deps |-> <<>>, factory |-> [k |-> "value", v |-> "val"], errback |-> NoLis,
                  enabled |-> TRUE, ignore |-> FALSE]))
  /\ UNCHANGED <<scn, made>>

RECURSIVE CleanTwins(_, _)
CleanTwins(S, ids) ==
  IF ids = {} THEN S
  ELSE LET i == CHOOSE j \in ids : TRUE IN CleanTwins(cleanRegistry(S, i), ids \ {i})

ResourceFails(o) ==
  /\ scn.pluginFails
  /\ LET S == [ctx EXCEPT !.resources = @ \ {o}, !.mods[o].inited = TRUE, !.mods[o].error = TRUE]
         n == S.mods[o].id[1]
     IN Finish(onError(CleanTwins(S, {i \in DOMAIN S.registry : i[1] = n /\ i[2] > 0}),
                       "plugin", <<Plain(n)>>))
  /\ UNCHANGED <<scn, made>>

ResourceText(o) ==
  LET n == scn.text[ctx.mods[o].id[1]] IN
  /\ n # ""
  /\ LET S == getModule([ctx EXCEPT !.resources = @ \ {o}], Plain(n))
         T == [Run(S, n) EXCEPT !.mods[o].deps = Append(@, [name |-> n, id |-> Plain(n)]),
                                !.mods[o].exps = Append(@, "text")]
     IN Finish(AndThen(completeLoad(T, n), LAMBDA U :
                 localRequire(U, [deps |-> <<n>>, factory |-> [k |-> "text", o |-> o], errback |-> NoLis])))
  /\ UNCHANGED <<scn, made>>

\* The page calls require.config while modules are waiting: shims are added,
\* and modules whose script has not come take their url from the new paths.
configure ==
  /\ ~ctx.configured
  /\ LET path == [n \in Names |-> IF n \in scn.late THEN scn.paths[n] ELSE ctx.path[n]] IN
     ctx' = [ctx EXCEPT !.configured = TRUE, !.shim = DOMAIN scn.shim, !.path = path,
               !.mods = [o \in DOMAIN @ |->
                  IF /\ Obj(ctx, @[o].id) = o /\ ~@[o].inited
                     /\ @[o].id[2] = 0 /\ @[o].id[1] \in Names
                  THEN [@[o] EXCEPT !.url = path[ctx.mods[o].id[1]]] ELSE @[o]]]
  /\ UNCHANGED <<scn, made>>

\* The page forgets a module.
Undef(n) ==
  /\ n \in scn.undefs /\ Plain(n) \in DOMAIN ctx.defined
  /\ Finish(undef(ctx, n))
  /\ UNCHANGED <<scn, made>>

\* Nothing is left to happen.
Quiet == Idle /\ ~ctx.timer

Rest == Quiet /\ UNCHANGED vars

Next ==
  \/ Require \/ Tick \/ LoadEvent \/ Timer \/ Expire \/ configure \/ Rest
  \/ \E i \in DOMAIN ctx.net : onScriptLoad(i) \/ ScriptRuns(i) \/ onScriptError(i)
  \/ \E o \in ctx.resources : ResourceLoads(o) \/ ResourceFails(o) \/ ResourceText(o)
  \/ \E n \in Names : Undef(n)
-----------------------------------------------------------------------------
(* What a page may rely on, whatever the order in which scripts arrive.    *)
Deps(n) == {scn.deps[n][i] : i \in DOMAIN scn.deps[n]}
           \cup {scn.inner[n][i] : i \in DOMAIN scn.inner[n]}
           \cup (IF n \in DOMAIN scn.shim THEN {scn.shim[n][i] : i \in DOMAIN scn.shim[n]} ELSE {})
           \cup {scn.plugin[n], scn.text[n]}

\* The names a set of names needs, directly or not.
Closure(A) ==
  LET RECURSIVE Grow(_)
      Grow(B) == LET C == B \cup UNION {Deps(n) \cap Names : n \in B}
                 IN IF C = B THEN B ELSE Grow(C)
  IN Grow(A \cap Names)

Needs(n)     == Closure(Deps(n))
OnCycle(n)   == n \in Needs(n)
ReqNeeds(r)  == Closure({scn.reqs[r].deps[i] : i \in DOMAIN scn.reqs[r].deps})
UsesExports(n) == \E i \in DOMAIN scn.deps[n] : scn.deps[n][i] = "exports"

\* The queues, counters and flags of the context stay within their types.
TypeOK ==
  /\ scn \in Scenarios /\ made \in 0 .. Len(scn.reqs)
  /\ ctx.thrown = "" /\ ctx.depth = 0
  /\ \A id \in DOMAIN ctx.registry : ctx.mods[ctx.registry[id]].id = id
  /\ \A i \in DOMAIN ctx.enabledReg : ctx.enabledReg[i] \in DOMAIN ctx.registry
  /\ \A n \in Names : ctx.path[n] \in 1 .. scn.paths[n]
  /\ \A r \in DOMAIN scn.reqs : ctx.called[r] \in 0 .. 2 /\ ctx.failed[r] \in 0 .. 2

\* A factory runs once and a callback is called once, also when a script is
\* late and its fallback path answers too, when two requires name the same
\* module, and when breakCycle calls a listener a second time.
FactoryOnce ==
  /\ \A n \in Names \ scn.undefs : ctx.ran[n] <= 1
  /\ \A r \in DOMAIN scn.reqs : ctx.called[r] <= 1

\* A factory or callback that runs finds its dependencies defined, unless the
\* two are on a cycle.
DepsFirst ==
  \A p \in ctx.early : p[1] \in Names /\ p[1] \in Closure({p[2]})

\* On a cycle, a module that uses "exports" is never handed out as undefined.
ExportsSeen == \A n \in ctx.blind \cap Names : OnCycle(n) /\ ~UsesExports(n)

\* A require call never calls both its callback and its errback.  It calls
\* its errback once when it names one module and no modules are on a cycle:
\* around a cycle, and for each dependency that fails, the errback is called
\* again, since emit removes the listeners only after it has called them.
OneAnswer ==
  \A r \in DOMAIN scn.reqs :
    /\ ctx.failed[r] = 0 \/ ctx.called[r] = 0
    /\ Len(scn.reqs[r].deps) = 1 /\ (\A n \in Names : ~OnCycle(n)) => ctx.failed[r] <= 1

\* When nothing is left to happen, every require call has had its callback
\* or its errback called, or an error that names something it needs was
\* reported.  This is what breaking cycles, passing errors up and the
\* timeout are for.  A call without an errback hears nothing of an error that
\* the errback of another call has taken.
Settled ==
  Quiet => \A r \in DOMAIN scn.reqs :
             \/ ctx.called[r] + ctx.failed[r] > 0
             \/ \E e \in ctx.reports : e.of \cap ReqNeeds(r) # {}
             \/ ~scn.reqs[r].errback /\ ctx.told \cap ReqNeeds(r) # {}

\* A module that a successful require call needs is defined in the end, and
\* nothing enabled is left over in the registry when no error occurred.
RegistryEmpties ==
  Quiet /\ ctx.reports = {} /\ (\A r \in DOMAIN scn.reqs : ctx.failed[r] = 0) =>
    ctx.enabledReg = <<>>

\* The browser runs its timers, and goes on as long as anything but the timer
\* is due: weak fairness of the two kinds of step, written with the state
\* predicates that say when they are enabled.
Due == ~Idle \/ (ctx.timer /\ ~ctx.late)

LdFair ==
  /\ []<>~Due \/ []<><<Next /\ ctx'.beat = ctx.beat>>_vars
  /\ []<>~ctx.timer \/ []<><<Timer>>_vars

\* The loader comes to rest: neither the 50 ms timer nor retries go on for ever.
ComesToRest == <>[]Quiet

\* Together: whatever the order in which scripts arrive, fail or time out, modules are
\* made once and after what they need, callers are answered, and nothing is left.
ModulesLoad ==
  TypeOK /\ FactoryOnce /\ DepsFirst /\ ExportsSeen /\ OneAnswer /\ Settled /\ RegistryEmpties

Spec == Init /\ [][Next]_vars
=============================================================================
