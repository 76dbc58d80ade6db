------------------------------- MODULE Build --------------------------------
(***************************************************************************)
(* The build of html/jquery-require-sample/r.js over a directory of        *)
(* modules: copy the sources, trace what each build module needs, take out *)
(* what it excludes, write each layer beside its file, move the layers,    *)
(* remove what they hold, then minify every file.  The same process may    *)
(* build again, of other sources and with other modules                    *)
(* (requirejs.optimize).                                                   *)
(*                                                                         *)
(* A file is the module of its name.  What a file holds is a list of       *)
(* <<module, version>>: one when it is a copy, several when it is a layer. *)
(* The last part of the module is how a build puts its options together.   *)
(***************************************************************************)
EXTENDS Naturals, Sequences, SequencesExt, FiniteSets, Functions

CONSTANTS Files,
          Graphs,     \* what the files require: functions to lists of files
          Profiles,   \* lists of build modules: [name, include, exclude, shallow]
          Api,        \* files that define the loader itself (define.amd)
          MaxBuilds, MaxEdits

VARIABLES graph, ver,        \* the sources: what they require and their versions
          edits, builds,
          mods, combined,    \* the profile of this build, removeCombined
          phase, at,         \* the stage, and the module it is at
          out,               \* the output directory
          cache,             \* _cachedRawText: versions of the files read
          layers,            \* the modules of each layer, in order
          shadows,           \* excludeLayers: for each module, the layers it excludes
          temp,              \* the layers written beside their files
          index              \* _buildPathToModuleIndex, shared by all builds

Names(text) == {text[i][1] : i \in DOMAIN text}
ModNames == {mods[i].name : i \in DOMAIN mods}
-----------------------------------------------------------------------------
(* Tracing: the loader of the build reads the files one within the other   *)
(* and defines a module when what it requires is defined; then it breaks   *)
(* the cycles that are left.                                               *)
Fresh == [seen |-> <<>>, ready |-> {}, done |-> <<>>, lent |-> {}, traced |-> {}, processed |-> {}]
Met(st, f) == f \in st.ready /\ \A d \in ToSet(graph[f]) : d \in ToSet(st.done) \/ <<f, d>> \in st.lent
RECURSIVE Settled(_)
Settled(st) ==
  LET can == SelectSeq(st.seen, LAMBDA f : f \notin ToSet(st.done) /\ Met(st, f))
  IN IF can = <<>> THEN st ELSE Settled([st EXCEPT !.done = Append(@, can[1])])
RECURSIVE Load(_, _)
Load(f, st) ==
  IF f \in ToSet(st.seen) THEN st
  ELSE Settled([FoldLeft(LAMBDA s, d : Load(d, s), [st EXCEPT !.seen = Append(@, f)], graph[f]) EXCEPT !.ready = @ \cup {f}])
RECURSIVE breakCycle(_, _)
breakCycle(f, st) ==
  LET Step(s, d) == IF d \in ToSet(s.done) \/ <<f, d>> \in s.lent \/ d \in s.processed THEN s
                    ELSE IF d \in s.traced THEN Settled([s EXCEPT !.lent = @ \cup {<<f, d>>}])
                    ELSE breakCycle(d, s)
      deep == FoldLeft(Step, [st EXCEPT !.traced = @ \cup {f}], graph[f])
  IN IF f \in ToSet(st.done) THEN st ELSE [deep EXCEPT !.processed = @ \cup {f}]
\* Mutant: the files in the order in which they are read.
ReadOrder(include) == FoldLeft(LAMBDA s, f : Load(f, s), Fresh, include).seen
\* The files of the layer of what is included, in the order they are defined.
Trace(include) ==
  LET read == FoldLeft(LAMBDA s, f : Load(f, s), Fresh, include)
  IN FoldLeft(LAMBDA s, f : breakCycle(f, s), read, include).done
RECURSIVE Closure(_)
Closure(set) == LET more == set \cup UNION {ToSet(graph[f]) : f \in set} IN IF more = set THEN set ELSE Closure(more)
-----------------------------------------------------------------------------
Stage(p, m) == phase = p /\ m \in DOMAIN mods /\ at = m
NextModule(p, q) == IF at = Len(mods) THEN phase' = q /\ at' = 1 ELSE phase' = p /\ at' = at + 1
_cacheReset(old) == <<>>
\* requirejs.optimize: the caches are emptied; the old directory is deleted, the
\* sources are copied.
Start ==
  /\ phase \in {"idle", "done", "failed"} /\ builds < MaxBuilds /\ builds' = builds + 1
  /\ \E p \in Profiles : mods' = p
  /\ combined' \in BOOLEAN
  /\ out' = [f \in Files |-> [text |-> <<<<f, ver[f]>>>>, by |-> ""]]
  /\ cache' = _cacheReset(cache) /\ layers' = <<>> /\ shadows' = <<>> /\ temp' = <<>>
  /\ phase' = "trace" /\ at' = 1
  /\ UNCHANGED <<graph, ver, edits, index>>
Read(set) == [f \in DOMAIN cache \cup set |-> IF f \in DOMAIN cache THEN cache[f] ELSE out[f].text[1][2]]
\* build.traceDependencies for one module.
TraceModule ==
  /\ Stage("trace", at)
  /\ LET order == Trace(mods[at].include)
     IN layers' = Append(layers, order) /\ cache' = Read(ToSet(order))
  /\ index' = [f \in DOMAIN index \cup {mods[at].name} |-> IF f = mods[at].name THEN at ELSE index[f]]
  /\ NextModule("trace", "shadow")
  /\ UNCHANGED <<graph, ver, edits, builds, mods, combined, out, shadows, temp>>
\* For what a module excludes: the build module of that name, or a layer traced for it.
Shadow ==
  /\ Stage("shadow", at)
  /\ LET others == SelectSeq(mods[at].exclude, LAMBDA x : x \notin ModNames)
     IN /\ cache' = Read(UNION {ToSet(Trace(<<others[i]>>)) : i \in DOMAIN others})
        /\ shadows' = Append(shadows, [i \in DOMAIN mods[at].exclude |->
             LET x == mods[at].exclude[i] IN IF x \in ModNames THEN <<>> ELSE Trace(<<x>>)])
  /\ NextModule("shadow", "flatten")
  /\ UNCHANGED <<graph, ver, edits, builds, mods, combined, out, layers, temp, index>>
\* removeModulePath for each file of the layers excluded, as they are by now, and
\* for each module excluded alone.
removeExcluded(m) ==
  LET LayerOf(i) == LET x == mods[m].exclude[i]
                        k == SelectInSeq(mods, LAMBDA mod : mod.name = x)
                    IN IF k = 0 THEN shadows[m][i] ELSE layers[k]
      gone == UNION {ToSet(LayerOf(i)) : i \in DOMAIN mods[m].exclude} \cup mods[m].shallow
  IN SelectSeq(layers[m], LAMBDA f : f \notin gone)
\* build.flattenModule: the file that defines the loader comes first.
Flatten ==
  /\ Stage("flatten", at)
  /\ LET kept == removeExcluded(at)
         apiFirst == SelectSeq(kept, LAMBDA f : f \in Api) \o SelectSeq(kept, LAMBDA f : f \notin Api)
     IN /\ layers' = [layers EXCEPT ![at] = apiFirst]
        /\ temp' = Append(temp, <<>> \o [i \in DOMAIN apiFirst |-> <<apiFirst[i], cache[apiFirst[i]]>>])
  /\ NextModule("flatten", "move")
  /\ UNCHANGED <<graph, ver, edits, builds, mods, combined, out, cache, shadows, index>>
\* removeCombined: the files of the layer that are no build module themselves.
Removed(m) == ToSet(layers[m]) \ ModNames
Move ==
  /\ Stage("move", at)
  /\ LET moved == [f \in DOMAIN out \cup {mods[at].name} |-> IF f = mods[at].name THEN [text |-> temp[at], by |-> ""] ELSE out[f]]
     IN out' = Restrict(moved, DOMAIN moved \ (IF combined THEN Removed(at) ELSE {}))
  /\ NextModule("move", "optimize")
  /\ UNCHANGED <<graph, ver, edits, builds, mods, combined, cache, layers, shadows, temp, index>>
ModuleIndex(f) == IF f \in DOMAIN index THEN index[f] ELSE 0
\* Every file is minified with the override of the build module it is; a number
\* beyond the list of modules throws.
Optimize ==
  /\ phase = "optimize"
  /\ IF \E f \in DOMAIN out : ModuleIndex(f) > Len(mods)
     THEN phase' = "failed" /\ UNCHANGED out
     ELSE /\ out' = [f \in DOMAIN out |-> [out[f] EXCEPT !.by = IF ModuleIndex(f) = 0 THEN "all" ELSE mods[ModuleIndex(f)].name]]
          /\ phase' = "done"
  /\ UNCHANGED <<graph, ver, edits, builds, mods, combined, at, cache, layers, shadows, temp, index>>
\* A file cannot be parsed or read: the build ends where it is.
Fail ==
  /\ phase \in {"trace", "shadow", "flatten"} /\ phase' = "failed"
  /\ UNCHANGED <<graph, ver, edits, builds, mods, combined, at, out, cache, layers, shadows, temp, index>>
\* The sources change while nothing or anything is built.
Edit ==
  /\ edits < MaxEdits /\ edits' = edits + 1
  /\ \E f \in Files : ver' = [ver EXCEPT ![f] = @ + 1]
  /\ UNCHANGED <<graph, builds, mods, combined, phase, at, out, cache, layers, shadows, temp, index>>
BInit == /\ graph \in Graphs /\ ver = [f \in Files |-> 1] /\ edits = 0 /\ builds = 0
         /\ mods = <<>> /\ combined = FALSE /\ phase = "idle" /\ at = 1
         /\ out = <<>> /\ cache = <<>> /\ layers = <<>> /\ shadows = <<>> /\ temp = <<>> /\ index = <<>>
BNext == Start \/ TraceModule \/ Shadow \/ Flatten \/ Move \/ Optimize \/ Fail \/ Edit
-----------------------------------------------------------------------------
Done == phase = "done"
Modules == {mods[i] : i \in DOMAIN mods}
\* What the page of a build module has loaded before: the layers it excludes.
RECURSIVE Before(_)
Before(set) ==
  LET more == set \cup {m \in Modules : \E n \in set : m.name \in ToSet(n.exclude)} IN IF more = set THEN set ELSE Before(more)
\* In a layer a module comes after what it requires, unless the two require each
\* other or one is the loader: run from the top, nothing is fetched (22555-22589).
FollowsDeps ==
  Done => \A m \in Modules : LET t == out[m.name].text IN
    \A i, j \in DOMAIN t : i < j /\ t[j][1] \in ToSet(graph[t[i][1]]) => t[i][1] \in Api \/ t[i][1] \in Closure({t[j][1]})
Chained(m) == \E n \in Modules : n.name \in ToSet(m.exclude) /\ (n.exclude # <<>> \/ n.shallow # {})
Wanted(m) == Closure(ToSet(m.include)) \ (Closure(ToSet(m.exclude)) \cup m.shallow)
\* A layer holds all that its module needs and nothing that it excludes, where what
\* it excludes excludes nothing itself (23083-23141, 23932-24010).
LayerWhole == Done => \A m \in Modules : Chained(m) \/ Names(out[m.name].text) = Wanted(m)
\* The same of every module, whatever is excluded: the code takes out "the nested
\* dependencies" of each excluded module (r.js 23119).
ExcludedOut == Done => \A m \in Modules : Names(out[m.name].text) \cap Closure(ToSet(m.exclude)) = {}
\* With the files that went into layers removed, the page of a build module still
\* finds all it needs, where the modules left out of a layer have layers of their own (23170-23180).
NothingMissing ==
  Done /\ (combined => \A m \in Modules : ToSet(m.exclude) \cup m.shallow \subseteq ModNames)
    => \A m \in Modules : LET have == UNION {Names(out[n.name].text) : n \in {b \in Before({m}) : b.name \in DOMAIN out}}
                          IN Closure(ToSet(m.include)) \subseteq have \cup DOMAIN out
\* All files of a layer are of one moment: the sources as they were copied when the
\* build began, whatever was built before and is edited meanwhile (22747-22760, 24379-24382).
OneMoment ==
  phase = "flatten" \/ (phase = "move" /\ at = 1) =>
    \A i \in DOMAIN temp : \A j \in DOMAIN temp[i] : temp[i][j] \in ToSet(out[temp[i][j][1]].text)
Same == \A f \in DOMAIN index : index[f] \in DOMAIN mods /\ mods[index[f]].name = f
\* Every file is minified with its own module's override, in builds of a process
\* that name the same modules at the same places (23066-23078, 23216-23257).
OverrideOwn == Done /\ Same => \A f \in DOMAIN out : out[f].by = (IF f \in ModNames THEN f ELSE "all")
\* Together: a layer is what its profile says of the sources of one moment, whatever was
\* built before in the same process.
LayersWhole == FollowsDeps /\ LayerWhole /\ NothingMissing /\ OverrideOwn /\ OneMoment

-----------------------------------------------------------------------------
(* How the build of html/jquery-require-sample/r.js puts its options       *)
(* together: those of the command line, of the build file and of the main  *)
(* configuration file, each with paths relative to a place of its own,     *)
(* then the places its output goes to.                                     *)
(*                                                                         *)
(* A path is absolute or not and a list of names.  A configuration is a    *)
(* record; a field that is not given is None, "" or an empty function.     *)

CONSTANTS Commands, BuildFiles, MainFiles,   \* the configurations each may hold
          Cwd, BuildDir, MainDir,            \* absolute paths
          Arguments                          \* arguments of the command line: <<names, value>>

VARIABLES cmd, file, main, args

Path(abs, seg) == [abs |-> abs, seg |-> seg]
None   == Path(FALSE, <<"?">>)
NoConfig == [none |-> TRUE]
Given(p) == p # None
Blank == [appDir |-> None, dir |-> None, baseUrl |-> None, orig |-> None, out |-> None,
          paths |-> <<>>, opt |-> "", name |-> "", modules |-> FALSE]
-----------------------------------------------------------------------------
\* file.normalize: a ".." takes the name before it.
normalize(seg) ==
  FoldLeft(LAMBDA l, s : IF s = ".." /\ l # <<>> THEN Front(l) ELSE IF s = "." THEN l ELSE Append(l, s), <<>>, seg)
makeAbsPath(p, base) == IF p.abs \/ ~Given(p) THEN p ELSE Path(TRUE, normalize(base.seg \o p.seg))
\* Mutant: baseUrl is made absolute as the other paths are.
makeAbsPlain(c, base) ==
  [c EXCEPT !.appDir = makeAbsPath(@, base), !.dir = makeAbsPath(@, base), !.out = makeAbsPath(@, base),
            !.orig = IF Given(c.baseUrl) THEN c.baseUrl ELSE @, !.baseUrl = makeAbsPath(@, base)]
makeAbsConfig(c, base) ==
  LET app == makeAbsPath(c.appDir, base)
  IN [c EXCEPT !.appDir = app, !.dir = makeAbsPath(@, base), !.out = makeAbsPath(@, base),
               !.orig = IF Given(c.baseUrl) THEN c.baseUrl ELSE @,
               !.baseUrl = makeAbsPath(@, IF Given(app) THEN app ELSE base)]
Over(p, q) == IF Given(q) THEN q ELSE p
\* The nested options, of which paths is one, are mixed key by key.
Merged(f, g) == [x \in DOMAIN f \cup DOMAIN g |-> IF x \in DOMAIN g THEN g[x] ELSE f[x]]
mixConfig(c, d) ==
  [appDir |-> Over(c.appDir, d.appDir), dir |-> Over(c.dir, d.dir), baseUrl |-> Over(c.baseUrl, d.baseUrl),
   orig |-> Over(c.orig, d.orig), out |-> Over(c.out, d.out), paths |-> Merged(c.paths, d.paths),
   opt |-> IF d.opt # "" THEN d.opt ELSE c.opt, name |-> IF d.name # "" THEN d.name ELSE c.name, modules |-> c.modules \/ d.modules]
-----------------------------------------------------------------------------
(* createConfig.                                                           *)
FileConfig == IF file = NoConfig THEN Blank ELSE makeAbsConfig(file, BuildDir)
\* The main configuration file, told what is known of appDir, with its directory
\* as baseUrl when it names none.
MainConfig(c) ==
  makeAbsConfig([main EXCEPT !.appDir = IF Given(@) THEN @ ELSE c.appDir,
                             !.baseUrl = IF Given(@) THEN @ ELSE MainDir], MainDir)
mixedMain(c) == IF main = NoConfig THEN c ELSE mixConfig(mixConfig(c, MainConfig(c)), FileConfig)
Mixed ==
  LET own == makeAbsConfig(cmd, Cwd)
      withFile == IF file = NoConfig THEN own ELSE mixConfig([own EXCEPT !.baseUrl = BuildDir], FileConfig)
  IN mixConfig(mixedMain(withFile), own)
createConfig ==
  LET c == Mixed
      base == IF Given(c.baseUrl) THEN c.baseUrl ELSE Cwd
  IN [c EXCEPT !.paths = [x \in DOMAIN @ |-> makeAbsPath(@[x], base)], !.baseUrl = base]
dirBaseUrl(c) ==
  IF Given(c.appDir) THEN makeAbsPath(c.orig, c.dir) ELSE IF Given(c.dir) THEN c.dir ELSE c.baseUrl
\* What it refuses: nothing to build, no output or two, options that do not go together.
Refused(c) ==
  \/ c.name = "" /\ ~c.modules
  \/ Given(c.out) = Given(c.dir)
  \/ Given(c.appDir) /\ Given(c.out)
  \/ Given(c.dir) /\ c.dir = c.appDir
  \/ c.modules /\ (Given(c.out) \/ c.name # "")
  \/ Given(c.appDir) /\ ~Given(c.orig)
-----------------------------------------------------------------------------
(* The paths of the output, for a build of a directory.                    *)
Within(p, dir) == Len(dir.seg) <= Len(p.seg) /\ SubSeq(p.seg, 1, Len(dir.seg)) = dir.seg
Moved(p, from, to) == IF Within(p, from) THEN Path(TRUE, to.seg \o SubSeq(p.seg, Len(from.seg) + 1, Len(p.seg))) ELSE p
buildPaths(c) ==
  [x \in DOMAIN c.paths |->
    IF Given(c.appDir) THEN Moved(c.paths[x], c.appDir, c.dir)
    ELSE IF Within(c.paths[x], c.baseUrl) THEN Moved(c.paths[x], c.baseUrl, dirBaseUrl(c))
    ELSE Path(TRUE, dirBaseUrl(c).seg \o <<x>>)]
Url(name, base, paths) == IF name \in DOMAIN paths THEN paths[name] ELSE Path(TRUE, base.seg \o <<name>>)
BuildPath(c, name)  == Url(name, dirBaseUrl(c), buildPaths(c))
-----------------------------------------------------------------------------
(* The command line: name=value, a dot in the name leads into an option    *)
(* that holds an object.                                                   *)
ObjProps == {"paths", "wrap", "pragmas", "has", "uglify", "map", "throwWhen"}
hasDotPropMatch(names) == Len(names) > 1 /\ names[1] \in ObjProps
With(f, x, v) == [y \in DOMAIN f \cup {x} |-> IF y = x THEN v ELSE f[y]]
stringDotToObj(result, names, value) ==
  With(result, names[1], With(IF names[1] \in DOMAIN result THEN result[names[1]] ELSE <<>>, names[2], value))
convertArrayToObject(list) ==
  FoldLeft(LAMBDA r, a : IF hasDotPropMatch(a[1]) THEN stringDotToObj(r, a[1], a[2]) ELSE With(r, FoldLeft(LAMBDA s, n : IF s = "" THEN n ELSE s \o "." \o n, "", a[1]), With(<<>>, "", a[2])),
           <<>>, list)
-----------------------------------------------------------------------------
CfInit == cmd \in Commands /\ file = NoConfig /\ main = NoConfig /\ args = <<>>
CfNext ==
  \/ args = <<>> /\ file = NoConfig /\ main = NoConfig /\ (\E f \in BuildFiles : file' = f) /\ UNCHANGED <<cmd, main, args>>
  \/ args = <<>> /\ main = NoConfig /\ (\E m \in MainFiles : main' = m) /\ UNCHANGED <<cmd, file, args>>
  \/ file = NoConfig /\ main = NoConfig /\ Len(args) < 3 /\ (\E a \in Arguments : args' = Append(args, a)) /\ UNCHANGED <<cmd, file, main>>

\* The value of an option: the command line before the build file before the main
\* file; of the options that hold objects, key by key (23664-23670).
LaterWins ==
  LET c == createConfig
      order == <<IF main = NoConfig THEN Blank ELSE main, IF file = NoConfig THEN Blank ELSE file, cmd>>
      last(test(_)) == SelectLastInSeq(order, test)
      opt == last(LAMBDA d : d.opt # "")
  IN /\ c.opt = (IF opt = 0 THEN "" ELSE order[opt].opt)
     /\ \A x \in UNION {DOMAIN order[i].paths : i \in 1..3} :
          LET i == last(LAMBDA d : x \in DOMAIN d.paths) IN c.paths[x] = makeAbsPath(order[i].paths[x], c.baseUrl)
\* Every path is meant from the place of the file that gives it; baseUrl from the
\* appDir given with it, and the directory of the main file, then of the build file, stands in
\* for one that nobody gives (23472-23504, 23644-23660).
OwnPlace ==
  LET c == createConfig
      given == <<<<main, MainDir>>, <<file, BuildDir>>, <<cmd, Cwd>>>>
      last(test(_)) == SelectLastInSeq(given, LAMBDA g : g[1] # NoConfig /\ test(g[1]))
      d == last(LAMBDA g : Given(g.dir))
      a == last(LAMBDA g : Given(g.appDir))
      b == last(LAMBDA g : Given(g.baseUrl))
  IN /\ d # 0 => c.dir = makeAbsPath(given[d][1].dir, given[d][2])
     /\ a # 0 => c.appDir = makeAbsPath(given[a][1].appDir, given[a][2])
     /\ c.baseUrl = CASE b = 1 -> makeAbsPath(main.baseUrl, IF a = 0 THEN MainDir ELSE IF Given(main.appDir) THEN makeAbsPath(main.appDir, MainDir) ELSE c.appDir)
                      [] b > 1 -> makeAbsPath(given[b][1].baseUrl, IF Given(given[b][1].appDir) THEN makeAbsPath(given[b][1].appDir, given[b][2]) ELSE given[b][2])
                      [] OTHER -> IF main # NoConfig THEN MainDir ELSE IF file # NoConfig THEN BuildDir ELSE Cwd
Written(c) == {BuildPath(c, x) : x \in DOMAIN c.paths \cup {"m"}}
\* A build of a directory writes its modules in the output directory, when baseUrl
\* and the paths are in the application and baseUrl was given relative to it (22948-22993).
WrittenInDir ==
  LET c == createConfig
  IN ~Refused(c) /\ Given(c.dir) /\ (Given(c.appDir) => ~c.orig.abs /\ Within(c.baseUrl, c.appDir) /\ \A x \in DOMAIN c.paths : Within(c.paths[x], c.appDir))
       => \A p \in Written(c) : Within(p, c.dir)
\* The last argument of a name counts, and those that lead into one option are all kept.
LastArgument ==
  LET r == convertArrayToObject(args)
  IN \A i \in DOMAIN args :
       LET names == args[i][1]
           later == \E j \in i + 1..Len(args) : args[j][1] = names \/ (args[j][1] = <<names[1]>> /\ hasDotPropMatch(names))
       IN hasDotPropMatch(names) /\ ~later =>
            names[1] \in DOMAIN r /\ names[2] \in DOMAIN r[names[1]] /\ r[names[1]][names[2]] = args[i][2]
\* Together: of several parts of a configuration the later one wins, and no path means
\* another place than where it was written.
ConfigMerged == LaterWins /\ OwnPlace /\ WrittenInDir /\ LastArgument
=============================================================================
