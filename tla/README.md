# TLA+ models of the kaizer repository

The repository is a personal collection: the source code of *Advanced Programming in
the UNIX Environment* (second edition) under `src/apue/apue.2e`, network exercises
(`src/netc`), a TCP relay (`src/test/sockagent.c`), and web experiments under
`src/html` around the libraries that they run on or are built with: jQuery 1.7.2,
RequireJS, Bootstrap, and the optimizer r.js with two versions of UglifyJS. Most of
the code that decides anything, and nearly all of its lines, is in those libraries.
This directory models the parts that carry logic of their own, checks them with TLC on
small instances, and proves the most important facts about some with TLAPS.

Contents: [inventory](#inventory), [modules](#modules), [runs](#runs),
[bounds](#bounds-and-why-they-are-enough), [fairness](#fairness), [proofs](#proofs),
[disagreements](#where-the-code-and-its-comments-disagree),
[quirks](#quirks-that-the-models-keep), [not modelled](#not-modelled), [plan](#plan).

## Inventory

### C programs

| part | state | operations | what is hard | what makes it correct |
|---|---|---|---|---|
| database library `db/db.c` | index file (free list, hash chains, index records), data file, `fcntl` record locks, one `DB` handle per process | `db_fetch`, `db_store`, `db_delete`, `db_nextrec`, `db_rewind` | any number of processes on the same files; locks on the first byte of each chain; a kill between two writes; a full disk | calls are atomic; lists stay disjoint and finite; records are reused only with equal lengths; nobody waits for ever |
| print spooler `ipp/printd.c` | job list, next job number, configuration flag, spool directory | `main`, `build_qonstart`, `client_thread`, `printer_thread`, `signal_thread` | four kinds of threads, a condition variable, stops and restarts, timeouts, a full disk | numbers are unique; acknowledged jobs are kept and printed in order; rejected ones leave nothing behind; no wakeup is lost |
| worker list of the spooler | doubly linked list of client threads | `add_worker`, `kill_workers`, `client_cleanup` | entries are freed and reused while others walk the list | SIGTERM reaches all threads, no walk meets a freed entry, sockets are closed |
| print command `ipp/print.c` | a connection | `submit_file` | may be slow or die | see the spooler |

### JavaScript

| part | state | operations | what is hard | what makes it correct |
|---|---|---|---|---|
| loader `require.js` | one context: registry, queues, defined, waiting scripts | `define`, `require`, script events, the 50 ms check, plugins, `undef`, `config` | cycles, failures, fallbacks, timeouts, scripts in any order | a module is made once and after what it needs; every caller is answered; nothing is left over |
| its names | configuration | `normalize`, `nameToUrl` | maps, packages, paths, dots | a name means one module however it is spelled |
| jQuery callbacks and deferreds | lists, fires in progress | `Callbacks`, `Deferred`, `pipe`, `when` | a callback changes the list that is being fired | each is called when and as often as it should be |
| jQuery queues and animations | queue, timers, saved styles | `queue`, `dequeue`, `delay`, `animate`, `stop`, `tick` | calls during animations and delays | one at a time and to the end; promise kept; styles restored |
| jQuery events | handler lists, native listeners, guards | `on`, `off`, `one`, `trigger`, `dispatch` | handlers that bind, unbind and trigger | who should hear an event does, once, and nobody else |
| jQuery manipulation and data | tree, `jQuery.cache`, fragments | insertion, removal, cloning, wrapping, `html` | data and handlers belong to nodes that move, are copied and go | data goes with its node; scripts run once |
| attributes, classes, values | texts, properties | `attr`, `val`, class methods | attribute against property | what was set is read |
| selectors, traversal | a document | Sizzle, chains of methods | right-to-left evaluation, a native fast path | the answer is what the selector means |
| offsets and sizes | boxes | `offset`, `position`, `height` | scrolling, hidden and positioned boxes | what is set is measured |
| requests | requests, calls in progress, `jQuery.active`, `window[callback]` | `ajax`, `abort`, transports, `done` | callbacks that abort, start requests and throw; late answers; timeouts | own answer, no leftovers, right count, one outcome |
| ready | `readyWait`, timers, list | `bindReady`, `ready`, `holdReady` | five ways to learn of the document | handlers run once and in time |
| Bootstrap plugins | dialogs, tips, carousels, panels, tabs, alerts, buttons, menus | clicks, keys, calls, timers, ends of transitions | calls overtaken by timers and transitions | at rest, what the last call said, and nothing left behind |
| r.js: builds | output directory, layers, caches | trace, exclude, write, move, remove, minify, build again | layers that exclude layers, stale caches | a layer is whole, in order, and of one moment |
| r.js: modules, style sheets, configuration | a file, a directory, options | `toTransport`, `flattenCss`, `createConfig` | nested defines, nested imports, relative paths | registers, shows and means the same as before |
| r.js: source maps, promises | mappings; promises, ticks | generator, consumer, `SourceNode`; `prim` | unordered and partial mappings; synchronous mode | places lead back; each promise settles once and all hear of it |
| r.js: esprima and UglifyJS | texts, tokens, trees, scopes | scan, parse, print, squeeze, compress, mangle | three readers and two writers of one language | they agree; short programs do what long ones did |

The parts interact little. The database library meets other processes only in its
files. The threads of the spooler share the job list, the flag and the worker list,
and meet the print command on a socket and their own earlier incarnation in the spool
directory. On a page everything runs in one thread: parts meet by calling each other
back in the middle of something, by timers, and by events of the browser. In a build a
file passes from one part to the next.

## Modules

Definitions called "Mutant" in a comment stand for plausible mistakes in the code.
Nothing in the specifications uses them: each replaces the definition after it in an
experiment that shows that a property would notice. `PROJECT.json` maps the principal
definitions to the lines of the code that they stand for; helpers are near the
definitions they serve.

### C programs

| module | what it is |
|---|---|
| `Db` | the database library: one action per file access; its invariants, the refinement mapping to `KVStore`, progress |
| `KVStore` | its abstract specification: a map with atomic calls |
| `MCDb`, `MCDbScan` | instances for TLC; the second with history variables for a sequential scan |
| `DbProofs` | theorems: types, locks, exclusion; the hash chains and the free list |
| `DbRefinement` | theorem: `Db` implements `KVStore` |
| `Printd` | the spooler and the print command, with their properties |
| `PrintQueue` | its abstract specification: a queue of jobs |
| `MCPrintd` | the instance for TLC |
| `PrintdProofs` | theorems about `Printd` |
| `Workers` | the worker list at pointer level, its properties and theorems |

**Db.** *State.* `ptr`, `rec`, `idxend` are the index file, `dat`, `datend` the data
file, `lockR`, `lockW`, `datlock` the record locks. Every process has a control
point `pc`, the call it is in, the result of the last one, the fields of its
`DB` structure and the locals of the call in `h`, and the file offset of `idxfd`
in `fdpos`. A chain pointer is a number: 0 for `FREE_OFF`, 1 to `NHASH` for the
hash table, larger ones for index records in file order. Records are rewritten
in place only with the same length (`LengthsKept` checks that this is so), so a
record's number stands for its byte offset. Key and data lengths are kept,
since they decide about reuse; the bytes are not.

*Steps.* `FindAndLock`, `WalkPast`, `WalkFound`, `WalkMissing` are
`_db_find_and_lock` and the branches its callers take on the result;
`DelDat` to `DelChain` are `_db_dodelete`; `ReadHead`, `FindFree` to `FreeTake`,
`ReuseDat`, `ReuseIdx`, `AppendDatSeek` to `AppendIdx`, `Commit` are `db_store`
with `_db_findfree`, `_db_writedat`, `_db_writeidx` and `_db_writeptr`; `NextLock`
to `NextDat` are `db_nextrec`. A lock request is joined to the access after it
and a release to the access before it, which leaves out no interleaving of the
accesses. `Exit` is `err_dump`, `err_quit` or a signal; the kernel drops the
locks.

*Refinement.* A deletion, also the one inside a replacement by a value of another
length, takes effect when the data record is blanked (`DelDat`), an insertion when the
chain pointer is rewritten (`Commit`), an overwrite at `OverDat`, a call that finds
nothing when its walk ends. The mapping hides the chain pointer that a deletion has
still to rewrite (`Link`) and the moment between the two halves of a replacement
(`MidReplace`). A process killed between these halves loses the record; `KVStore` says
so in `Die`.

**Printd.** *State.* The spool is `jobfile`, `data`, `reqs`; it survives `Stop`. `queue`
is the list from `jobhead` to `jobtail`, `ppc` and `pjob` are the printer thread,
`wpc`, `wjob`, `got` the client threads, `cst` and `sent` the print commands,
`up` and `todo` the main thread. `paper` records what the printer printed. A
document is `Pieces` reads long and its file records how many of them it has.

*Steps.* One access to the spool, to a socket or to what `joblock` or
`configlock` protects. The signal of `add_job` is a step of its own, since it
comes after the unlock. `Stop` is SIGTERM, a crash, or one of the calls of
`log_sys` and `exit`. Spurious wakeups of `pthread_cond_wait` are left out: the
code tests the list again in any case. What `printer_status` reads from the
printer is reduced to its outcome: success, or any failure.

*Numbers given twice.* `update_jobno` saves the next number only when the printer thread
picks a job up, and the daemon may stop before. `unsaved` records the numbers that were
given out and not covered by the job file when it did, and `Doubled` says that two clients
have one number. `OneJobPerNumber` says that this happens only to an unsaved number and
never to two clients at once; what the other properties say of a job, they say of one
whose number is its own (`~Doubled`). The files of a number may then have two writers: `Rewritten`
and `OpenFile` say what is under a name when another thread has unlinked it. The run `printd_stopped` shows the case.

**Workers.** Entries live at addresses that `malloc` may return again. A walk along the
list takes one step per entry with `workerlock` held, so that a circular list is a
thread that never gives the lock back. `free` leaves the pointer fields as they
were or links the block into the allocator's list.

### A page

JavaScript runs a handler to its end. Where nothing can come in between, a handler is
one action, and the functions that it calls are operators from one state to the next
(`Loader`, `Fx`, `Overlays`, `Widgets`, `Menus`). Where the page's own functions are
called in the middle and may do something, the calls in progress are a stack in the
state, and each function that runs is a step of its own (`Callbacks`, `Events`, `Ajax`,
`Prim`). What computes and keeps nothing is an operator that is compared with a
reference definition on every small input (`Sizzle`, `Layout`, `AjaxData`,
`ModuleNames`).

| module | state | actions | properties |
|---|---|---|---|
| `Loader` | `ctx`: registry, queues, defined, errors, listeners, scripts under way; `scn`: the page; `made` | require calls, script load and error, the timer, `undef`, late configuration | `ModulesLoad`, `ComesToRest` |
| `ModuleNames` | a name and who asks | | `NamesFinal` |
| `Callbacks` | `cb`: lists; `frames`: fires in progress; `count`, `hist` | add, remove, empty, fire, lock, settle, and the return of a callback | `ListsServed` |
| `Fx` | `fx`: the element's queue, timers, saved style | calls, ticks, timeouts | `QueuesServed` |
| `Events` | `reg`: handlers; `triggered`; `stack`: triggers and dispatches | bind, unbind, trigger, native events, steps of a dispatch | `EventsServed` |
| `Manipulation` | `d`: tree, expandos, cache, objects; `fragments`; a last part on attributes with a state of its own | insertions, removals, clones, html, data, handlers; attributes, classes, values, clicks | `NodesKept`, `ValuesTrue` |
| `Sizzle` | a tree, a selector, a context; a stack of objects | choose a selector; a method of a chain | `SelectorsAgree`, `ChainsAgree` |
| `Layout` | a branch of boxes | nest a box | `PlacesAgree` |
| `Ajax` | `rq`: requests; `stack`: calls of `ajax` and `done`; `active`, `win` | one part of `ajax` or `done` between two calls of the page; answers, scripts, timeouts | `RequestsSound`, `OutcomeFinal`, `TimedOutOrEnded`; theorems |
| `AjaxData` | the input of one call | | `DataAgree` |
| `Ready` | `readyWait`, `isReady`, listeners, timers, list; the document | ready calls, holds, parsing, events, timers | `RunsOnce`, `FiredWhenReady`, `AllRun`; theorems |
| `Overlays` | `md`: a dialog; `tt`: tips of two elements | calls, clicks, keys, the mouse, timers, ends of transitions | `MdAtRest`, `MdAnswered`, `MdHides`, `ShownStays`, `MouseDecides`, `TipLeaves`, `DestroyedGone` |
| `Widgets` | `cr`: a carousel; `pn`: an accordion, tabs, an alert or a button | the same | `OneItem`, `OneInterval`, `CrAtRest`, `CyclesOn`, `ReachesItem`, `OneOpen`, `PanelsAtRest`, `TabsAtRest`, `AlertSays`, `ButtonAtRest` |
| `Menus` | `me`: a typeahead or a drop-down menu | keys, clicks, the mouse, answers of the source | `SuggestsAll`, `SuggestsFitting`, `MenuAttended`, `OneMenu`, `LinkInside`, `ArrowOnce` |
| `MCPage` | extends `Ajax`; instances of `Loader`, `Ready`, `Overlays`, `Widgets`, `Menus` | | |
| `MCJquery` | instances of the other modules of jQuery | | |

Some parts do not stand certain sequences of calls (the [quirks](#quirks-that-the-models-keep)).
Such a model goes on and marks them in a history variable (`md.upset`, `md.hasty`, `cr.stuck`, `cr.early`,
`pn.odd`, `pn.kept`, `tt`'s `hasty` and `odd`, `me.late`, `crowded`, `reentered`, `early`, `threw`), and its properties
say what holds of behaviours without the mark. Of the plugins they also say what holds with it, and the mark goes
when the plugin has recovered: a dialog that was shown while it was being hidden has no key and no backdrop of its own
when it is hidden, keeps two strays at most for each such call (`md.hasty` counts them), and after a hide with nothing pending the next ones work;
the indicator of a carousel is right after the next slide that begins in time, tabs after the next click with no fade under way, a panel
after its next event that is not prevented.

### A build

| module | what it is | properties |
|---|---|---|
| `Build` | phases of a build over sources that are edited between builds; the merging of configurations | `LayersWhole`, `ExcludedOut`, `ConfigMerged` |
| `Transport` | `toTransport`, namespaces, `commonJs.convert`, on trees of a module's file, against what the loader would register | `ModulesCarried` |
| `Css` | flattening of style sheets, in place, against what the browser shows | `SheetsKept` |
| `SourceMaps` | VLQ, generator, consumer, `SourceNode`, the map through a map | `MapsLead` |
| `Prim` | promises, with ticks and in the synchronous mode of the build | `PromisesKept` |
| `PrimProofs` | theorem: promises are kept | |
| `JsTree` | trees of small programs and what they do: the reference semantics | |
| `Squeeze`, `Compress`, `Scopes` | `ast_squeeze` and `lift_variables` of version 1; the Compressor of version 2; names and mangling of both | `SqueezedDoesSame`, `SqueezedDeclares`, `LiftedDoesSame`; `CompressedDoesSame`, `OwnStayOwn`; `SameMeaning1`, `SameMeaning2` |
| `JsSource` | texts, tokens and trees that scanners and parsers share | |
| `Esprima`, `UglifyParse`, `Uglify2Parse` | three scanners and parsers | |
| `GenCode`, `Uglify2Print` | two code generators, as the tokens that they print | |
| `MCBuild` | instances of the first nine | |
| `MCSyntax` | the readers and writers side by side | `SameTokens`, `SameTrees` |

### Runs over several parts

`MCPrintd`, `MCPage`, `MCJquery`, `MCBuild` and `MCSyntax` put parts that do not touch
each other's variables into one state machine. `part` (in `MCSyntax`: `typed`) says which
one a behaviour is about; the predicates `...Idle` fix the initial state of the others,
and `Only(p)` leaves them there. So the states of a run are the sum of those of its
parts, not their product. Where a function is compared with a reference definition, its
input is put together step by step and may be handed over at any time, which ends the
behaviour (`HandOver`): such a property is an action property, evaluated once per input.
`MCSyntax` types texts and programs a fragment at a time; the state constraint `Viable`
stops at programs in which esprima has found an error.

## Runs

Four runs show disagreements and end with a counterexample; the others pass.

| run | instance | checks |
|---|---|---|
| `db_chain` (`MCDb`, `MCDb_chain.cfg`) | 2 processes, 2 calls each, two keys of one chain, 10 kinds of call, kills everywhere but inside `_db_dodelete`; an offset too large for a chain pointer, then a full file system | `TypeOK`, `LockDiscipline`, `ListsSound`, `ChainExclusion`, `ImplementsKVStore`, `CallsReturn` (fair) |
| `db_scan` (`MCDbScan`) | 1 scanner, 2 writers that move, delete and reuse records on two chains | `FreeListExclusion`, `RecordsKept`, `ScanComplete` |
| `db_killed` (`MCDb`, `MCDb_killed.cfg`) | a kill before the last write of a deletion | `FindReturns` (fair): violated |
| `printd` (`MCPrintd`) | 2 clients; without a stop: full disk, dying clients, a new configuration; without a stop and with slow clients; with 2 stops anywhere, whatever the job file holds | `PrintdTypeOK`, `OneJobPerNumber`, `NoSignalLost`, `SpoolKept`, `PrintsInOrder`, `AllPrinted` (fair) |
| `printd_stopped` (`MCPrintd`, `MCPrintd_stopped.cfg`) | the same | `JobNumberFresh`: violated |
| `workers_list` (`Workers`, `MCWorkers_list.cfg`) | 3 threads, up to three at a time, failing `malloc` | `EntriesSound`, `ReturnsWhileAlone` (fair) |
| `workers_two` (`Workers`, `MCWorkers_two.cfg`) | 2 threads at a time | `KillReachesAll`: violated |
| `page` (`MCPage`) | the loader on every dependency graph of three modules and on one page for each thing a module, script or plugin may do; two requests with every kind of settings; ready; the plugins | `ModulesLoad`, `RequestsSound`, `PageSound`, `PluginsAtRest`, `PageMovesOn` (fair) |
| `jquery` (`MCJquery`) | lists and deferreds of every kind; queues; events on a branch; a document of six nodes; classes and values; selectors and chains on every tree of five nodes; nested boxes; data | `ListsServed`, `QueuesServed`, `EventsServed`, `NodesKept`, `ValuesTrue`, `SelectorsAgree`, `PlacesAgree`, `DataAgree` |
| `build` (`MCBuild`) | names of up to four segments; two builds of four modules; configurations; files of two statements; mappings; directories of four style sheets; promises; programs of up to three statements; scopes | `NamesFinal`, `ConfigMerged`, `LayersWhole`, `ModulesCarried`, `MapsLead`, `SheetsKept`, `PromisesKept`, `ShrunkDoesSame` |
| `build_excluded` (`MCBuild`, `MCBuild_excluded.cfg`) | the same builds | `ExcludedOut`: violated |
| `syntax` (`MCSyntax`) | every text and program over small alphabets | `SameTokens`, `SameTrees` |

Several of these properties are conjunctions of named parts:

* `ListsSound`: every record in use is on the chain of its key (`ChainsHoldRecords`), and
  chains and the free list end and share nothing (`ListsDisjoint`).
* `RecordsKept`: `ListsDisjoint`; no record is on no list (`NoLeak`); what is on the free
  list is blank (`FreeRecordsBlank`); records keep their lengths (`LengthsKept`);
  what `db_nextrec` returns is in the database, or is about to be (`NextrecSound`).
* `SpoolKept`: `JobsOnDisk`, `AcceptedKept` and `RejectedNotPrinted` everywhere; `PrintedWhole` where
  clients are not silent for as long as `tread` waits, `RejectedGone` where the daemon does not stop.
* `EntriesSound`: `SoundWhileAlone` (while threads come one after the other the list is what
  the code means) and `OwnEntry` (nobody frees an entry but its owner; always).
* `RequestsSound`: types; `ActiveCounts`; `StartsAndStops` (`ajaxStart` and `ajaxStop`
  alternate); `LeavesNothing` (no timer, no function in the window); `OwnAnswer`.
* `PageSound`, `PluginsAtRest`, `PageMovesOn`: what `Ready`, `Overlays`, `Widgets` and
  `Menus` promise in every state, at rest, and in the end; `PageMovesOn` also has
  `ComesToRest` of the loader, and `OutcomeFinal` and `TimedOutOrEnded` of requests.
* `ShrunkDoesSame`: `Squeeze`, `Compress` and `Scopes` together.
* `ListsServed`, `QueuesServed`, `EventsServed`, `NodesKept`, `LayersWhole`, `PromisesKept`,
  `ModulesLoad` and the rest are put together at the end of their modules, where each part
  is stated in words.

Every property of a passing run has a mutant in `PROJECT.json`: a plausible mistake in one
mapped definition that makes TLC find the property violated.

Deadlock is checked for the C programs. The other parts do come to an end: a page on
which nothing is due any more, a build that is done, an input that was handed over.

## Bounds, and why they are enough

* *Db.* Two processes on one chain cover every order of two conflicting calls;
  `MaxCalls` = 2 lets a call meet a chain that the other process has already changed
  twice. Three processes meet at the free list because a scanner uses its lock
  too. Two keys on one chain with a third on another, two data lengths: a record
  can be first, middle or last of its chain, and fit or not fit. `MaxRecs` and `PtrMax` bound
  the index file; in `db_chain` both bite.
* *Printd.* Two jobs (`MaxJob`) are enough for order and for shared numbers, which a stop gives to both clients; one read per
  document (`Pieces`) still leaves a document cut short, by a client that dies or is
  slow before it; `MaxStops` = 2 is a restart after a restart; `MaxConf` = 1 a SIGHUP at any point.
* *Workers.* A list of three has a first, a middle and a last entry, and three threads
  let one come after an entry was freed. `MaxOutstanding` bounds those at work.
* *Page.* Three modules make every shape of dependency (chain, diamond, circles); more
  calls of `emit` within each other than `MaxDepth` = 8 are calls without end, which a browser ends
  with a RangeError. Two requests with four acts of the
  page (`MaxActs`) let each be begun and aborted in every callback of the other. `MaxHolds`
  = 3. Five calls (`MaxCalls`) show and hide a dialog within each other's transition and
  timer; `MaxMoves`, `MaxClicks`, `MaxKeys` likewise. A carousel of three items has a way
  that is not its own way back.
* *jQuery.* Four operations in and around a fire (`Kinds`) add, remove and fire again at every
  index of a list of two or three; three elements and the window are a target, a
  delegate, an ancestor and the end; `MaxNodes`, `MaxRefs`, `MaxOps` let a node be copied,
  taken out and given data in every order; on five nodes in every shape each
  relation and position has both answers.
* *Build.* `MaxBuilds` = 2 and `MaxEdits` = 1 show what one build leaves for the next.
  `MaxLength` = 2 statements; `MaxMappings` = 3 mappings on four lines with every combination of
  what may be missing; `MaxTokens` = 2; `MaxPrims` = 5 promises with `MaxPrimOps` = 3 hang on each
  other, are returned and thrown in; programs have an expression in a few statements or up to three
  statements from a set in which every rule of the minifiers applies; `MaxScopes` scopes nest twice.
* *Syntax.* Alphabets each hold the tokens of some constructs and the ones that interfere
  with them, and a length up to which all sequences are typed.

## Fairness

* `Db!FairSpec`: each process goes on with the call it is in (weak fairness). Its
  system calls are on regular files, and a process that waits for a lock is
  granted it once nobody else asks; as every process makes finitely many calls,
  that suffices.
* `Printd!Fairness`: threads and print commands run; a printer that
  is asked again and again takes and acknowledges a document at last (strong
  fairness of `Send` and `StatusOk`, an assumption about the printer: `replace_job`
  puts a refused job at the head for ever otherwise).
* `Workers!FairSpec`: threads run.
* `MCPage!Spec`: the event loop goes on. The loader's timer fires, and what is due besides it (a script
  that arrives or fails, a timeout of `require`) happens in the end (`LdFair`); a call runs to its end and the clock goes
  on, but a server need not answer (`AjFair`); the browser parses, delivers its events and
  timers, and the page releases what it holds (`RdFair`); timers fire, and transitions end where the
  code counts on it (`MdFair`, `CrFair`, `TtFair`).

No fairness is assumed of stops, kills, errors, clients that arrive, signals, calls or
clicks.

## Proofs

TLC checks an instance; the theorems hold for every number of processes, clients,
threads, requests, records and calls. `PROJECT.json` lists those that a reader should know
of. Each component has an inductive invariant; where the properties are not enough, it
says more.

**Locks of `Db` (`DbProofs`),** from `DbAssumption` (lengths and sizes are natural numbers,
the hash is below `NHASH`, the placeholders are not keys, data or processes):

* `TypeCorrect`: `Spec => []TypeOK`. `TypeOK` holds, with the types, that the
  call a process is in fits its control point (`CallFits`); without that the
  chain offset of a process inside a call would not be known to be a lock byte.
* `LocksKept`: `Spec => []LockDiscipline`. The invariant says of each process
  and each lock byte that it holds the lock *if and only if* it is between the
  taking and the releasing. The "only if" makes it inductive: a release takes
  away one lock and the process may hold others (its chain and the free list).
* `OneWriterPerChain` and `OneFreeListWriter`: `ChainExclusion` and
  `FreeListExclusion` follow from `LockDiscipline` in every state.

The step lemmas have one case per group of actions (`FetchType`, `StoreLocks`, ...);
`KeepLocks`, `TakeReadLock`, `TakeWriteLock`, `ReleaseLock` and `ExitLocks` say once what
each kind of step does to the lock table.

**Lists of `Db` (`DbProofs`).** `ListsKept` and `RecordsAreKept`: `ListsSound` and
`RecordsKept`. "Reachable along pointers" is a recursive function, about which nothing can
be proved by induction over the length of a list. The invariant says instead that there
are two functions: the list that each record is in (`own`), and a rank that falls along the
pointers (`rk`). It says that every pointer goes from a record
of a list to one of the same list of lower rank (`Sorted`, `Listed`), that records own their
data (`DataOwned`), what the process that holds a list's lock is in the middle of
(`AtWork`), that processes at work have different records (`Apart`), and that each record
is on a list or in the hands of one process (`NoneLost`). A step changes `own` and `rk` in
at most one place, and the lock exclusion proved before says that nobody else looks.
The theorems assume `DeletionsEnd`: no kill between the first and the last write of
`_db_dodelete`. That is what `db_killed` shows to be needed; the runs `db_chain` and `db_scan` satisfy it.

**Refinement of `KVStore` (`DbRefinement`).** `Implementation`: `Spec => ImplementsKVStore`,
under the same assumption. `LookupIs` and `MemIs` turn the mapping, which follows
pointers, into a statement about the lists' owners; then a step is silent (`Silent`), takes a call
or returns from one (`ProcMaps`), or changes the map at one key (`Taken`, `MemPut`). `FlagFits` ties
what a process remembers about the search to the kind of its call.

**Spooler (`PrintdProofs`).** The invariant `IInv` has parts for job numbers (`Numbers`), the spool (`SpoolOwned`, `OnDisk`),
the list and its signals (`PendingSound`, `PendingApart`), the paper (`PaperOwned`, `Written`, `AtPrinter`), and for each client what is
where while it is served (`Progress`, `Answered`, `Refused`, `Emptied`). From it follow `PrintdTypeOK`,
`OneJobPerNumber`, `SpoolKept` (`SpoolIsKept`), `PrintsInOrder` (`Refinement`: the list is the
queue of `PrintQueue`), `JobsKept` and `WholePrints`; `NoSignalLost` has an invariant of its own. No theorem restricts when
the daemon stops. `Numbers` says of each client's number that it is below `nextjob` (below what the job file says, while the daemon is down) or one that a stop left
unsaved; that a client that is still being received has one below `nextjob`, which nobody else who is being received has; and that a number two clients have was unsaved.
So a job whose number is its own is undisturbed (`PrinterUndisturbed`, `NotWritten`), and sharing a number is for ever (`DoubledKept`).
`WholePrints` assumes that no client is slow.

**Worker list (`Workers`).** `EntriesAreSound`: `EntriesSound`, with `WalkersLock` (who walks holds
the lock), `Owners` and `Listed` (which entries belong to whom), and `Alone`: while threads came one after
the other the list has one entry at most (`Single`, `Walks`).

**Ready (`Ready`).** `HandlersRunOnce` and `FiredInTime`, from four facts: types; `readyWait` counts the
holds that are still on, and one more until jQuery is ready (`Waits`); nothing makes it ready
before there is a body and a parsed document, timers least of all (`InTime`); each handler has run once
if the list was fired and holds it, and never otherwise (`Once`).

**Requests (`Ajax`).** `RequestsAreSound`: `RequestsSound`, and `OutcomesStay`: `OutcomeFinal`, for any finite set
of requests, any names and any number of acts of the page, under `Settings` (the
requests are finitely many and none of them is one of the two placeholders, and the settings are settings). The
invariant `AjInv` is about requests, calls and window as arguments rather than variables,
because an action computes some of them in two steps (the code's own, and then what the page
does when it is called back): a lemma for each of the two steps is used by all
actions (`DoneKeeps`, `AbortKeeps`, `CallBackKeeps`). It says that a request that ended has
neither timer nor transport (`Lived`); that each request has at most one call of `ajax`, and one of
`done` inside it (`Nested`, `Stacked`); whose functions may be in the window or kept by others, and what a
request with a name of its own is answered with (`Owned`); that an ended request whose function is still there has
its `done` yet to run (`Cleaned`); and that `active` is the number of counted requests that have not
ended or whose `done` has not come to `ajaxStop` (`Counts`), which only an exception lets
fall behind.

**Promises (`PrimProofs`).** `PromisesAreKept`: `PromisesKept`, in both modes, for any number of promises and of
operations, without an assumption. `Once` and `InOrder` look back at the calls that were made, and `PassedOn` is only about
states in which nothing is left to do; none of it is inductive. The invariant sees the stack and the ticks as one line of work (`Work`): the
stack upwards from 1, the ticks downwards from -1, done from above. It has two halves.
`Consistent` is about what is there. Lists hold what was registered, in that order (`SlotsOK`, `Listed`); every callback that is still to
be called was registered for a promise that is settled so, is due once, and not after its function was called (`TasksOK`, `DueOnce`, `CalledOnce`);
while it is due or listed nothing else has touched the promise of its `then` (`WaitingOK`), a function that runs has it to itself (`UserOK`), and from
then on the promise that was returned decides it (`AdoptOK`, `ArgOK`, `ArgOnce`). With ticks, what is due is in the order of registration (`Ordered`); a
promise has one try at most, and one that waits for what it adopted has none (`TriesOK`), so that no error can come before what it adopted. `Lively` is about what is to come, as long as
no error can be lost: whoever waits for a settled promise is settled, or work that will settle it is in the line (`Heard`), and so is what
an error that is being thrown has left (`Thrown`). When the line is empty, `PassedOn` is what remains of it. An action is made of a few
steps (a task is pushed or taken, a callback registered, a promise made, settled or adopted), which are lemmas about promises,
work, registrations, calls and adoptions as arguments.

**Only model-checked.** Liveness (`CallsReturn`, `AllPrinted`, `ReturnsWhileAlone`, `PageMovesOn` but for
`OutcomeFinal` and `FiredWhenReady`) and anything that needs ENABLED or fairness; `ScanComplete`, which is about the history of a scan. All that rests on a RECURSIVE operator, where the prover has no SMT backend and no
induction: `AjaxData`, `Build`, `Callbacks`, `Compress`, `Css`, `Esprima`, `Fx`, `GenCode`, `JsSource`, `JsTree`, `Layout`,
`Loader`, `Manipulation`, `MCSyntax`, `ModuleNames`, `Scopes`, `Sizzle`, `SourceMaps`, `Squeeze`, `Transport`,
`UglifyParse`, `Uglify2Parse` and `Uglify2Print`; with them most properties of `MCPage`, `MCJquery`, `MCBuild` and
`MCSyntax`. Also `Events`, `Overlays`, `Widgets` and `Menus`, which a proof could reach (see the
[plan](#plan)).

## Where the code and its comments disagree

Four runs end with a counterexample; `PROJECT.json` quotes the lines.

* `printd_stopped`: the job file gets the next number only when the printer thread picks a job
  up (696). A daemon that stops between the acknowledgement of job 1 and its pick-up starts with
  number 1 again, though `build_qonstart` has just queued job 1 from the spool: the next client is given
  number 1 too, `creat` truncates the acknowledged document, and both jobs print what the second one sent, or nothing.

* `db_killed`: the record being deleted is on the free list before it is off
  its chain. After a kill in between, the next insertion of that size reuses a
  record that is still on the chain; it becomes its own successor, and
  `_db_find_and_lock` never returns.
* `workers_two`: `add_worker` does not move the head of the list, so `kill_workers`
  misses all but the first. As long as threads come one after the other nothing goes
  wrong (`workers_list`).
* `build_excluded`: an excluded module that is itself a layer, built before with
  something excluded, is looked up as its pruned layer; what that excluded comes back.

## Quirks that the models keep

Each is in the model as it is in the code. Properties are stated so that they hold with
it, or of behaviours in which it did not happen. Lines are those of the component's source.

*Database.* `db_nextrec` reads on from wherever the last call left the file offset, although
its comment asks for one `db_rewind` before the first call (855). *Spooler.* The job file is
written when a job is picked up (696), so that a stop before loses numbers, which are
then given twice (`printd_stopped`); silence of 20 seconds
ends a document, whatever `req.size` says (447). *Worker list.* With two threads at a time the list
can become a circle, and `client_cleanup` need not return (547).

*Loader.* After a timeout a circular pair that is required again may never run (672-677).
*Names.* A name that leads above `baseUrl` keeps its dots.

*Queues.* `stop(true)` during a delay leaves its timeout; `clearQueue` during an animation drops the
sentinel; a complete callback that calls `stop` dequeues twice. *Events.* A handler bound with `one`
and a selector runs once per match; a trigger within itself runs a `one` again; `off` goes by
guid; `.off("focus")` leaves delegated handlers; a nested trigger resets `triggered`; inline handlers of
ancestors run twice. *Requests.* An abort in an `ajaxSend` handler lets `done` run twice, though its
comment says "Called once" (7456, 7707-7727), and `active` go negative; a callback that throws leaves `active` too high; two
jsonp requests may be given one name. *Selectors.* Sizzle never backtracks; `#i ~ b > a` misses; the fast path does not bind the
later groups of a selector to its context. *Manipulation.* A copy shares the private arrays of its original; a whole fragment is
inserted when the numbers of nodes happen to agree (6030). *Offsets.* The setter misses for an absolute element without a
`top` in a scrolled parent, and for a fixed one in a scrolled window; without `getBoundingClientRect` boxes that scroll between are counted.
*Classes.* A class in html separated by tabs can be added again; so can one that is there twice by `attr`, of which `removeClass` takes
one (not among the inputs); `toggleClass` does nothing when its argument begins with a blank.

*Dialog.* A show during a hiding is undone by the end of that hiding: the dialog is not displayed though `isShown` says so; it and a hide
before the backdrop is there leave a backdrop or a handler that nothing takes away. *Tips.* A tip shown on its way out is taken out by
the old timer; hiding a hidden tip leaves a timer; a delay for hiding only is not called off; one timeout serves all
elements of a selector; `destroy` leaves a delay running, and throws if the hide is prevented. *Carousel.* A prevented slide leaves
`sliding` true; a slide between the end of one and its event loses the indicator. *Panels.* A prevented hide leaves a
panel of size 0; a transition whose end is not reported leaves it moving; a tab clicked during the fade leaves two active; an
alert closed again during its fade says closed for each. *Menus.* A late answer opens a closed menu; the key press "(" has the code of an
arrow and moves; escape opens a closed drop-down.

*Builds.* `removeCombined` deletes files that another layer excluded; `-temp` files stay after a failure; a table is kept from
build to build of one process (24374); a `dir` that contains `baseUrl` is deleted at the start (only `dir === appDir` is refused,
23734); a path outside of `appDir` is written in place (23672 says otherwise). *Modules.* A define inside a
scanned one loses the end of the outer; the place for a name found in an anonymous define is carried to a named one
(20764-20766); a factory without parameters gets more dependencies in a build; `define(12345)` is taken for a name. *Style sheets.* An
import in a comment with stars is inlined (21703); `./../x` is collapsed wrongly (21821-21831); an import with media keeps
its text, but what it imports is deleted (22039-22051); circles of imports from directory to directory
end only when a file cannot be read (not among the inputs); of imports that meet again the first occurrence stays, which may change the cascade. *Source maps.* Mappings without a source
are not ordered, and a search among them may miss (13290-13304); a place that the input map does not know throws; characters of a
`SourceNode` without a place lead to the chunk before. *Promises.* In the synchronous mode an error thrown by `end` inside a
`then` is replaced by "nope" or lost (2743, 2850); callbacks added during a notification come before later ones; an errback that
throws loses the rest of its list.

*Squeeze.* A `var` inside dead code that is dropped with it loses its declaration when it is nested; `lift_variables` can duplicate a
value. *Compress.* In a boolean context `f() && const` and its like drop the call; `a < g()` becomes `g() > a`; five negations
joined by `&&` lose a value; an unused variable in the head of a `for` leaves a text that cannot be parsed. *Scopes.* Names in `except`
collide (not among the inputs); version 2 declares the name of a function expression outside of it. *Printers.* Version 1:
`+ ++a` is printed `+++a`, `new (typeof a)` and `in` in the head of a `for` lose parentheses, a label or loop
without a body that comes last loses it. Version 2: `- -a` and `+ ++a` are joined, `[a,,]` loses its hole, `(a,b)[c]`, `(new a)[b]`, `(+a)()`, `(a++)()`
lose parentheses. Both: a statement that is a string becomes a directive. *Readers.* Esprima takes the end of the text for the end of a
regular expression (5308-5338) and ignores a backslash inside of a class (5311-5315); UglifyJS 2 lets a string run over the end of a line
(15170-15190, where version 1 refuses, 9595); invalid escapes, `01.5`, and columns after comments are read differently; UglifyJS
parses `new new X()()` wrongly. `MCSyntax` names each of these as an exception next to the comparison.

## Not modelled

* *Within modelled components.* `db_open` beyond the state it leaves (two processes that open with
  `O_TRUNC` race, 117), `db_close`, record locks that fail with `EDEADLK`, text of records and messages; the parsing of the printer's
  answer, the wrap of job numbers (247), host and user lookup; several contexts of the loader, `data-main`, the interactive script of
  old IE; IE's emulation of submit and change, `appendTo` and its kin, attribute hooks, the splitting of a selector's text, easing and
  units; `ajaxSetup` and `extend`; `scrollspy` and `affix`, which only read scroll positions; pragmas, license comments,
  `keepBuildDir`, hooks on reading and writing; options of UglifyJS that are off by default, beautified output, escaped keywords.
* *IPP and configuration helpers, the library's wrappers, thread examples, other example programs.* One system call each, constants or text.
* *`calld`, `call`, the open servers.* `calld` is a loop around scripts, drivers and lock files that are not in the repository; the others
  answer one request at a time and keep nothing.
* *`sockagent`, the network examples.* Experiments of one file, many of which do not compile. Two faults of `sockagent.c` seen in
  passing: the retry over servers stops only when `aptr == aptr->next` (349), and a server's branch runs on a list that its client's branch
  may have shortened (412).
* *`JSON_checker`, `json2.js`, `Base.js`, `ajaxFileUpload.js`, the Django skeleton, one-shot clients.* Third-party, generated, or of a few lines.
* *`require-jquery.js`.* Two files that join other versions of RequireJS and jQuery than those modelled.
* *The environments and the command line of r.js.* Adapters for node and Rhino; lines 1 to 2730 repeat `require.js`.

The map in `PROJECT.json` names the principal definitions, more than 800 of them; helpers beside them are not listed.

## Plan

What is left is proofs, in modules that use no RECURSIVE operator:

1. `Events`: the list of handlers has delegated ones in front, and native listeners are in step with it.
2. `Overlays`, `Widgets`, `Menus`: `PageSound` and `PluginsAtRest`, plugin by plugin.
