---------------------------- MODULE Manipulation ----------------------------
(***************************************************************************)
(* The DOM manipulation of jQuery (html/njs/jquery-1.7.2.js) and the data  *)
(* and event handlers it keeps for elements in jQuery.cache.               *)
(*                                                                         *)
(* d is the document: the tree (nodes are made in order, 1 is the body),   *)
(* the expando of every node, the cache, and the objects that the entries  *)
(* of the cache point to: data objects, event handles and queues.  The     *)
(* last part of the module, on classes, attributes and values, has a state *)
(* of its own.                                                             *)
(***************************************************************************)
EXTENDS Naturals, Sequences, FiniteSets, SequencesExt

CONSTANTS MaxNodes, MaxRefs, MaxOps,   \* bounds on nodes, objects and operations
          Html                         \* html texts: [size, script] by name

VARIABLES d,          \* the document and the cache
          fragments,  \* jQuery.fragments
          ran,        \* how often each script was run
          gone,       \* nodes that were taken out for good
          ops

None == 0
Body == 1
Pool == 1..MaxNodes
Entry == [data |-> None, events |-> {}, handle |-> None, queue |-> None]
-----------------------------------------------------------------------------
(* The tree.                                                               *)

RECURSIVE Preorder(_, _)
Preorder(x, n) == <<n>> \o FlattenSeq([i \in DOMAIN x.kids[n] |-> Preorder(x, x.kids[n][i])])
Within(x, n) == ToSet(Preorder(x, n))
Below(x, n) == Within(x, n) \ {n}
Index(x, n) == CHOOSE i \in DOMAIN x.kids[x.parent[n]] : x.kids[x.parent[n]][i] = n

removeChild(x, n) ==
  IF x.parent[n] = None THEN x
  ELSE [x EXCEPT !.kids[x.parent[n]] = SelectSeq(@, LAMBDA m : m # n), !.parent[n] = None]
\* insertBefore: the nodes of a fragment in front of index i of p.
insertBefore(x, p, i, list) ==
  [x EXCEPT !.kids[p] = SubSeq(@, 1, i - 1) \o list \o SubSeq(@, i, Len(@)),
            !.parent = [n \in Pool |-> IF n \in ToSet(list) THEN p ELSE @[n]]]
\* Nodes are made for an html text: a root and a chain of descendants.
Made(x, h) == x.top + 1 .. x.top + Html[h].size
create(x, h) ==
  LET new == Made(x, h) IN
  [x EXCEPT !.top = @ + Html[h].size,
            !.parent = [n \in Pool |-> IF n \in new /\ n > x.top + 1 THEN n - 1 ELSE @[n]],
            !.kids = [n \in Pool |-> IF n \in new /\ n + 1 \in new THEN <<n + 1>> ELSE @[n]],
            !.script = IF Html[h].script THEN @ \cup {x.top + Html[h].size} ELSE @]
-----------------------------------------------------------------------------
(* Data.                                                                   *)

HasId(x, n) == x.expando[n] # None
Of(x, n) == x.cache[x.expando[n]]

\* jQuery.data and _data make the id and the entry when there is none.
Accept(x, n) ==
  IF HasId(x, n) THEN x
  ELSE [x EXCEPT !.uuid = @ + 1, !.expando[n] = x.uuid + 1,
                 !.cache = [i \in DOMAIN @ \cup {x.uuid + 1} |-> IF i = x.uuid + 1 THEN Entry ELSE @[i]]]
NewRef(x, v) == [x EXCEPT !.refs = Append(@, v)]
Put(x, n, e) == [x EXCEPT !.cache[x.expando[n]] = e]
\* $( n ).data( key, value ).
data(x, n, key) ==
  LET y == Accept(x, n)
      z == IF Of(y, n).data = None THEN Put(NewRef(y, {}), n, [Of(y, n) EXCEPT !.data = Len(y.refs) + 1]) ELSE y
  IN [z EXCEPT !.refs[Of(z, n).data] = @ \cup {key}]
isEmptyDataObject(x, e) == e = [Entry EXCEPT !.data = e.data] /\ (e.data = None \/ x.refs[e.data] = {})
\* The entry and the expando go.
DropEntry(x, n) ==
  [x EXCEPT !.cache = [i \in DOMAIN @ \ {x.expando[n]} |-> @[i]], !.expando[n] = None]
\* jQuery.removeData by a key.
removeData(x, n, key) ==
  IF ~HasId(x, n) THEN x
  ELSE IF Of(x, n).data = None THEN IF isEmptyDataObject(x, Of(x, n)) THEN DropEntry(x, n) ELSE x
  ELSE LET y == [x EXCEPT !.refs[Of(x, n).data] = @ \ {key}]
           z == Put(y, n, [Of(y, n) EXCEPT !.data = None])
       IN IF y.refs[Of(x, n).data] # {} THEN y
          ELSE IF isEmptyDataObject(z, Of(z, n)) THEN DropEntry(z, n) ELSE z
\* jQuery.event.add and remove: what they keep in the entry.
Handled(x, n) ==
  IF Of(x, n).handle # None THEN x
  ELSE [Put(NewRef(x, {n}), n, [Of(x, n) EXCEPT !.handle = Len(x.refs) + 1]) EXCEPT !.native[n] = Len(x.refs) + 1]
Listening(x, n) == IF Of(x, n).events = {} THEN [x EXCEPT !.native[n] = Of(x, n).handle] ELSE x
Listed(x, n, h) == Put(x, n, [Of(x, n) EXCEPT !.events = @ \cup {h}])
addEvent(x, n, h) == Listed(Listening(Handled(Accept(x, n), n), n), n, h)
removeEvent(x, n, h) ==
  IF ~HasId(x, n) \/ Of(x, n).events = {} THEN x
  ELSE LET left == Of(x, n).events \ {h}
           y == Put(x, n, [Of(x, n) EXCEPT !.events = left])
           z == [Put(y, n, [Of(y, n) EXCEPT !.handle = None]) EXCEPT !.native[n] = None]
       IN IF left # {} THEN y ELSE IF isEmptyDataObject(z, Of(z, n)) THEN DropEntry(z, n) ELSE z
\* jQuery.cleanData.
cleanOne(n, x) ==
  IF ~HasId(x, n) THEN x
  ELSE LET h == Of(x, n).handle
           y == [DropEntry(x, n) EXCEPT !.native[n] = None]
       IN IF h # None /\ Of(x, n).events # {} THEN [y EXCEPT !.refs[h] = {}] ELSE y
\* Mutant: only the first of the elements is cleaned.
cleanFirst(x, nodes) == IF nodes = {} THEN x ELSE cleanOne(CHOOSE n \in nodes : \A m \in nodes : n <= m, x)
cleanData(x, nodes) == FoldSet(cleanOne, x, nodes)
-----------------------------------------------------------------------------
(* Copies.                                                                 *)

ownData(x, n, r) ==
  IF r = None THEN x ELSE Put(NewRef(x, x.refs[r]), n, [Of(x, n) EXCEPT !.data = Len(x.refs) + 1])
\* cloneCopyEvent: the entry is copied, the handlers are added anew, and the data
\* object becomes one of its own.
cloneCopyEvent(x, src, dest) ==
  IF ~HasId(x, src) \/ isEmptyDataObject(x, Of(x, src)) THEN x
  ELSE LET old == Of(x, src)
           y == Put(Accept(x, dest), dest, IF old.events = {} THEN old ELSE [old EXCEPT !.handle = None, !.events = {}])
       IN ownData(FoldSet(LAMBDA h, w : addEvent(w, dest, h), y, old.events), dest, old.data)

\* cloneNode( true ): the nodes below n in the same order, from the next free one.
cloneNode(x, n) ==
  LET old == Preorder(x, n)
      At(m) == x.top + (CHOOSE i \in DOMAIN old : old[i] = m)
      new == x.top + 1 .. x.top + Len(old)
  IN [x EXCEPT !.top = @ + Len(old),
               !.parent = [m \in Pool |-> IF m \in new /\ m > x.top + 1 THEN At(@[old[m - x.top]]) ELSE @[m]],
               !.kids = [m \in Pool |-> IF m \in new THEN [i \in DOMAIN @[old[m - x.top]] |-> At(@[old[m - x.top]][i])] ELSE @[m]],
               !.script = @ \cup {At(m) : m \in @ \cap ToSet(old)}]
\* jQuery.clone: with the data and the events of all nodes, or none.
clone(x, n, withData) ==
  LET old == Preorder(x, n)
      copy == cloneNode(x, n)
  IN IF withData THEN FoldLeft(LAMBDA y, i : cloneCopyEvent(y, old[i], x.top + i), copy, [i \in DOMAIN old |-> i]) ELSE copy
-----------------------------------------------------------------------------
(* Insertion.                                                              *)

Places == {"append", "prepend", "before", "after"}
\* append, prepend, before and after.
place(x, how, target, n) ==
  LET p == IF how \in {"append", "prepend"} THEN target ELSE x.parent[target]
      i == CASE how = "append" -> Len(x.kids[target]) + 1 [] how = "prepend" -> 1
             [] how = "before" -> Index(x, target) [] how = "after" -> Index(x, target) + 1
  IN insertBefore(x, p, i, <<n>>)
\* domManip: the node n goes to the last target and copies to the others; what
\* is kept in the cache of fragments is always copied.
domManip(x, how, targets, n, cacheable) ==
  LET One(y, i) ==
        IF cacheable \/ i < Len(targets) THEN place(clone(y, n, TRUE), how, targets[i], y.top + 1)
        ELSE place(y, how, targets[i], n)
  IN FoldLeft(One, x, [i \in DOMAIN targets |-> i])

\* buildFragment for a html text: from the cache when it was built twice.
Cacheable(h) == ~Html[h].script
Built(h) == fragments[h] > 1
Source(h) == IF Built(h) THEN fragments[h] ELSE d.top + 1
buildFragment(h) == IF Built(h) THEN d ELSE create(d, h)
Remember(h) ==
  [fragments EXCEPT ![h] = IF ~Cacheable(h) THEN @ ELSE IF @ = 0 THEN 1 ELSE Source(h)]
\* clean takes the scripts out of what is inserted, and they are run after it.
scripts(x, n) == Within(x, n) \cap x.script
takeScripts(x, n) == FoldSet(LAMBDA m, y : IF m = n THEN y ELSE removeChild(y, m), x, scripts(x, n))

Room(k) == d.top + k <= MaxNodes /\ Len(d.refs) + k <= MaxRefs /\ ops < MaxOps
\* The elements a page can name: nothing holds a script that was taken out, and
\* nothing but the cache its fragments.
Elements ==
  {n \in 1 .. d.top : ~(n \in d.script /\ d.parent[n] = None)} \ UNION {IF fragments[h] > 1 THEN Within(d, fragments[h]) ELSE {} : h \in DOMAIN fragments}
Op == ops' = ops + 1
Targets == {<<n>> : n \in Elements} \cup {t \in Elements \X Elements : t[1] < t[2]}
CanHold(how, t) == how \in {"append", "prepend"} \/ \A i \in DOMAIN t : d.parent[t[i]] # None

\* $( targets ).append( html ) and its kin.
InsertHtml(how, targets, h) ==
  /\ Room(Html[h].size * (Len(targets) + 1)) /\ CanHold(how, targets) /\ Op
  /\ LET n == Source(h)
         x == buildFragment(h)
         run == scripts(x, n)
         y == takeScripts(x, n)
     IN /\ d' = IF run = {n} THEN y ELSE domManip(y, how, targets, n, Cacheable(h))
        /\ ran' = [m \in Pool |-> IF m \in run THEN ran[m] + 1 ELSE ran[m]]
  /\ fragments' = Remember(h)
  /\ UNCHANGED gone

\* $( targets ).append( n ), for a node that is moved.
InsertNode(how, targets, n) ==
  LET x == removeChild(d, n)
      run == scripts(x, n)
  IN /\ n # Body /\ \A i \in DOMAIN targets : targets[i] \notin Within(d, n)
     /\ CanHold(how, targets) /\ Room(Cardinality(Within(d, n)) * (Len(targets) - 1)) /\ Op
     /\ d' = IF n \in run THEN x ELSE domManip(takeScripts(x, n), how, targets, n, FALSE)
     /\ ran' = [m \in Pool |-> IF m \in run THEN ran[m] + 1 ELSE ran[m]]
     /\ gone' = gone \ Within(d, n)
     /\ UNCHANGED fragments

\* $( n ).remove() and detach().
Taken(x, n, keepData) ==
  LET y == IF keepData THEN x ELSE cleanData(cleanData(x, Below(x, n)), {n}) IN removeChild(y, n)
RemoveNode(n, keepData) ==
  /\ n # Body /\ Room(0) /\ Op
  /\ d' = Taken(d, n, keepData)
  /\ gone' = IF keepData THEN gone ELSE gone \cup Within(d, n)
  /\ UNCHANGED <<fragments, ran>>

\* $( n ).empty().
emptied(x, n) == FoldSet(LAMBDA m, y : removeChild(y, m), cleanData(x, Below(x, n)), ToSet(x.kids[n]))
Empty(n) ==
  /\ Room(0) /\ Op /\ d' = emptied(d, n) /\ gone' = gone \cup Below(d, n) /\ UNCHANGED <<fragments, ran>>

\* $( n ).html( h ): by innerHTML, which runs no scripts, or by empty and append.
SetHtml(n, h) ==
  /\ Room(Html[h].size * 2) /\ Op /\ gone' = gone \cup Below(d, n)
  /\ IF Html[h].script
     THEN LET x == create(emptied(d, n), h)
              run == scripts(x, d.top + 1)
          IN /\ d' = IF run = {d.top + 1} THEN x ELSE domManip(takeScripts(x, d.top + 1), "append", <<n>>, d.top + 1, FALSE)
             /\ ran' = [m \in Pool |-> IF m \in run THEN ran[m] + 1 ELSE ran[m]]
     ELSE /\ d' = insertBefore(create(emptied(d, n), h), n, 1, <<d.top + 1>>)
          /\ UNCHANGED ran
  /\ UNCHANGED fragments

\* $( n ).replaceWith( m ): m is detached, n removed, and m put in its place.
ReplaceWith(n, m) ==
  /\ n # m /\ m # Body /\ d.parent[n] # None /\ n \notin Within(d, m) /\ m \notin Within(d, n)
  /\ Room(0) /\ Op
  /\ LET x == removeChild(d, m)
         p == x.parent[n]
         i == Index(x, n)
     IN d' = insertBefore(Taken(x, n, FALSE), p, i, <<m>>)
  /\ gone' = (gone \cup Within(d, n)) \ Within(d, m)
  /\ UNCHANGED <<fragments, ran>>

\* $( n ).wrap( w ): a copy of w in front of n, and n into its first leaf.
RECURSIVE Leaf(_, _)
Leaf(x, n) == IF x.kids[n] = <<>> THEN n ELSE Leaf(x, x.kids[n][1])
inFront(x, n, new) == IF x.parent[n] = None THEN x ELSE insertBefore(x, x.parent[n], Index(x, n), <<new>>)
appendChild(x, p, n) == insertBefore(x, p, Len(x.kids[p]) + 1, <<n>>)
intoLeaf(x, top, n) == appendChild(x, Leaf(x, top), n)
Wrap(n, w) ==
  /\ n # Body /\ w # Body /\ n \notin Within(d, w) /\ w \notin Within(d, n)
  /\ Room(Cardinality(Within(d, w))) /\ Op
  /\ d' = intoLeaf(removeChild(inFront(clone(d, w, TRUE), n, d.top + 1), n), d.top + 1, n)
  /\ UNCHANGED <<fragments, ran, gone>>

\* $( n ).unwrap(): the parent gives way to its children.
Unwrap(n) ==
  LET p == d.parent[n] IN
  /\ p \notin {None, Body} /\ d.parent[p] # None /\ Room(0) /\ Op
  /\ LET list == d.kids[p]
         x == FoldLeft(LAMBDA y, m : removeChild(y, m), d, list)
         q == x.parent[p]
         i == Index(x, p)
     IN d' = insertBefore(Taken(x, p, FALSE), q, i, list)
  /\ gone' = gone \cup {p}
  /\ UNCHANGED <<fragments, ran>>

Clone(n, withData) ==
  /\ n # Body /\ Room(Cardinality(Within(d, n))) /\ Op
  /\ d' = clone(d, n, withData) /\ UNCHANGED <<fragments, ran, gone>>

\* Data and handlers of an element.
Keep(n) ==
  /\ Room(1) /\ Op /\ n \notin gone
  /\ \/ d' = data(d, n, "k")
     \/ d' = removeData(d, n, "k")
     \/ d' = addEvent(d, n, "h")
     \/ d' = removeEvent(d, n, "h")
  /\ UNCHANGED <<fragments, ran, gone>>

MnInit ==
  /\ d = [parent |-> [n \in Pool |-> None], kids |-> [n \in Pool |-> <<>>], top |-> 1, script |-> {},
          expando |-> [n \in Pool |-> None], cache |-> <<>>, uuid |-> 0, refs |-> <<>>, native |-> [n \in Pool |-> None]]
  /\ fragments = [h \in DOMAIN Html |-> 0] /\ ran = [n \in Pool |-> 0] /\ gone = {} /\ ops = 0
MnNext ==
  \/ \E how \in Places, t \in Targets :
       (\E h \in DOMAIN Html : InsertHtml(how, t, h)) \/ (\E n \in Elements : InsertNode(how, t, n))
  \/ \E n \in Elements :
       \/ Empty(n) \/ Unwrap(n) \/ Keep(n)
       \/ \E keep \in BOOLEAN : RemoveNode(n, keep) \/ Clone(n, keep)
       \/ \E h \in DOMAIN Html : SetHtml(n, h)
       \/ \E m \in Elements : ReplaceWith(n, m) \/ Wrap(n, m)
-----------------------------------------------------------------------------
\* Type invariant: a tree in which parents and children agree.
MnTypeOK ==
  /\ \A n \in Pool : d.parent[n] \in 0 .. d.top /\ IsInjective(d.kids[n])
  /\ \A n, m \in Pool : d.parent[n] = m <=> Contains(d.kids[m], n)
  /\ d.parent[Body] = None

\* Every entry of the cache belongs to one element, which knows it: no data are
\* lost, none are shared, and none stay behind when their element forgets them.
OneOwner ==
  /\ \A i \in DOMAIN d.cache : Cardinality({n \in Pool : d.expando[n] = i}) = 1
  /\ \A n \in Pool : HasId(d, n) => d.expando[n] \in DOMAIN d.cache

\* Elements that were taken out for good, with all that was below them, leave
\* neither data nor handlers behind.
NothingBehind == \A n \in gone : ~HasId(d, n) /\ d.native[n] = None

\* The event handle of an element is its own and is the one that the browser
\* calls: an event on a copy never runs for the original.
HandleOwn ==
  \A n \in Pool : HasId(d, n) /\ Of(d, n).events # {} =>
    d.native[n] = Of(d, n).handle /\ d.refs[Of(d, n).handle] = {n}

\* The data of two elements are two objects.
CopiesApart ==
  \A n, m \in Pool : n # m /\ HasId(d, n) /\ HasId(d, m) /\ Of(d, n).data # None => Of(d, n).data # Of(d, m).data

\* A fragment in the cache stays as it was built, and no element of it is ever
\* put into the document.
FragmentsIntact ==
  \A h \in DOMAIN Html : fragments[h] > 1 =>
    /\ d.parent[fragments[h]] = None
    /\ Preorder(d, fragments[h]) = [i \in 1 .. Html[h].size |-> fragments[h] + i - 1]
    /\ \A n \in Within(d, fragments[h]) : ~HasId(d, n)

\* A script that was inserted is run once, whatever is moved afterwards.
RunOnce == \A n \in Pool : ran[n] <= 1

\* Together: however nodes are inserted, moved, copied and removed, data and handlers
\* stay with their element and go with it, and scripts run once.
NodesKept ==
  MnTypeOK /\ OneOwner /\ NothingBehind /\ HandleOwn /\ CopiesApart /\ FragmentsIntact /\ RunOnce

-----------------------------------------------------------------------------
(* Classes, attributes, properties and values of elements in jQuery        *)
(* (html/njs/jquery-1.7.2.js): an element with a class, a boolean attribute*)
(* and a select. A class text is a sequence of names and blanks.  asked    *)
(* records what the calls and the user have asked for until now, as sets of*)
(* names and as what is on or off; no action looks at it.                  *)

CONSTANTS Names,     \* class names
          Values,    \* class arguments: texts a caller passes
          Options,   \* the options of the select: their values
          Disabled,  \* the options that cannot be chosen
          MaxLen     \* bound on a class text

VARIABLES className, saved,       \* the class and what toggleClass() keeps of it
          native,                 \* the element has the property: a checkbox
          checkedAttr, checked,   \* its attribute, and its property: none, on, off
          one, selected,          \* the select: select-one, and the options chosen
          asked                   \* history: shown and kept names, on, html, val

Blank == " "
-----------------------------------------------------------------------------
(* Texts.                                                                  *)

Find(text, pat) ==
  LET at == {i \in 1 .. Len(text) : i + Len(pat) - 1 <= Len(text) /\ SubSeq(text, i, i + Len(pat) - 1) = pat}
  IN IF at = {} THEN 0 ELSE CHOOSE i \in at : \A j \in at : i <= j
\* text.replace( pat, by ): the first only.
Replace(text, pat, by) ==
  LET i == Find(text, pat) IN
  IF i = 0 THEN text ELSE SubSeq(text, 1, i - 1) \o by \o SubSeq(text, i + Len(pat), Len(text))
Trim(text) ==
  LET in == {i \in DOMAIN text : text[i] # Blank} IN
  IF in = {} THEN <<>>
  ELSE SubSeq(text, CHOOSE i \in in : \A j \in in : i <= j, CHOOSE i \in in : \A j \in in : i >= j)
\* value.split( /\s+/ ): a blank at either end gives an empty name.
Split(value) ==
  LET runs == {<<i, j>> \in (DOMAIN value) \X (DOMAIN value) : i <= j /\ \A k \in i .. j : value[k] # Blank
                 /\ (i = 1 \/ value[i - 1] = Blank) /\ (j = Len(value) \/ value[j + 1] = Blank)}
      inner == SetToSortSeq(runs, LAMBDA p, q : p[1] < q[1])
      words == [k \in DOMAIN inner |-> SubSeq(value, inner[k][1], inner[k][2])]
      pad(b) == IF b THEN <<<<>>>> ELSE <<>>
  IN pad(value = <<>> \/ value[1] = Blank) \o words \o pad(value # <<>> /\ value[Len(value)] = Blank)
Padded(t) == <<Blank>> \o t \o <<Blank>>
-----------------------------------------------------------------------------
(* Classes.                                                                *)

hasClass(class, name) == Find(Padded(class), Padded(name)) # 0
addClass(class, value) ==
  LET names == Split(value)
      Add(c, n) == IF Find(c, Padded(n)) # 0 THEN c ELSE c \o n \o <<Blank>>
  IN IF value = <<>> THEN class
     ELSE IF class = <<>> /\ Len(names) = 1 THEN value
     ELSE Trim(FoldLeft(Add, Padded(class), names))
removeClass(class, value) ==
  IF value = <<>> \/ class = <<>> THEN class
  ELSE Trim(FoldLeft(LAMBDA c, n : Replace(c, Padded(n), <<Blank>>), Padded(class), Split(value)))
\* toggleClass( value ): the names one by one, up to an empty one.
toggleClass(class, value) ==
  LET names == Split(value)
      upto == SubSeq(names, 1, (IF Contains(names, <<>>) THEN (CHOOSE i \in DOMAIN names : names[i] = <<>> /\ \A j \in 1 .. i - 1 : names[j] # <<>>) - 1 ELSE Len(names)))
  IN FoldLeft(LAMBDA c, n : IF hasClass(c, n) THEN removeClass(c, n) ELSE addClass(c, n), class, upto)
ClassesOf(class) == {n \in Names : hasClass(class, <<n>>)}
Count(class, n) == Cardinality({i \in DOMAIN class : class[i] = n})

\* toggleClass( value, state ).
setClasses(class, value, state) ==
  LET names == Split(value)
      upto == SelectInSeq(names, LAMBDA n : n = <<>>)
  IN FoldLeft(LAMBDA c, n : IF state THEN addClass(c, n) ELSE removeClass(c, n), class,
              IF upto = 0 THEN names ELSE SubSeq(names, 1, upto - 1))

\* The names in an argument; for toggleClass those in front of an empty one, which
\* ends it, so that a blank in front makes it do nothing.
Named(value) == ToSet(value) \ {Blank}
Reached(value) == IF value # <<>> /\ value[1] = Blank THEN {} ELSE Named(value)
Shows(c, shown) ==
  /\ Len(c) <= MaxLen /\ className' = c /\ asked' = [asked EXCEPT !.shown = shown]
  /\ UNCHANGED <<saved, native, checkedAttr, checked, one, selected>>
AddClass(value) == Shows(addClass(className, value), asked.shown \cup Named(value))
RemoveClass(value) == Shows(removeClass(className, value), asked.shown \ Named(value))
RemoveAll == Shows(<<>>, {})
ToggleClass(value) ==
  LET odd == {n \in Reached(value) : Count(value, n) % 2 = 1} IN
  Shows(toggleClass(className, value), (asked.shown \ odd) \cup (odd \ asked.shown))
ToggleTo(value, state) ==
  Shows(setClasses(className, value, state), IF state THEN asked.shown \cup Reached(value) ELSE asked.shown \ Reached(value))
\* attr( "class", value ), with blanks as they come.
AttrClass(value) == (\A n \in Names : Count(value, n) <= 1) /\ Shows(value, Named(value))

\* toggleClass(), toggleClass( true ) and toggleClass( false ).
Kept(off) ==
  asked' = [asked EXCEPT !.kept = IF asked.shown # {} THEN asked.shown ELSE @, !.shown = IF @ # {} \/ off THEN {} ELSE asked.kept]
\* Mutant: what was kept first is kept for ever.
ToggleAllFirst(off) ==
  /\ className' = IF className # <<>> \/ off THEN <<>> ELSE saved
  /\ saved' = IF className # <<>> /\ saved = <<>> THEN className ELSE saved
  /\ Kept(off) /\ UNCHANGED <<native, checkedAttr, checked, one, selected>>
\* The whole class away, and back.
ToggleAll(off) ==
  /\ className' = IF className # <<>> \/ off THEN <<>> ELSE saved
  /\ saved' = IF className # <<>> THEN className ELSE saved
  /\ Kept(off) /\ UNCHANGED <<native, checkedAttr, checked, one, selected>>
-----------------------------------------------------------------------------
(* A boolean attribute, of a checkbox or of an element that does not know  *)
(* it, so that its property is made when it is set.                        *)

OnOff(b) == IF b THEN "on" ELSE "off"
InElem == checked # "none"
Asks(on, html) ==
  asked' = [asked EXCEPT !.on = on, !.html = html] /\ UNCHANGED <<className, saved, native, one, selected>>
\* removeAttr( "checked" ), attr( "checked", false ) and attr( "checked", null ).
RemoveAttr == checkedAttr' = FALSE /\ checked' = (IF InElem THEN "off" ELSE checked) /\ Asks(FALSE, FALSE)
\* attr( "checked", true ): boolHook.set.
SetAttr == checkedAttr' = TRUE /\ checked' = (IF InElem THEN "on" ELSE checked) /\ Asks(TRUE, TRUE)
\* The property, set by prop( "checked", v ), val( [..] ) of a checkbox of value v, or
\* the browser: the user clicks, and a form that is reset takes the attribute.
SetProp(v) == checked' = OnOff(v) /\ UNCHANGED checkedAttr
Prop(v) == SetProp(v) /\ Asks(v, asked.html)
CheckboxVal(vs) == native /\ SetProp("v" \in vs) /\ Asks("v" \in vs, asked.html)
Click == native /\ SetProp(checked # "on") /\ Asks(~asked.on, asked.html)
Reset == native /\ SetProp(checkedAttr) /\ Asks(asked.html, asked.html)
\* attr( "checked" ): boolHook.get looks at the property, and at the attribute if the
\* element does not know the property.
GetAttr == checked = "on" \/ (checked = "none" /\ checkedAttr)
-----------------------------------------------------------------------------
(* The value of a select.                                                  *)

\* The browser: what is chosen after one option is set or cleared.
First(s) == IF s = {} THEN {} ELSE {CHOOSE i \in s : \A j \in s : i <= j}
Choose(sel, i, on) ==
  IF ~one THEN IF on THEN sel \cup {i} ELSE sel \ {i}
  ELSE IF on THEN {i} ELSE IF sel = {i} THEN First(DOMAIN Options \ Disabled) ELSE sel
\* valHooks.select.get: null is the empty sequence for a select-one.
selectGet(sel) ==
  LET ok == sel \ Disabled
      ix == SetToSortSeq(ok, LAMBDA a, b : a < b)
  IN IF sel = {} THEN <<>>
     ELSE IF one /\ ok = {} THEN <<Options[CHOOSE i \in sel : TRUE]>>
     ELSE [k \in DOMAIN ix |-> Options[ix[k]]]
\* valHooks.select.set.
selectSet(sel, values) ==
  LET each == FoldLeft(LAMBDA s, i : Choose(s, i, Options[i] \in values), sel, [i \in DOMAIN Options |-> i])
  IN IF values = {} THEN {} ELSE each
Chooses(sel, val) ==
  selected' = sel /\ asked' = [asked EXCEPT !.val = val] /\ UNCHANGED <<className, saved, native, checkedAttr, checked, one>>
Val(values) == Chooses(selectSet(selected, values), <<values>>)
\* The user chooses an option, or takes it back.
UserChooses(i) == i \notin Disabled /\ (one => i \notin selected) /\ Chooses(Choose(selected, i, i \notin selected), <<>>)

AtInit ==
  /\ className \in {<<>>} \cup {<<n>> : n \in Names} /\ saved = <<>>
  /\ native \in BOOLEAN /\ checkedAttr \in BOOLEAN /\ checked = (IF native THEN OnOff(checkedAttr) ELSE "none")
  /\ one \in BOOLEAN /\ selected = (IF one THEN First(DOMAIN Options \ Disabled) ELSE {})
  /\ asked = [shown |-> ToSet(className), kept |-> {}, on |-> checkedAttr, html |-> checkedAttr, val |-> <<>>]
\* The three elements have nothing in common.
ClassNext ==
  \/ \E v \in Values : AddClass(v) \/ RemoveClass(v) \/ ToggleClass(v) \/ AttrClass(v) \/ \E b \in BOOLEAN : ToggleTo(v, b)
  \/ RemoveAll \/ \E b \in BOOLEAN : ToggleAll(b)
BoxNext ==
  \/ RemoveAttr \/ SetAttr \/ Click \/ Reset
  \/ \E b \in BOOLEAN : Prop(b)
  \/ \E s \in {{"v"}, {}} : CheckboxVal(s)
SelectNext == (\E s \in SUBSET (ToSet(Options) \cup {"other"}) : Val(s)) \/ \E i \in DOMAIN Options : UserChooses(i)
AtNext(what) == (what = "class" /\ ClassNext) \/ (what = "box" /\ BoxNext) \/ (what = "select" /\ SelectNext)
-----------------------------------------------------------------------------
\* However classes are added, removed, toggled, put away and brought back, with
\* whatever blanks in the arguments, in the text and in the text that was put away
\* before, the element has the names that were asked for and each of them once:
\* removeClass takes away one only.  So the class that toggleClass() brings back is the
\* one it put away last, whatever came in between.
ClassesAsAsked == ClassesOf(className) = asked.shown /\ \A n \in Names : Count(className, n) <= 1

\* attr( "checked" ) tells what was asked for last, by the attribute, by the property,
\* by val or by the user, whichever were changed by others of these before; of a checkbox
\* this is what the user sees.  A form that is reset shows what was last asked for
\* by the attribute.
AttrTellsTruth == GetAttr = asked.on /\ (native => (checked = "on") = asked.on)

\* A value that was set is read back, whatever was chosen before by the user or by
\* another value: the options that have it and can be chosen, and nothing else. A
\* select-one that is given no value of its own shows the first option it can.
ValReadBack ==
  asked.val # <<>> =>
    LET values == asked.val[1]
        hit == {i \in DOMAIN Options : Options[i] \in values}
    IN
    /\ ~one => ToSet(selectGet(selected)) = {Options[i] : i \in hit \ Disabled}
    /\ one /\ hit # {} => \E i \in hit : selectGet(selected) = <<Options[i]>>
    /\ values = {} => selected = {}
    /\ one => Cardinality(selected) <= 1

\* Together: what any sequence of calls, clicks and resets asked for is what is read.
ValuesTrue == ClassesAsAsked /\ AttrTellsTruth /\ ValReadBack
=============================================================================
