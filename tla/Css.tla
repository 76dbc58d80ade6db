-------------------------------- MODULE Css ---------------------------------
(***************************************************************************)
(* How the build of html/jquery-require-sample/r.js optimizes the style    *)
(* sheets of a directory in place: the imports of each are inlined, the    *)
(* urls in them led to where they were, comments taken out, and, with      *)
(* removeCombined, what was inlined somewhere is deleted.                  *)
(*                                                                         *)
(* A path is a list of names.  A sheet is a list of items [t, path, v]: an *)
(* import (v is "" or its media), a rule, a url (v is its name) or a       *)
(* comment ("license" or "plain").                                         *)
(***************************************************************************)
EXTENDS Naturals, Sequences, SequencesExt, Functions, FiniteSets

CONSTANTS Sheets,    \* the directories: functions from files to sheets
          Ignore     \* cssImportIgnore: the import paths left alone

VARIABLES source,    \* the directory as it was
          disk, todo,
          combined,  \* removeCombined
          imports    \* the files inlined so far

Item(t, path, v) == [t |-> t, path |-> path, v |-> v]
normalize(path) ==
  FoldLeft(LAMBDA l, s : IF s = ".." /\ l # <<>> /\ Last(l) # ".." THEN Front(l) ELSE IF s = "." THEN l ELSE Append(l, s), <<>>, path)
-----------------------------------------------------------------------------
\* "." and ".." taken out of a url, from its end; the place i counts on.
RECURSIVE Collapse(_, _)
Collapse(parts, i) ==
  CASE i <= 1 -> parts
    [] i > 1 /\ parts[i] = "." -> Collapse(RemoveAt(parts, i), i - 1)
    [] i > 1 /\ parts[i] = ".." /\ parts[i - 1] # ".." -> Collapse(RemoveAt(RemoveAt(parts, i), i - 1), i - 2)
    [] OTHER -> Collapse(parts, i - 1)
\* Mutant: a url is left as it is in the imported file.
urlKept(importName, item) == item
importPath(importName) ==
  LET dir == Front(importName) IN IF dir # <<>> /\ dir[1] = "." THEN Tail(dir) ELSE dir
fixedUrl(importName, item) ==
  IF item.t # "url" THEN item
  ELSE LET path == importPath(importName) \o item.path IN [item EXCEPT !.path = Collapse(path, Len(path))]
\* A sheet with its imports inlined: the items, the files inlined, whether an import
\* has a media query, and the paths included so far, as they are written.
RECURSIVE flattenCss(_, _)
flattenCss(name, included) ==
  LET Take(st, item) ==
        LET full == Front(name) \o item.path
            file == normalize(full)
            flat == flattenCss(full, st.included \cup {full})
        IN IF item.t # "import" THEN [st EXCEPT !.items = Append(@, item)]
           ELSE IF item.v # "" THEN [st EXCEPT !.items = Append(@, item), !.skipped = TRUE]
           ELSE IF item.path \in Ignore \/ file \notin DOMAIN disk THEN [st EXCEPT !.items = Append(@, item)]
           ELSE IF full \in st.included THEN st
           ELSE [items |-> st.items \o [i \in DOMAIN flat.items |-> fixedUrl(item.path, flat.items[i])],
                 list |-> st.list \cup flat.list \cup {file}, skipped |-> st.skipped \/ flat.skipped, included |-> flat.included]
  IN FoldLeft(Take, [items |-> <<>>, list |-> {}, skipped |-> FALSE, included |-> included], disk[normalize(name)])
withoutComments(items) == SelectSeq(items, LAMBDA item : item.t # "comment" \/ item.v = "license")
cssText(name) ==
  LET flat == flattenCss(name, {}) IN withoutComments(IF flat.skipped THEN disk[name] ELSE flat.items)
\* The next file of the directory's list, in an order that the file system gives.
cssFile ==
  /\ \E f \in todo : /\ todo' = todo \ {f}
                     /\ disk' = [disk EXCEPT ![f] = cssText(f)]
                     /\ imports' = imports \cup (IF combined THEN flattenCss(f, {}).list ELSE {})
  /\ UNCHANGED <<source, combined>>
removeImports ==
  /\ todo = {} /\ imports # {} /\ disk' = Restrict(disk, DOMAIN disk \ imports) /\ imports' = {}
  /\ UNCHANGED <<source, todo, combined>>
CsInit == source \in Sheets /\ disk = source /\ todo = DOMAIN source /\ combined \in BOOLEAN /\ imports = {}
CsNext == cssFile \/ removeImports
-----------------------------------------------------------------------------
(* What a page sees that links a sheet.                                    *)
Target(f, item) == normalize(Front(f) \o item.path)
Read(d, f) == {Target(f, d[f][i]) : i \in {j \in DOMAIN d[f] : d[f][j].t = "import"}} \cap DOMAIN d
RECURSIVE Loaded(_, _)
Loaded(d, set) == LET more == set \cup UNION {Read(d, f) : f \in set} IN IF more = set THEN set ELSE Loaded(d, more)
Kinds == {"rule", "url"}
Rules(d, f) == {d[f][i].v : i \in {j \in DOMAIN d[f] : d[f][j].t \in Kinds}}
\* The rules in the order in which they are applied, imports first where they stand.
RECURSIVE Cascade(_, _)
Cascade(d, f) ==
  FlattenSeq([i \in DOMAIN d[f] |->
    LET item == d[f][i] IN
    IF item.t = "import" THEN IF Target(f, item) \in DOMAIN d THEN Cascade(d, Target(f, item)) ELSE <<>>
    ELSE IF item.t \in Kinds THEN <<item.v>> ELSE <<>>])
\* Paths from a sheet to a sheet: no sheet is met twice, or again within itself.
RECURSIVE Tree(_, _)
Tree(f, above) ==
  LET links == {i \in DOMAIN source[f] : source[f][i].t = "import" /\ Target(f, source[f][i]) \in DOMAIN source}
  IN /\ f \notin above
     /\ \A i \in links : Tree(Target(f, source[f][i]), above \cup {f})
     /\ \A i, j \in links : i # j => Loaded(source, {Target(f, source[f][i])}) \cap Loaded(source, {Target(f, source[f][j])}) = {}
AllItems == UNION {{<<f, source[f][i]>> : i \in DOMAIN source[f]} : f \in DOMAIN source}
NoMedia   == \A p \in AllItems : p[2].t = "import" => p[2].v = ""
NoIgnored == \A p \in AllItems : p[2].t = "import" => p[2].path \notin Ignore
\* A page that links a sheet has all the rules it had, at any moment of the build and after it,
\* where no import is for a medium or left alone (21733-21849, 22026-22055).
PageWhole ==
  NoMedia /\ NoIgnored => \A f \in DOMAIN disk :
    UNION {Rules(disk, g) : g \in Loaded(disk, {f})} = UNION {Rules(source, g) : g \in Loaded(source, {f})}
\* Its rules are applied in the order they were, when no sheet is imported twice; media
\* queries or not, until files are deleted (21955).
SameCascade ==
  \A f \in DOMAIN disk : Tree(f, {}) /\ ((NoMedia /\ NoIgnored) \/ ~combined) => Cascade(disk, f) = Cascade(source, f)
NoDotUp == \A p \in AllItems : \A i \in 2..Len(p[2].path) : p[2].path[i] = ".." => p[2].path[i - 1] # "."
\* A url leads where it led, whatever sheet it is in now, when none goes up from "./"
\* (21795-21834).
UrlsKept ==
  NoDotUp => \A f \in DOMAIN disk : \A i \in DOMAIN disk[f] : disk[f][i].t = "url" =>
    \E p \in AllItems : p[2].t = "url" /\ p[2].v = disk[f][i].v /\ Target(p[1], p[2]) = Target(f, disk[f][i])
Licensed(d, f) == {d[f][i].path : i \in {j \in DOMAIN d[f] : d[f][j].t = "comment" /\ d[f][j].v = "license"}}
\* The license comments are kept, where removal does not take the sheet itself away.
LicensesKept == NoMedia /\ NoIgnored =>
  \A f \in DOMAIN disk : UNION {Licensed(source, g) : g \in Loaded(source, {f})} = UNION {Licensed(disk, g) : g \in Loaded(disk, {f})}
\* Together: a sheet that its imports were put in shows what it showed.
SheetsKept == PageWhole /\ SameCascade /\ UrlsKept /\ LicensesKept
=============================================================================
