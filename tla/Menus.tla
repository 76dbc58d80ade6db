------------------------------- MODULE Menus --------------------------------
(***************************************************************************)
(* The menus of Bootstrap (html/bootstrap/js/bootstrap.js): suggestions    *)
(* under a text field, looked up as one types, and drop-down menus.        *)
(* me.what says which of the two a behaviour is about.                     *)
(*                                                                         *)
(* Texts are sequences of letters.  A source may answer at once or later,  *)
(* in any order, with the items that begin with what was asked.  me.late   *)
(* is set when an answer comes that the field does not wait for any more:  *)
(* to an older query, or after the menu was closed.  It is shown all the   *)
(* same.                                                                   *)
(***************************************************************************)
EXTENDS Integers, Sequences, FiniteSets, SequencesExt

CONSTANTS Texts,      \* what can be in the field
          Words,      \* the items of the source
          MaxKeys     \* bound on keys and clicks
VARIABLE me
None == -1
Lower(text) == [i \in DOMAIN text |-> IF text[i] = "A" THEN "a" ELSE text[i]]
Holds(text, part) == \E i \in 0 .. Len(text) - Len(part) : SubSeq(text, i + 1, i + Len(part)) = part
-----------------------------------------------------------------------------
matcher(item, query) == Holds(Lower(item), Lower(query))
\* sorter( items ).
sorter(items, query) ==
  LET Begins(item) == IsPrefix(Lower(query), Lower(item))
      Cased(item) == ~Begins(item) /\ Holds(item, query)
      Rest(item) == ~Begins(item) /\ ~Cased(item)
  IN SelectSeq(items, Begins) \o SelectSeq(items, Cased) \o SelectSeq(items, Rest)
Found(items, query) == sorter(SelectSeq(items, LAMBDA w : matcher(w, query)), query)
\* The source: a list, or a function that answers.
Source(query) == IF me.source = "list" THEN Words ELSE SelectSeq(Words, LAMBDA w : IsPrefix(Lower(query), Lower(w)))

hideMenu(m) == [m EXCEPT !.shown = FALSE]
\* process( items ), render and show: the first item is active.
process(m, items) ==
  LET found == Found(items, m.query) IN
  IF found = <<>> THEN hideMenu(m) ELSE [m EXCEPT !.menu = found, !.active = 1, !.shown = TRUE]
\* lookup( ): the value of the field is the query from now on.
lookup(m) ==
  LET q == [m EXCEPT !.query = m.val] IN
  IF m.val = <<>> THEN hideMenu(q)
  ELSE IF m.source = "later" THEN [q EXCEPT !.asked = @ \cup {m.val}, !.waits = TRUE] ELSE process(q, Source(m.val))
\* The answer to a query, whenever it comes.
Answer(query) ==
  /\ query \in me.asked
  /\ LET m == [me EXCEPT !.asked = @ \ {query}, !.late = @ \/ query # me.query \/ ~me.waits] IN
     me' = process(m, Source(query))

Key(m) == me.keys < MaxKeys /\ me' = [m EXCEPT !.keys = @ + 1]
nextItem(m) == [m EXCEPT !.active = IF @ = Len(m.menu) THEN 1 ELSE @ + 1]
prevItem(m) == [m EXCEPT !.active = IF @ = 1 THEN Len(m.menu) ELSE @ - 1]
\* move( e ): on keydown, and on keypress when keydown did not.
move(m, key) ==
  IF ~m.shown THEN m
  ELSE CASE key = "down" -> nextItem(m) [] key = "up" -> prevItem(m) [] OTHER -> m
\* The field gets another text by a key, whose keyup looks it up.
TypeText(text) == me.focused /\ text # me.val /\ Key(lookup([me EXCEPT !.val = text, !.suppress = FALSE]))
\* An arrow key: keydown, and keypress where the browser fires it.
Arrow(key) ==
  LET down == move([me EXCEPT !.suppress = TRUE], key) IN
  me.focused /\ Key(IF down.suppress THEN down ELSE move(down, key))
\* A "(" has the code of the down arrow in keypress: it moves instead of being typed.
Parenthesis == me.focused /\ me.shown /\ Key(lookup(move([me EXCEPT !.suppress = FALSE], "down")))
select(m) == hideMenu([m EXCEPT !.val = m.menu[m.active], !.waits = FALSE])
Enter == me.focused /\ me.shown /\ Key(select(me))
Escape == me.focused /\ me.shown /\ Key(hideMenu([me EXCEPT !.waits = FALSE]))
\* The mouse chooses too. A menu hidden under it leaves mousedover true.
MouseEnter(i) == me.shown /\ i \in DOMAIN me.menu /\ Key([me EXCEPT !.over = TRUE, !.active = i])
MouseLeave ==
  /\ me.shown /\ me.over
  /\ Key(IF me.focused THEN [me EXCEPT !.over = FALSE] ELSE hideMenu([me EXCEPT !.over = FALSE]))
ClickItem == me.shown /\ me.over /\ Key([select(me) EXCEPT !.focused = TRUE])
Focus == ~me.focused /\ Key([me EXCEPT !.focused = TRUE])
Blur == me.focused /\ Key(IF me.over \/ ~me.shown THEN [me EXCEPT !.focused = FALSE, !.waits = FALSE]
                          ELSE hideMenu([me EXCEPT !.focused = FALSE, !.waits = FALSE]))
-----------------------------------------------------------------------------
(* Drop-down menus 1 .. 3; the third is disabled. On a touch screen a      *)
(* backdrop takes the clicks outside.                                      *)
Drops == 1 .. 3
Links == 3
clearMenus(m) == [m EXCEPT !.open = {}, !.backdrops = 0]
\* toggle( ): the others are closed, the head gets the focus.
toggle(m, d) ==
  LET c == clearMenus(m)
      o == IF d \in m.open THEN c ELSE [c EXCEPT !.open = {d}, !.backdrops = IF m.touch THEN @ + 1 ELSE @]
  IN IF d = 3 THEN m ELSE [o EXCEPT !.at = d, !.link = None]
Step(m) == me.keys < MaxKeys /\ me' = [m EXCEPT !.keys = @ + 1]
\* A click on a head; on a disabled one it goes on to the document.
ClickHead(d) == Step(IF d = 3 THEN clearMenus(me) ELSE toggle(me, d))
ClickOutside == Step(clearMenus(me))
\* keydown in a menu or on its head: arrows open it and go through its links, escape
\* closes it (and opens it, when it is closed).
KeyDown(key) ==
  LET d == me.at
      index == IF key = "up" /\ me.link > 0 THEN me.link - 1 ELSE IF key = "down" /\ me.link < Links - 1 THEN me.link + 1 ELSE me.link
  IN /\ d # None
     /\ Step(IF d \notin me.open \/ key = "escape" THEN toggle(me, d) ELSE [me EXCEPT !.link = IF index = None THEN 0 ELSE index])
-----------------------------------------------------------------------------
MeInit ==
  me \in [what : {"typeahead"}, keys : {0}, val : {<<>>}, query : {<<>>}, menu : {<<>>}, active : {0}, shown : {FALSE}, focused : {FALSE},
          over : {FALSE}, suppress : {FALSE}, asked : {{}}, waits : {FALSE}, late : {FALSE}, source : {"list", "now", "later"}]
    \cup [what : {"dropdown"}, keys : {0}, open : {{}}, backdrops : {0}, at : {None}, link : {None}, touch : BOOLEAN]
TypeaheadNext ==
  \/ \E t \in Texts : TypeText(t) \/ Answer(t)
  \/ \E k \in {"up", "down"} : Arrow(k)
  \/ Parenthesis \/ Enter \/ Escape \/ MouseLeave \/ ClickItem \/ Focus \/ Blur
  \/ \E i \in 1 .. Len(Words) : MouseEnter(i)
DropdownNext ==
  \/ \E d \in Drops : ClickHead(d)
  \/ ClickOutside \/ \E k \in {"up", "down", "escape"} : KeyDown(k)
MeNext == \/ me.what = "typeahead" /\ TypeaheadNext
          \/ me.what = "dropdown" /\ DropdownNext
-----------------------------------------------------------------------------
\* What is suggested is what the source has for the query of the field, those that
\* begin with it first, once no answer is awaited, unless one came late.
SuggestsAll ==
  me.what = "typeahead" /\ me.shown /\ ~me.late /\ me.query \notin me.asked =>
    LET all == {i \in DOMAIN Words : Words[i] \in ToSet(Source(me.query)) /\ matcher(Words[i], me.query)} IN
    /\ ToSet(me.menu) = {Words[i] : i \in all} /\ Len(me.menu) = Cardinality(all)
    /\ \A i, j \in DOMAIN me.menu :
         i < j /\ IsPrefix(Lower(me.query), Lower(me.menu[j])) => IsPrefix(Lower(me.query), Lower(me.menu[i]))

\* Even a late answer shows only what matches the query of now.
SuggestsFitting == me.what = "typeahead" /\ me.shown /\ me.asked = {} => \A i \in DOMAIN me.menu : matcher(me.menu[i], me.query)

\* The menu is open only while the field or the mouse is on it, unless an answer came
\* late.
MenuAttended == me.what = "typeahead" /\ me.shown /\ ~me.late => me.focused \/ me.over

ArrowStep ==
  \A k \in {"up", "down"} :
    Arrow(k) /\ me.shown /\ me'.suppress => (me'.active - me.active) % Len(me.menu) = (IF k = "down" THEN 1 ELSE -1) % Len(me.menu)
\* A press of an arrow key moves by one item, whether or not the browser fires
\* keypress for it.
ArrowOnce == [][me.what = "typeahead" => ArrowStep]_me

\* One drop-down menu is open at most, with a backdrop of its own on a touch screen;
\* and the focus stays within its links.
OneMenu ==
  me.what = "dropdown" =>
    /\ Cardinality(me.open) <= 1
    /\ me.backdrops = IF me.touch THEN Cardinality(me.open) ELSE 0
\* The arrow keys keep the focus within the links of the open drop-down menu.
LinkInside == me.what = "dropdown" => me.link < Links
=============================================================================
