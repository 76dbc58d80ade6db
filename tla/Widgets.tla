------------------------------ MODULE Widgets -------------------------------
(***************************************************************************)
(* Widgets of Bootstrap (html/bootstrap/js/bootstrap.js) whose state changes*)
(* now and at the end of a transition or a timer that other clicks may     *)
(* overtake.                                                               *)
(*                                                                         *)
(* cr is a carousel: items that slide by an interval, by calls and by clicks*)
(* on indicators.  A handler that prevents a slide leaves sliding true, and*)
(* the carousel is stuck (cr.stuck); a slide that begins between the end   *)
(* of the last one and its slid event (cr.early, until one begins in time) *)
(* loses its indicator to that event.                                      *)
(*                                                                         *)
(* pn is an accordion, a row of tabs, an alert or a button: pn.what says   *)
(* which one a behaviour is about.  A panel of which a hide was prevented  *)
(* is open besides another (pn.kept).  A panel whose last event was        *)
(* prevented has been given a size all the same, and one that is hidden    *)
(* while a dropped instance shows it gets its size from that (pn.odd).  A  *)
(* tab that is clicked during the fade of another leaves two panes (pn.odd *)
(* is "now" until a click finds nothing waiting, "been" from then on).     *)
(***************************************************************************)
EXTENDS Integers, Sequences, FiniteSets, SequencesExt

CONSTANTS Items,      \* how many items
          MaxCalls,   \* bound on calls from outside
          MaxClicks   \* bound on clicks and calls on panels, tabs, alerts and buttons
VARIABLES cr, pn

None == -1
All == 0 .. Items - 1

\* cycle( e ): a new interval, unless it is paused.
cycle(c, e) ==
  LET d == IF e THEN c ELSE [c EXCEPT !.paused = FALSE]
      off == [d EXCEPT !.live = @ \ {d.interval}]
  IN IF ~c.cycles \/ d.paused THEN off
     ELSE [off EXCEPT !.made = 1 - @, !.interval = 1 - d.made, !.live = @ \cup {1 - d.made}]
End(c) ==
  IF c.next = None THEN c
  ELSE [c EXCEPT !.active = (@ \ {c.from}) \cup {c.next}, !.next = None, !.from = None, !.sliding = FALSE, !.slid = @ + 1]
\* pause( e ): a slide that is running is ended at once.
pause(c, e) ==
  LET d == IF e THEN c ELSE [c EXCEPT !.paused = TRUE]
      f == IF d.next # None /\ d.transition THEN cycle(End(d), TRUE) ELSE d
  IN [f EXCEPT !.live = @ \ {f.interval}, !.interval = None]

ActiveIndex(c) == CHOOSE i \in c.active : TRUE
\* slide( type, next ); the handlers that wait for slid are None (indicators) or
\* the item that to( ) was asked for.
slide(c, n, prevent) ==
  LET d == [c EXCEPT !.sliding = TRUE, !.early = c.slid > 0]
      f == IF c.interval # None THEN pause(d, FALSE) ELSE d
      g == [f EXCEPT !.indicator = None, !.wait = Append(@, None)]
      h == IF g.transition THEN [g EXCEPT !.next = n, !.from = ActiveIndex(c)]
           ELSE [f EXCEPT !.active = {n}, !.sliding = FALSE, !.indicator = n]
  IN IF n \in f.active THEN [f EXCEPT !.stuck = TRUE]
     ELSE IF prevent THEN [g EXCEPT !.stuck = TRUE]
     ELSE IF c.interval # None THEN cycle(h, FALSE) ELSE h
Step(c, type, prevent) ==
  IF c.sliding THEN c
  ELSE slide(c, IF type = "next" THEN (ActiveIndex(c) + 1) % Items ELSE (ActiveIndex(c) + Items - 1) % Items, prevent)
\* to( pos ).
to(c, pos) ==
  IF pos \notin All THEN c
  ELSE IF c.sliding THEN [c EXCEPT !.wait = Append(@, pos)]
  ELSE IF pos \in c.active THEN cycle(pause(c, FALSE), FALSE)
  ELSE slide(c, pos, FALSE)

Call(c) == cr.calls < MaxCalls /\ cr' = [c EXCEPT !.calls = @ + 1]
Go(type, prevent) == Call(Step(cr, type, prevent))
To(pos) == Call(to(cr, pos))
Pause == Call(pause(cr, FALSE))
Cycle == Call(cycle(cr, FALSE))
\* The mouse comes and goes.
Mouse == cr.hover /\ Call([(IF cr.over THEN cycle(cr, TRUE) ELSE pause(cr, TRUE)) EXCEPT !.over = ~@])
\* The interval, the end of the transition, and the timer of slid.
Interval(i) == i \in cr.live /\ cr.ticks < MaxCalls /\ cr' = [Step(cr, "next", FALSE) EXCEPT !.ticks = @ + 1]
TransitionEnd == cr.next # None /\ cr' = End(cr)
\* Mutant: what waited is forgotten.
SlidForgets == cr.slid > 0 /\ cr' = [cr EXCEPT !.slid = @ - 1, !.wait = <<>>, !.indicator = ActiveIndex(cr)]
\* All that waits for slid runs: the indicator follows, and to( ) is tried again.
Slid ==
  /\ cr.slid > 0
  /\ LET Handle(c, w) ==
           IF w = None THEN [c EXCEPT !.indicator = ActiveIndex(c)] ELSE to(c, w)
     IN cr' = FoldLeft(Handle, [cr EXCEPT !.slid = @ - 1, !.wait = <<>>], cr.wait)

CrInit ==
  cr \in {[active |-> {0}, next |-> None, from |-> None, indicator |-> 0, sliding |-> FALSE, paused |-> FALSE, interval |-> None, live |-> {},
           made |-> 0, slid |-> 0, wait |-> <<>>, over |-> FALSE, stuck |-> FALSE, early |-> FALSE, calls |-> 0, ticks |-> 0,
           transition |-> t, cycles |-> c, hover |-> h] : t, c, h \in BOOLEAN}
CrNext ==
  \/ \E t \in {"next", "prev"}, p \in BOOLEAN : Go(t, p)
  \/ \E pos \in 0 .. Items : To(pos)
  \/ Pause \/ Cycle \/ Mouse \/ TransitionEnd \/ Slid
  \/ \E i \in 0 .. 1 : Interval(i)
CrFair == WF_cr(TransitionEnd) /\ WF_cr(Slid)
-----------------------------------------------------------------------------
\* One item is active, and while it is exchanged the next one is known.
OneItem == Cardinality(cr.active) = 1 /\ (cr.next # None => cr.sliding /\ cr.next \notin cr.active)

\* There is never more than one interval, and the one there is, is known, so that
\* pause stops it.
OneInterval == cr.live \subseteq {cr.interval}

\* Once a slide and its slid event are over the carousel can slide again, nothing
\* waits, and the indicator is that of the active item, unless the last slide began
\* before the event of the one before it.  Only a slide that was prevented leaves
\* the carousel stuck.
CrAtRest ==
  cr.next = None /\ cr.slid = 0 /\ ~cr.stuck =>
    ~cr.sliding /\ cr.wait = <<>> /\ (~cr.early => cr.indicator = ActiveIndex(cr))

Waiting(pos) == cr.calls = MaxCalls /\ ~cr.cycles /\ SelectSeq(cr.wait, LAMBDA w : w # None) = <<pos>>
\* An item that was asked for while another slides in is reached in the end, when
\* nothing else is asked for.
ReachesItem == \A pos \in All : Waiting(pos) ~> (cr.stuck \/ cr.active = {pos})

CyclesOnStep == cr.interval # None /\ cr'.next # None /\ cr.next = None => cr'.interval # None
\* A call that slides a cycling carousel leaves it cycling.
CyclesOn == [][CyclesOnStep]_cr
-----------------------------------------------------------------------------
(* Panels, tabs, alerts and buttons.                                       *)
NoPanel == 0
Click(p) == pn.clicks < MaxClicks /\ pn' = [p EXCEPT !.clicks = @ + 1]
-----------------------------------------------------------------------------
(* Accordion: a panel has its class, its size, its instance, if that moves *)
(* it, and what waits for the end of its transition: callbacks of this     *)
(* instance (own) or of one that was dropped.                              *)
Groups == 1 .. 3
Panel(in) == [in |-> in, size |-> IF in THEN "auto" ELSE "zero", instance |-> FALSE, moving |-> FALSE, ends |-> <<>>]
Open(p) == {g \in Groups : p.panel[g].in}
\* complete, when a panel was shown or hidden.
complete(p, g, end) ==
  [p EXCEPT !.panel[g].size = IF end.type = "show" THEN "auto" ELSE @, !.panel[g].moving = @ /\ ~end.own, !.done[end.type] = @ + 1]
\* transition: the class changes at once, unless the event is prevented.
transition(p, g, type, prevent) ==
  IF prevent THEN [p EXCEPT !.odd = @ \cup {g}]
  ELSE LET q == [p EXCEPT !.panel[g].moving = TRUE, !.panel[g].in = (type = "show"), !.asked[type] = @ + 1,
                          !.odd = IF type = "hide" /\ \E e \in ToSet(p.panel[g].ends) : e.type = "show" THEN @ \cup {g} ELSE @ \ {g}]
           end == [type |-> type, own |-> TRUE]
       IN IF p.transition THEN [q EXCEPT !.panel[g].ends = Append(@, end)] ELSE complete(q, g, end)
\* hide( ).
hide(p, g, prevent) ==
  IF p.panel[g].moving \/ ~p.panel[g].in THEN p
  ELSE LET q == transition([p EXCEPT !.panel[g].size = "px"], g, "hide", prevent)
       IN [q EXCEPT !.panel[g].size = "zero"]
Drop(h, p) ==
  [p EXCEPT !.panel[h].instance = FALSE, !.panel[h].moving = FALSE, !.panel[h].ends = [i \in DOMAIN @ |-> [@[i] EXCEPT !.own = FALSE]]]
First(p) == Min(Open(p))
\* collapse( 'hide' ) on what is open, with instances for the time of the call if the
\* first has none.
hideOthers(p, prevent) ==
  LET q == FoldSet(LAMBDA h, r : hide([r EXCEPT !.panel[h].instance = TRUE], h, prevent), p, Open(p)) IN
  [(IF p.panel[First(p)].instance THEN q ELSE FoldSet(Drop, q, Open(p))) EXCEPT !.kept = @ \/ prevent]
\* show( ): the open panel of the accordion is hidden, unless it is moving.
show(p, g, prevent, other) ==
  LET busy == Open(p) # {} /\ p.panel[First(p)].instance /\ p.panel[First(p)].moving
      free == IF Open(p) = {} THEN p ELSE hideOthers(p, other)
      q == transition([free EXCEPT !.panel[g].size = "zero"], g, "show", prevent)
  IN IF p.panel[g].moving \/ p.panel[g].in \/ busy THEN p
     ELSE IF q.transition THEN [q EXCEPT !.panel[g].size = "px"] ELSE q
\* A click on the head of a panel: an instance if it has none, and toggle( ).
Toggle(g, prevent, other) ==
  LET p == [pn EXCEPT !.panel[g].instance = TRUE]
      q == IF p.panel[g].in THEN hide(p, g, prevent) ELSE show(p, g, prevent, other)
  IN /\ pn.what = "accordion"
     /\ Click([q EXCEPT !.kept = @ /\ Cardinality(Open(q)) > 1])
PanelEnd(g) ==
  /\ pn.what = "accordion" /\ pn.panel[g].ends # <<>>
  /\ pn' = FoldLeft(LAMBDA p, end : complete(p, g, end), [pn EXCEPT !.panel[g].ends = <<>>], pn.panel[g].ends)
-----------------------------------------------------------------------------
(* Tabs: the active heads and panes, the panes that are faded in, and for  *)
(* each pane what waits for the end of its fading.                         *)
\* next, for the panes that were active and the one to come.
next(p, job) ==
  [p EXCEPT !.panes = (@ \ job.from) \cup {job.to}, !.in = IF p.fade THEN @ \cup {job.to} ELSE @, !.shown = @ + 1]
\* show( ) of a tab, and activate for its head and its pane.
ShowTab(t, prevent) ==
  LET job == [from |-> pn.panes, to |-> t]
      p == [pn EXCEPT !.heads = {t}, !.shows = @ + 1, !.in = @ \ pn.panes,
                      !.odd = IF \E g \in Groups : pn.waits[g] # <<>> THEN "now" ELSE IF @ = "now" THEN "been" ELSE @]
  IN /\ pn.what = "tab"
     /\ Click(IF t \in pn.heads \/ prevent THEN pn
              ELSE IF pn.fade THEN [p EXCEPT !.waits = [g \in Groups |-> IF g \in pn.panes THEN Append(@[g], job) ELSE @[g]]]
              ELSE next(p, job))
PaneEnd(t) ==
  /\ pn.what = "tab" /\ pn.waits[t] # <<>>
  /\ pn' = FoldLeft(next, [pn EXCEPT !.waits[t] = <<>>], pn.waits[t])
-----------------------------------------------------------------------------
(* An alert: close( ) fires close, and closed when it leaves the document. *)
CloseAlert(prevent) ==
  LET p == [pn EXCEPT !.in = FALSE, !.asks = @ + 1] IN
  /\ pn.what = "alert" /\ pn.dom
  /\ Click(IF prevent THEN pn
           ELSE IF pn.fade THEN [p EXCEPT !.waiting = @ + 1] ELSE [p EXCEPT !.dom = FALSE, !.closed = @ + 1])
\* Every handler runs, the alert is taken out by the first.
AlertEnd ==
  /\ pn.what = "alert" /\ pn.waiting > 0 /\ pn.dom
  /\ pn' = [pn EXCEPT !.dom = FALSE, !.closed = @ + pn.waiting, !.waiting = 0]
-----------------------------------------------------------------------------
(* Buttons: a text now, disabled or not in a moment; and a radio group.    *)
\* setState( state ): the first one keeps the text for reset.
SetState(state) ==
  LET kept == IF pn.reset = "" THEN pn.text ELSE pn.reset IN
  /\ pn.what = "button"
  /\ Click([pn EXCEPT !.reset = kept, !.text = IF state = "reset" THEN kept ELSE state, !.timers = Append(@, state)])
ButtonTimer ==
  /\ pn.what = "button" /\ pn.timers # <<>>
  /\ pn' = [pn EXCEPT !.disabled = (Head(pn.timers) = "loading"), !.timers = Tail(@)]
\* toggle( ), in a group of radio buttons or alone.
ToggleButton(b) ==
  /\ pn.what = "button"
  /\ Click([pn EXCEPT !.pressed = IF pn.radio THEN {b} ELSE IF b \in pn.pressed THEN @ \ {b} ELSE @ \cup {b}])
-----------------------------------------------------------------------------
Zero == [type \in {"show", "hide"} |-> 0]
PnInit ==
  pn \in [what : {"accordion"}, clicks : {0}, odd : {{}}, kept : {FALSE}, transition : BOOLEAN, asked : {Zero}, done : {Zero},
          panel : {[g \in Groups |-> Panel(g = open)] : open \in {NoPanel, 1}}]
    \cup [what : {"tab"}, clicks : {0}, odd : {"no"}, fade : BOOLEAN, heads : {{1}}, panes : {{1}}, in : {{1}},
          waits : {[g \in Groups |-> <<>>]}, shows : {0}, shown : {0}]
    \cup [what : {"alert"}, clicks : {0}, fade : BOOLEAN, dom : {TRUE}, in : {TRUE}, waiting : {0}, asks : {0}, closed : {0}]
    \cup [what : {"button"}, clicks : {0}, radio : BOOLEAN, text : {"Send"}, reset : {""}, timers : {<<>>},
          disabled : {FALSE}, pressed : {{}}]
PnNext ==
  \/ \E g \in Groups, p, o \in BOOLEAN : Toggle(g, p, o)
  \/ \E g \in Groups : PanelEnd(g) \/ PaneEnd(g) \/ ToggleButton(g)
  \/ \E g \in Groups, p \in BOOLEAN : ShowTab(g, p)
  \/ \E p \in BOOLEAN : CloseAlert(p)
  \/ \E s \in {"loading", "reset"} : SetState(s)
  \/ AlertEnd \/ ButtonTimer
-----------------------------------------------------------------------------
\* An accordion never has two open panels, however fast the clicks are, but for a
\* panel that a handler of its hide event kept open.
OneOpen == pn.what = "accordion" /\ ~pn.kept => Cardinality(Open(pn)) <= 1

\* When no panel moves, all can be clicked, every start was answered by one end, also
\* when an instance was dropped while it moved its panel, and those that are open
\* have their own size and the others none, but for a panel whose last event was
\* prevented or that was hidden while a dropped instance was showing it.
PanelsAtRest ==
  pn.what = "accordion" /\ (\A g \in Groups : pn.panel[g].ends = <<>>) =>
    /\ \A g \in Groups : ~pn.panel[g].moving /\ (g \notin pn.odd => pn.panel[g].size = IF pn.panel[g].in THEN "auto" ELSE "zero")
    /\ pn.asked = pn.done

\* When no fading is under way, however clicks overtook each other, a pane is shown and
\* what is shown is faded in, and every click that changed the tab was answered.  Unless
\* the last of them came while a pane was fading, the pane is that of the active tab and
\* the only one.  If none did, each had one answer and no other pane is faded in.
TabsAtRest ==
  pn.what = "tab" /\ (\A g \in Groups : pn.waits[g] = <<>>) =>
    /\ pn.shown >= pn.shows /\ (pn.odd = "no" => pn.shown = pn.shows)
    /\ pn.odd # "now" => pn.panes = pn.heads
    /\ pn.panes # {} /\ (pn.fade => pn.panes \subseteq pn.in /\ (pn.odd = "no" => pn.in = pn.panes))

\* An alert that leaves the document answers every close that was not prevented, those
\* during its fade too, and says nothing before.
AlertSays == pn.what = "alert" => pn.closed = IF pn.dom THEN 0 ELSE pn.asks

\* Once the timers have run, a button that shows its own text can be pressed and one
\* that shows another cannot, however often it was set.
ButtonAtRest ==
  pn.what = "button" /\ pn.timers = <<>> => (pn.text = "Send") = ~pn.disabled
=============================================================================
