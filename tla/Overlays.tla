------------------------------ MODULE Overlays ------------------------------
(***************************************************************************)
(* What Bootstrap (html/bootstrap/js/bootstrap.js) puts over a page, and   *)
(* takes away after transitions and timers that other calls may overtake.  *)
(*                                                                         *)
(* md is a modal dialog. Showing and hiding it run over transitions of two *)
(* elements and a timer, each with callbacks of its own.  A dialog may be  *)
(* hidden while it fades in, but two calls come too soon: a show while a   *)
(* hiding is still running, and a hide while the backdrop of a showing is. *)
(* md.hasty counts these, and md.upset says that one came since the last   *)
(* hide with nothing pending; md.lost counts the shown events that the     *)
(* timer dropped.                                                          *)
(*                                                                         *)
(* tt is a tooltip or a popover: tips that appear and vanish by the mouse, *)
(* the focus, clicks and calls, after delays and over transitions.         *)
(* tt.el[e] is the tip of the element e: class in, in the document or not, *)
(* and what waits to take it out: `both` counts the pairs of a timer and a *)
(* handler of the transition's end, `alone` the timers whose handler was   *)
(* dropped. With a selector one delegate's timeout serves two elements.    *)
(* el.hasty is set when a tip is shown while it is on its way out, or      *)
(* hidden when it is not shown, until it is shown with nothing waiting: an *)
(* old timer or handler may take out what is shown.  tt.odd is set when a delayed hide is not called off by  *)
(* entering again (a delay for hiding only), is called off by entering     *)
(* another element, or outlives destroy.                                   *)
(***************************************************************************)
EXTENDS Naturals, Sequences, FiniteSets, SequencesExt

CONSTANTS MaxCalls,   \* bound on show and hide
          MaxMoves    \* bound on what the user and the page do about tips
VARIABLES md, tt

None == 0

Fading == {b \in DOMAIN md.drops : md.drops[b].dom /\ md.drops[b].once # <<>>}
Pending == md.once # <<>> \/ md.timeout \/ Fading # {}
Appearing == Fading # {} /\ md.isShown
Hiding == Pending /\ ~md.isShown
\* A call that takes effect, too soon or not.
Soon(m, soon) == [m EXCEPT !.hasty = IF soon THEN @ + 1 ELSE @, !.upset = soon \/ (@ /\ (Pending \/ ~md.isShown))]
Backdrops(m) == {b \in DOMAIN m.drops : m.drops[b].dom}
Trigger(m, e) == [m EXCEPT !.seen[e] = @ + 1]
-----------------------------------------------------------------------------
\* The callback of show: the dialog appears.
Appear(m) ==
  LET up == [m EXCEPT !.display = TRUE, !.in = TRUE, !.focusin = @ + 1] IN
  IF m.fade THEN [up EXCEPT !.once = Append(@, "shown")] ELSE Trigger(up, "shown")
\* removeBackdrop, then hidden.
removeBackdrop(m) ==
  Trigger([m EXCEPT !.drops = IF m.backdrop = None THEN @ ELSE [@ EXCEPT ![m.backdrop].dom = FALSE], !.backdrop = None], "hidden")
Do(m, callback) == IF callback = "appear" THEN Appear(m) ELSE removeBackdrop(m)
\* backdrop( callback ).
backdrop(m, callback) ==
  IF m.isShown /\ m.hasBackdrop
  THEN LET made == [m EXCEPT !.drops = Append(@, [dom |-> TRUE, once |-> IF m.fade THEN <<callback>> ELSE <<>>]), !.backdrop = Len(m.drops) + 1]
       IN IF m.fade THEN made ELSE Do(made, callback)
  ELSE IF ~m.isShown /\ m.backdrop # None
  THEN IF m.fade THEN [m EXCEPT !.drops[m.backdrop].once = Append(@, callback)] ELSE Do(m, callback)
  ELSE Do(m, callback)
hideModal(m) == backdrop([m EXCEPT !.display = FALSE], "remove")
\* escape: the handler of the key comes and goes with the dialog.
escape(m) == [m EXCEPT !.keyup = IF m.isShown THEN @ + (IF m.keyboard THEN 1 ELSE 0) ELSE 0]

Call == md.calls < MaxCalls
\* show( ); a handler of its event may prevent it.
Show(prevent) ==
  LET m == [Trigger(md, "show") EXCEPT !.calls = @ + 1] IN
  /\ Call
  /\ md' = IF md.isShown \/ prevent THEN m
           ELSE backdrop(escape([Soon(m, Hiding) EXCEPT !.isShown = TRUE, !.shows = @ + 1]), "appear")
\* Mutant: the handlers of the dialog stay.
HideOnly(prevent) ==
  LET m == [Trigger(md, "hide") EXCEPT !.calls = @ + 1]
      down == [Soon(m, Appearing) EXCEPT !.isShown = FALSE, !.hides = @ + 1, !.in = FALSE]
  IN /\ Call
     /\ md' = IF ~md.isShown \/ prevent THEN m
              ELSE IF md.fade THEN [down EXCEPT !.once = Append(@, "hideModal"), !.timeout = TRUE] ELSE hideModal(down)
\* hide( ), by the page, a click on the backdrop or the escape key.
Hide(prevent) ==
  LET m == [Trigger(md, "hide") EXCEPT !.calls = @ + 1]
      down == [escape([Soon(m, Appearing) EXCEPT !.isShown = FALSE]) EXCEPT !.hides = @ + 1, !.focusin = 0, !.in = FALSE]
  IN /\ Call
     /\ md' = IF ~md.isShown \/ prevent THEN m
              ELSE IF md.fade THEN [down EXCEPT !.once = Append(@, "hideModal"), !.timeout = TRUE] ELSE hideModal(down)

Run(m, what) == IF what = "shown" THEN Trigger(m, "shown") ELSE hideModal([m EXCEPT !.timeout = FALSE])
\* The transition of the dialog ends: every callback waiting for it runs.
ElementEnd ==
  /\ md.once # <<>>
  /\ md' = FoldLeft(Run, [md EXCEPT !.once = <<>>], md.once)
\* It does not end in half a second: the callbacks are dropped.
Timeout ==
  /\ md.timeout
  /\ md' = hideModal([md EXCEPT !.timeout = FALSE, !.once = <<>>, !.lost = @ + Len(SelectSeq(md.once, LAMBDA w : w = "shown"))])
BackdropEnd(b) ==
  /\ md.drops[b].once # <<>> /\ md.drops[b].dom
  /\ md' = FoldLeft(Do, [md EXCEPT !.drops[b].once = <<>>], md.drops[b].once)

MdInit ==
  md \in {[isShown |-> FALSE, in |-> FALSE, display |-> FALSE, backdrop |-> None, drops |-> <<>>, once |-> <<>>, timeout |-> FALSE,
           keyup |-> 0, focusin |-> 0, fade |-> f, hasBackdrop |-> b, keyboard |-> k, hasty |-> 0, upset |-> FALSE, lost |-> 0, calls |-> 0, shows |-> 0, hides |-> 0,
           seen |-> [e \in {"show", "shown", "hide", "hidden"} |-> 0]] : f, b, k \in BOOLEAN}
MdNext ==
  \/ \E prevent \in BOOLEAN : Show(prevent) \/ Hide(prevent)
  \/ ElementEnd \/ Timeout \/ \E b \in DOMAIN md.drops : BackdropEnd(b)
\* Timers run, and the transition of a backdrop in the document ends. That of the
\* dialog may not.
MdFair == WF_md(Timeout) /\ WF_md(\E b \in DOMAIN md.drops : BackdropEnd(b))
-----------------------------------------------------------------------------
\* Once everything has come to rest, whatever calls overtook each other, the escape key
\* is bound once to a dialog that is shown and not to one that is not, one that is not
\* has no backdrop of its own, and a call that came too soon has left two strays at
\* most.  If none came too soon, or a hide since found nothing pending, a dialog that is
\* shown is visible, with its backdrop and its focus bound once, and one that is not is
\* not visible and keeps no handler.
MdAtRest ==
  ~Pending =>
    /\ md.keyup = IF md.isShown /\ md.keyboard THEN 1 ELSE 0
    /\ ~md.isShown => md.backdrop = None
    /\ Cardinality(Backdrops(md) \ {md.backdrop}) <= 2 * md.hasty
    /\ ~md.upset =>
         /\ md.display = md.isShown /\ md.in = md.isShown
         /\ (md.backdrop \in Backdrops(md)) = (md.isShown /\ md.hasBackdrop)
         /\ md.focusin = IF md.isShown THEN 1 ELSE 0
\* Every showing and every hiding that was begun has had its shown or hidden event, when
\* nothing is pending, but for the shown events that the timer of a hide dropped; none
\* has two, and at most one is missing for each call that came too soon.
MdAnswered ==
  /\ md.seen["shown"] + md.lost <= md.shows
  /\ ~Pending => /\ md.seen["hidden"] <= md.hides
                 /\ md.shows - md.seen["shown"] - md.lost <= md.hasty /\ md.hides - md.seen["hidden"] <= md.hasty

\* A dialog that is hidden is out of the way in the end, even when the browser
\* never reports the end of its transition.
MdHides == (~md.isShown /\ ~md.upset) ~> (md.isShown \/ md.upset \/ (~md.display /\ md.backdrop = None))
-----------------------------------------------------------------------------
(* Tips.                                                                   *)
Elements == IF tt.selector THEN {1, 2} ELSE {1}
Tip == [in |-> FALSE, dom |-> FALSE, made |-> FALSE, both |-> 0, alone |-> 0, hasty |-> FALSE, over |-> FALSE]
Fades(t, e) == t.fade /\ t.el[e].made

\* show( ): nothing without content, when disabled or prevented.
show(t, e, prevent) ==
  IF prevent \/ ~t.enabled \/ ~t.content THEN t
  ELSE [t EXCEPT !.el[e].in = TRUE, !.el[e].dom = TRUE, !.el[e].made = TRUE,
                 !.el[e].hasty = (t.el[e].dom /\ ~t.el[e].in) \/ (@ /\ t.el[e].both + t.el[e].alone > 0)]
\* hide( ): with a transition the tip is taken out at its end or after half a
\* second.
hide(t, e, prevent) ==
  LET off == [t EXCEPT !.el[e].in = FALSE] IN
  IF prevent THEN t
  ELSE IF Fades(t, e) THEN [off EXCEPT !.el[e].both = @ + 1, !.el[e].hasty = @ \/ ~t.el[e].in]
  ELSE [off EXCEPT !.el[e].dom = FALSE]
toggle(t, e) == IF t.el[e].in THEN hide(t, e, FALSE) ELSE show(t, e, FALSE)

Move(t) == tt.moves < MaxMoves /\ tt' = [t EXCEPT !.moves = @ + 1]
There(e) == e \in Elements /\ tt.alive
\* enter( e ), on mouseenter and focus.
Enter(e) ==
  LET t == [tt EXCEPT !.el[e].over = TRUE] IN
  /\ There(e) /\ tt.trigger = "hover" /\ ~tt.el[e].over
  /\ IF ~t.delayShow THEN Move(show([t EXCEPT !.odd = @ \/ t.timer # None], e, FALSE))
     ELSE Move([t EXCEPT !.odd = @ \/ t.timer \notin {None, e}, !.hover[e] = "in", !.timer = e])
\* leave( e ), on mouseleave and blur.
Leave(e) ==
  LET t == [tt EXCEPT !.el[e].over = FALSE, !.odd = @ \/ tt.timer \notin {None, e}, !.timer = None] IN
  /\ There(e) /\ tt.trigger = "hover" /\ tt.el[e].over
  /\ IF ~t.delayHide THEN Move(hide(t, e, FALSE)) ELSE Move([t EXCEPT !.hover[e] = "out", !.timer = e])
\* The delay is over: what hoverState says now is done.
Delayed ==
  /\ tt.timer # None
  /\ LET e == tt.timer
         t == [tt EXCEPT !.timer = None]
     IN tt' = IF t.hover[e] = "in" THEN show(t, e, FALSE) ELSE hide(t, e, FALSE)
Click(e) == There(e) /\ tt.trigger = "click" /\ Move(toggle(tt, e))
\* Calls of the page, whose handlers may prevent them.
ShowCall(prevent) == tt.alive /\ ~tt.selector /\ tt.trigger = "click" /\ Move(show(tt, 1, prevent))
HideCall(prevent) == tt.alive /\ ~tt.selector /\ tt.trigger = "click" /\ Move(hide(tt, 1, prevent))
toggleEnabled == tt.alive /\ tt.trigger = "click" /\ Move([tt EXCEPT !.enabled = ~@])
\* destroy( ): hidden, and its handlers taken off; a timer of it goes on.
Destroy == tt.alive /\ ~tt.selector /\ Move([hide(tt, 1, FALSE) EXCEPT !.alive = FALSE, !.odd = @ \/ tt.timer # None])

\* Mutant: the timer goes on.
TransitionEndOnly(e) ==
  /\ tt.el[e].both > 0 /\ tt.el[e].dom
  /\ tt' = [tt EXCEPT !.el[e].alone = @ + tt.el[e].both, !.el[e].both = 0, !.el[e].dom = FALSE]
\* The transition of a tip in the document ends: all the handlers run.
TransitionEnd(e) ==
  /\ tt.el[e].both > 0 /\ tt.el[e].dom
  /\ tt' = [tt EXCEPT !.el[e].both = 0, !.el[e].dom = FALSE]
\* A timer of half a second runs: it drops all the handlers, not their timers.
TimerPair(e) ==
  /\ tt.el[e].both > 0
  /\ tt' = [tt EXCEPT !.el[e].alone = @ + tt.el[e].both - 1, !.el[e].both = 0, !.el[e].dom = FALSE]
TimerAlone(e) ==
  /\ tt.el[e].alone > 0
  /\ tt' = [tt EXCEPT !.el[e].alone = @ - 1, !.el[e].dom = FALSE]

TtInit ==
  tt \in {[el |-> [e \in {1, 2} |-> Tip], hover |-> [e \in {1, 2} |-> "none"], timer |-> None, enabled |-> TRUE, alive |-> TRUE, odd |-> FALSE,
           moves |-> 0, fade |-> f, delayShow |-> s, delayHide |-> h, selector |-> d, trigger |-> r, content |-> c]
          : f, s, h, d, c \in BOOLEAN, r \in {"hover", "click"}}
TtNext ==
  \/ \E e \in {1, 2} : Enter(e) \/ Leave(e) \/ Click(e) \/ TransitionEnd(e) \/ TimerPair(e) \/ TimerAlone(e)
  \/ \E p \in BOOLEAN : ShowCall(p) \/ HideCall(p)
  \/ Delayed \/ toggleEnabled \/ Destroy
\* Timers run; the end of a transition may never be reported.
TtFair == WF_tt(Delayed) /\ \A e \in {1, 2} : WF_tt(TimerPair(e)) /\ WF_tt(TimerAlone(e))
-----------------------------------------------------------------------------
\* A tip that is shown is in the document, unless it was shown while it was on its way
\* out, or hidden when it was not shown, and has not been shown with nothing waiting since.
ShownStays == \A e \in {1, 2} : tt.el[e].in /\ ~tt.el[e].hasty => tt.el[e].dom

\* When no delay is running, a tip that follows the mouse is there exactly when
\* the mouse is (with content, and but for the odd cases).
MouseDecides ==
  tt.trigger = "hover" /\ tt.timer = None /\ ~tt.odd /\ tt.alive =>
    \A e \in Elements : tt.el[e].in = (tt.el[e].over /\ tt.content)

\* A tip that is hidden leaves the document in the end, whether or not the browser
\* reports the end of its transition; and so does that of a destroyed tooltip.
TipLeaves == \A e \in {1, 2} : ~tt.el[e].in ~> (tt.el[e].in \/ ~tt.el[e].dom)
\* The tip of a destroyed tooltip leaves the document in the end.
DestroyedGone == (~tt.alive /\ ~tt.odd) ~> ~tt.el[1].dom
=============================================================================
