------------------------------- MODULE Layout -------------------------------
(***************************************************************************)
(* Where elements are and how large they are, as jQuery measures and sets  *)
(* it (html/njs/jquery-1.7.2.js), in one direction: top and height.        *)
(*                                                                         *)
(* chain is a branch of the document, outermost element first. What the    *)
(* browser lays out is the first part; the code reads only what a browser  *)
(* offers: the rectangle, offsetTop, offsetParent and the computed style.  *)
(***************************************************************************)
EXTENDS Integers, Sequences, FiniteSets, SequencesExt, FiniteSetsExt

VARIABLES chain,    \* boxes: position, top, margin, border, padding, scroll, before, content, shown
          window    \* how far the window is scrolled

Auto == 99
Parent(c, i) == i - 1
Positioned(c, i) == c[i].position # "static"
-----------------------------------------------------------------------------
(* The browser: the page coordinate of the border edge of box i.           *)

Containing(c, i) == Max({j \in 1 .. i - 1 : Positioned(c, j)} \cup {0})
EdgeOf(page, c, j) == IF j = 0 THEN 0 ELSE page[j] + c[j].border
Inside(page, c, j) == EdgeOf(page, c, j) - (IF j = 0 THEN 0 ELSE c[j].scroll)
Flow(page, c, i) == Inside(page, c, i - 1) + (IF i = 1 THEN 0 ELSE c[i - 1].padding) + c[i].before + c[i].margin
Pages(c) ==
  LET page[i \in DOMAIN c] ==
        CASE c[i].position = "static" \/ c[i].top = Auto -> Flow(page, c, i)
          [] c[i].position = "relative" -> Flow(page, c, i) + c[i].top
          [] c[i].position = "absolute" -> Inside(page, c, Containing(c, i)) + c[i].top + c[i].margin
          [] c[i].position = "fixed" -> window + c[i].top + c[i].margin
  IN page
Rect(c, i) == Pages(c)[i] - window
offsetHeight(b) == IF b.shown THEN b.content + 2 * b.padding + 2 * b.border ELSE 0
\* elem.offsetParent: 0 is the body; there is none for a fixed element.
offsetParentOf(c, i) == IF c[i].position = "fixed" THEN 0 ELSE Containing(c, i)
\* offsetTop is taken as if nothing was scrolled.
offsetTop(c, i) ==
  LET still == [j \in DOMAIN c |-> [c[j] EXCEPT !.scroll = 0]]
  IN Pages(still)[i] - (IF c[i].position = "fixed" THEN window ELSE EdgeOf(Pages(still), still, offsetParentOf(c, i)))
ComputedTop(c, i) == c[i].top
-----------------------------------------------------------------------------
(* Positions.                                                              *)

\* getOffset by getBoundingClientRect.
getOffset(c, i) == Rect(c, i) + window

\* Mutant: only offset parents count, not what scrolls between them.
getOffsetUnscrolled(c, i) ==
  LET RECURSIVE Up(_)
      Up(j) == IF j = 0 THEN 0 ELSE offsetTop(c, j) + (IF j = i THEN 0 ELSE c[j].border) + Up(offsetParentOf(c, j))
  IN Up(i)
\* getOffset without it: the offsets of the offset parents are added up, less
\* what is scrolled; the borders, where the browser leaves them out.
getOffsetOld(c, i) ==
  LET stop == IF \E j \in 1 .. i : c[j].position = "fixed" THEN Max({j \in 1 .. i : c[j].position = "fixed"}) ELSE 0
      RECURSIVE Up(_, _, _)
      Up(j, next, t) ==   \* j has been dealt with
        IF j = 1 \/ j = stop THEN t + (IF j = stop THEN window ELSE 0)
        ELSE LET e == j - 1
                 here == IF e = next THEN offsetTop(c, e) + c[e].border ELSE 0
             IN Up(e, IF e = next THEN offsetParentOf(c, e) ELSE next, t - c[e].scroll + here)
  IN Up(i, offsetParentOf(c, i), offsetTop(c, i))

\* .offsetParent() and .position().
offsetParent(c, i) == Containing([c EXCEPT ![i].position = "static"], i)
position(c, i) ==
  LET p == IF c[i].position = "fixed" THEN 0 ELSE offsetParent(c, i) IN
  (getOffset(c, i) - c[i].margin) - (IF p = 0 THEN 0 ELSE getOffset(c, p) + c[p].border)

\* jQuery.offset.setOffset.
setOffset(c, i, t) ==
  LET d == [c EXCEPT ![i].position = IF @ = "static" THEN "relative" ELSE @]
      calculatePosition == c[i].position \in {"absolute", "fixed"} /\ ComputedTop(d, i) = Auto
      cur == IF calculatePosition THEN position(d, i) ELSE IF ComputedTop(d, i) = Auto THEN 0 ELSE ComputedTop(d, i)
  IN [d EXCEPT ![i].top = (t - getOffset(d, i)) + cur]
-----------------------------------------------------------------------------
(* Sizes. extra is "", "padding", "border" or "margin".                     *)

\* getWidthOrHeight from offsetHeight, when it is positive,
FromOffset(b, extra) ==
  LET sides(v) == 2 * v IN
  IF extra = "border" THEN offsetHeight(b)
  ELSE offsetHeight(b) - (IF extra = "" THEN sides(b.padding) ELSE 0)
       + (IF extra = "margin" THEN sides(b.margin) ELSE - sides(b.border))
\* and from the computed style.
FromStyle(b, extra) ==
  b.content + (IF extra = "" THEN 0
               ELSE 2 * b.padding + (IF extra # "padding" THEN 2 * b.border ELSE 0) + (IF extra = "margin" THEN 2 * b.margin ELSE 0))
getWidthOrHeight(b, extra) == IF offsetHeight(b) > 0 THEN FromOffset(b, extra) ELSE FromStyle(b, extra)

\* jQuery.swap( elem, cssShow, ... ): the box while the callback runs and after.
swap(b) == <<[b EXCEPT !.shown = TRUE], b>>
\* The height hook: an element that is hidden is shown while it is measured.
heightGet(b, extra) ==
  IF offsetHeight(b) # 0 THEN <<getWidthOrHeight(b, extra), b>>
  ELSE <<getWidthOrHeight(swap(b)[1], extra), swap(b)[2]>>
innerHeight(b) == heightGet(b, "padding")[1]
outerHeight(b, margin) == heightGet(b, IF margin THEN "margin" ELSE "border")[1]
height(b) == heightGet(b, "")[1]
-----------------------------------------------------------------------------
\* An element that is set to a place on the page is found there, wherever its
\* ancestors are placed and scrolled to. (A scrolled offset parent moves an
\* absolute element that had no top; the window a fixed one: those two are left out.)
OffsetReadBack ==
  \A i \in DOMAIN chain : \A t \in {0, 7} :
    ~(chain[i].top = Auto /\ \/ chain[i].position = "fixed" /\ (window # 0 \/ Containing(chain, i) # 0)
                             \/ chain[i].position = "absolute" /\ Containing(chain, i) # 0 /\ chain[Containing(chain, i)].scroll # 0)
    => getOffset(setOffset(chain, i, t), i) = t

Unscrolled(c, i) ==
  CASE c[i].position = "fixed" -> c[i].top # Auto
    [] c[i].position = "absolute" -> c[i].top = Auto \/ \A j \in Containing(c, i) + 1 .. i - 1 : c[j].scroll = 0
    [] OTHER -> TRUE
\* The way for browsers without getBoundingClientRect finds the same place, unless
\* something scrolls between an absolute element and its offset parent: that does
\* not move the element, and this code counts it.
OldOffsetAgrees ==
  \A i \in DOMAIN chain :
    (\A j \in 1 .. i : Unscrolled(chain, j)) => getOffsetOld(chain, i) = getOffset(chain, i)

\* The distance from the offset parent is the top that keeps an absolute element
\* where it is.
PositionIsTop ==
  \A i \in DOMAIN chain :
    chain[i].position = "absolute" /\ (Containing(chain, i) = 0 \/ chain[Containing(chain, i)].scroll = 0) =>
      Pages([chain EXCEPT ![i].top = position(chain, i)])[i] = Pages(chain)[i]

\* A size does not depend on whether the element is shown when it is measured;
\* content, padding, border and margin add up; and measuring changes nothing.
SizesAgree ==
  \A i \in DOMAIN chain : LET b == chain[i] IN
    /\ \A extra \in {"", "padding", "border", "margin"} :
         /\ heightGet(b, extra)[1] = FromStyle(b, extra)
         /\ heightGet(b, extra)[2] = b
    /\ height(b) = b.content /\ innerHeight(b) = height(b) + 2 * b.padding
    /\ outerHeight(b, FALSE) = innerHeight(b) + 2 * b.border /\ outerHeight(b, TRUE) = outerHeight(b, FALSE) + 2 * b.margin

\* Together: the ways to read, set and compute a place or a size agree.
PlacesAgree == OffsetReadBack /\ OldOffsetAgrees /\ PositionIsTop /\ SizesAgree
=============================================================================
