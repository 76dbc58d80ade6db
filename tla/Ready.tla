------------------------------- MODULE Ready --------------------------------
(***************************************************************************)
(* When the document is ready, as jQuery finds it out                      *)
(* (html/njs/jquery-1.7.2.js): jQuery.ready may be called by the           *)
(* DOMContentLoaded event, the load event, a timer, the doScroll poll of   *)
(* old browsers and the release of a hold, in any order, and the handlers  *)
(* of the page must run once.                                              *)
(***************************************************************************)
EXTENDS Naturals, FiniteSets, TLAPS

CONSTANTS Handlers,   \* functions given to $( document ).ready
          MaxHolds    \* bound on the calls of holdReady( true )

VARIABLES phase,      \* the document: 0 loading, 1 parsed, 2 complete
          body,       \* document.body is there
          ie,         \* the browser has attachEvent and doScroll
          bound,      \* bindReady was called, readyList exists
          listening,  \* events that still lead to jQuery.ready
          timers,     \* pending setTimeout: "ready" and "scroll"
          isReady, readyWait,
          held,       \* holds the page has not released
          holds,
          list,       \* functions in readyList
          fired,      \* readyList was fired
          runs        \* how often each function ran
rvars == <<phase, body, ie, bound, listening, timers, isReady, readyWait, held, holds, list, fired, runs>>
doc == <<phase, body, ie, held, holds>>

RunAll(s) == runs' = [h \in Handlers |-> IF h \in s THEN runs[h] + 1 ELSE runs[h]]

\* jQuery.ready: wait is the argument true, which only the release of a hold
\* passes. Without a body it tries again, as a call without that argument;
\* pending are the timers that are left.
Wanted(wait) == (wait /\ readyWait = 1) \/ (~wait /\ ~isReady)
Fires(wait) == body /\ Wanted(wait) /\ (wait \/ readyWait <= 1)
Retry(wait, pending) == IF Wanted(wait) /\ ~body THEN pending \cup {"ready"} ELSE pending
\* readyList.fireWith: the list is "once memory".
fireWith == fired' = TRUE /\ RunAll(IF fired THEN {} ELSE list)
ready(wait, pending) ==
  /\ readyWait' = IF wait \/ (body /\ Wanted(wait)) THEN readyWait - 1 ELSE readyWait
  /\ isReady' = (isReady \/ (body /\ Wanted(wait)))
  /\ timers' = Retry(wait, pending)
  /\ IF Fires(wait) THEN fireWith ELSE UNCHANGED <<fired, runs>>

\* $( document ).ready( h ): bindReady, and readyList.add, which runs h at once
\* when the list was fired ("once memory").
Ready(h) ==
  /\ h \notin list
  /\ list' = list \cup {h} /\ bound' = TRUE
  /\ IF bound \/ phase = 2 THEN UNCHANGED listening
     ELSE listening' = {"DOMContentLoaded", "load"}
  /\ IF bound THEN UNCHANGED timers
     ELSE timers' = IF phase = 2 THEN {"ready"} ELSE IF ie THEN {"scroll"} ELSE {}
  /\ RunAll(IF fired THEN {h} ELSE {})
  /\ UNCHANGED <<doc, isReady, readyWait, fired>>

\* The document goes on loading; its events call jQuery.ready.
Parse ==
  /\ phase = 0 /\ phase' = 1 /\ body' \in {b \in BOOLEAN : body => b}
  /\ UNCHANGED <<ie, bound, listening, timers, isReady, readyWait, held, holds, list, fired, runs>>
Body == ~body /\ phase = 1 /\ body' = TRUE /\ UNCHANGED <<phase, ie, bound, listening, timers, isReady, readyWait, held, holds, list, fired, runs>>
Complete == phase = 1 /\ body /\ phase' = 2 /\ UNCHANGED <<body, ie, bound, listening, timers, isReady, readyWait, held, holds, list, fired, runs>>
\* DOMContentLoaded removes itself; as onreadystatechange it waits for complete.
DOMContentLoaded ==
  /\ "DOMContentLoaded" \in listening /\ phase >= (IF ie THEN 2 ELSE 1)
  /\ listening' = listening \ {"DOMContentLoaded"}
  /\ ready(FALSE, timers) /\ UNCHANGED <<doc, bound, list>>
Load ==
  /\ "load" \in listening /\ phase = 2
  /\ listening' = listening \ {"load"}
  /\ ready(FALSE, timers) /\ UNCHANGED <<doc, bound, list>>

\* A timer: jQuery.ready, or doScrollCheck, which throws until the document is
\* parsed and then tries again.
ReadyTimer ==
  /\ "ready" \in timers /\ ready(FALSE, timers \ {"ready"}) /\ UNCHANGED <<doc, bound, listening, list>>
doScrollCheck ==
  /\ "scroll" \in timers
  /\ IF isReady THEN timers' = timers \ {"scroll"} /\ UNCHANGED <<isReady, readyWait, fired, runs>>
     ELSE IF phase = 0 THEN UNCHANGED <<timers, isReady, readyWait, fired, runs>>
     ELSE ready(FALSE, timers \ {"scroll"})
  /\ UNCHANGED <<doc, bound, listening, list>>

\* holdReady( true ) and holdReady( false ), each hold released once.
Hold ==
  /\ holds < MaxHolds /\ held' = held + 1 /\ holds' = holds + 1 /\ readyWait' = readyWait + 1
  /\ UNCHANGED <<phase, body, ie, bound, listening, timers, isReady, list, fired, runs>>
Release ==
  /\ held > 0 /\ held' = held - 1
  /\ ready(TRUE, timers) /\ UNCHANGED <<phase, body, ie, holds, bound, listening, list>>

RdInit ==
  /\ phase \in 0 .. 2 /\ body \in BOOLEAN /\ (phase = 2 => body) /\ ie \in BOOLEAN
  /\ bound = FALSE /\ listening = {} /\ timers = {} /\ isReady = FALSE /\ readyWait = 1
  /\ held = 0 /\ holds = 0 /\ list = {} /\ fired = FALSE /\ runs = [h \in Handlers |-> 0]
RdNext ==
  \/ \E h \in Handlers : Ready(h)
  \/ Parse \/ Body \/ Complete \/ DOMContentLoaded \/ Load \/ ReadyTimer \/ doScrollCheck \/ Hold \/ Release
\* The browser finishes loading, delivers its events and its timers, and the page
\* releases what it holds.
RdFair ==
  WF_rvars(Parse) /\ WF_rvars(Body) /\ WF_rvars(Complete) /\ WF_rvars(DOMContentLoaded) /\ WF_rvars(Load)
  /\ WF_rvars(ReadyTimer) /\ WF_rvars(doScrollCheck) /\ WF_rvars(Release)
-----------------------------------------------------------------------------
\* Types: readyWait does not fall below zero, and what has fired is ready.
RdTypeOK ==
  /\ readyWait \in Nat /\ listening \subseteq {"DOMContentLoaded", "load"} /\ timers \subseteq {"ready", "scroll"}
  /\ list \subseteq Handlers /\ (fired => isReady)

\* Nobody is called twice, whichever of the five ways reported the document first
\* and however many holds were released since.
RunsOnce == \A h \in Handlers : runs[h] <= 1

\* The handlers are first run when the document can be used and no hold taken
\* before is left.
FiredWhenReady == [][~fired /\ fired' => body /\ phase > 0 /\ held' = 0]_rvars

\* Every handler is run in the end.
AllRun == \A h \in Handlers : h \in list ~> runs[h] = 1
-----------------------------------------------------------------------------
(* Proofs.  Liveness (AllRun) is left to TLC.                              *)

\* Ready without what the browser is expected to do in the end.
RdSpec == RdInit /\ [][RdNext]_rvars

\* The inductive invariant. readyWait counts the holds and, until jQuery is ready,
\* one more: a release that finds it at 1 is therefore one that comes after
\* jQuery was ready. Nothing makes jQuery ready before the document is parsed,
\* a timer of an earlier call least of all. A handler ran once if it was in the list
\* when that was fired or came later, and never otherwise.
Types ==
  /\ phase \in 0 .. 2 /\ body \in BOOLEAN /\ bound \in BOOLEAN /\ isReady \in BOOLEAN /\ fired \in BOOLEAN
  /\ held \in Nat /\ readyWait \in Nat
  /\ listening \subseteq {"DOMContentLoaded", "load"} /\ timers \subseteq {"ready", "scroll"}
  /\ list \subseteq Handlers /\ runs \in [Handlers -> Nat]
Waits == readyWait = held + (IF isReady THEN 0 ELSE 1)
InTime == (isReady => body /\ phase > 0) /\ ("ready" \in timers => phase > 0)
Once == (fired => isReady) /\ \A h \in Handlers : runs[h] = IF fired /\ h \in list THEN 1 ELSE 0
RdInv == Types /\ Waits /\ InTime /\ Once

\* Whether a call fires the list or not.
LEMMA FireTypes ==
  ASSUME RdInv, NEW wait, NEW pending, ready(wait, pending)
  PROVE  runs' \in [Handlers -> Nat] /\ fired' \in BOOLEAN
<1>1. CASE Fires(wait)
  <2>1. PICK s : runs' = [h \in Handlers |-> IF h \in s THEN runs[h] + 1 ELSE runs[h]]
    BY <1>1 DEF ready, fireWith, RunAll
  <2>2. fired' = TRUE
    BY <1>1 DEF ready, fireWith
  <2> QED BY <2>1, <2>2 DEF RdInv, Types
<1>2. CASE ~Fires(wait)
  BY <1>2 DEF ready, RdInv, Types
<1> QED BY <1>1, <1>2

\* What a call of jQuery.ready does to the invariant, if the document is parsed or the
\* call is the release of a hold. (pending are timers that were there.)
LEMMA ReadyCall ==
  ASSUME RdInv, NEW wait \in BOOLEAN, NEW pending \in SUBSET timers, ready(wait, pending),
         wait => held > 0 /\ held' = held - 1, ~wait => phase > 0 /\ held' = held,
         UNCHANGED <<phase, body, bound, list>>,
         listening' \subseteq listening
  PROVE  RdInv' /\ (~fired /\ fired' => body /\ phase > 0 /\ held' = 0)
<1>1. CASE wait
  <2>1. readyWait' = readyWait - 1 /\ readyWait >= 1 /\ (readyWait = 1 => isReady /\ held = 1)
    BY <1>1 DEF ready, RdInv, Types, Waits
  <2>2. isReady' = isReady /\ timers' = pending
    BY <1>1, <2>1 DEF ready, Wanted, Retry, RdInv, Types, InTime
  <2>3. Fires(wait) => body /\ isReady /\ held' = 0 /\ phase > 0
    BY <1>1, <2>1 DEF Fires, Wanted, RdInv, InTime, Types
  <2>4. Types' /\ Waits' /\ InTime'
    <3>1. runs' \in [Handlers -> Nat] /\ fired' \in BOOLEAN
      BY FireTypes
    <3>2. readyWait' \in Nat /\ held' \in Nat
      BY <1>1, <2>1 DEF RdInv, Types
    <3> QED BY <1>1, <2>1, <2>2, <3>1, <3>2 DEF RdInv, Types, Waits, InTime
  <2>5. Once'
    BY <2>2, <2>3 DEF ready, fireWith, RunAll, RdInv, Types, Once
  <2> QED BY <2>3, <2>4, <2>5 DEF RdInv, ready
<1>2. CASE ~wait
  <2>1. Wanted(wait) <=> ~isReady
    BY <1>2 DEF Wanted
  <2>2. Fires(wait) => body /\ ~isReady /\ held = 0
    BY <1>2, <2>1 DEF Fires, RdInv, Waits, Types
  <2>3. isReady' = (isReady \/ body) /\ (isReady' => body) /\ isReady' \in BOOLEAN
    BY <2>1, <1>2 DEF ready, RdInv, InTime, Types
  <2>4. readyWait' = IF body /\ ~isReady THEN readyWait - 1 ELSE readyWait
    BY <2>1, <1>2 DEF ready
  <2>5. Types' /\ Waits' /\ InTime'
    <3>1. runs' \in [Handlers -> Nat] /\ fired' \in BOOLEAN
      BY FireTypes
    <3>2. readyWait' \in Nat /\ held' \in Nat /\ Waits'
      BY <1>2, <2>3, <2>4 DEF RdInv, Types, Waits
    <3>3. timers' \subseteq {"ready", "scroll"}
      BY DEF ready, Retry, RdInv, Types
    <3> QED BY <1>2, <2>3, <3>1, <3>2, <3>3 DEF RdInv, Types, InTime
  <2>6. Once'
    <3>1. CASE Fires(wait)
      <4>1. ~fired
        BY <2>2, <3>1 DEF RdInv, Once
      <4>2. fired' /\ isReady' /\ runs' = [h \in Handlers |-> IF h \in list THEN runs[h] + 1 ELSE runs[h]]
        BY <2>2, <2>3, <3>1, <4>1 DEF ready, fireWith, RunAll
      <4> QED BY <4>1, <4>2 DEF RdInv, Types, Once
    <3>2. CASE ~Fires(wait)
      BY <2>3, <3>2 DEF ready, RdInv, Types, Once
    <3> QED BY <3>1, <3>2
  <2> QED BY <1>2, <2>2, <2>5, <2>6 DEF RdInv, ready
<1> QED BY <1>1, <1>2

LEMMA RdInitial == RdInit => RdInv
<1> SUFFICES ASSUME RdInit PROVE RdInv
  OBVIOUS
<1>1. Types
  <2>1. runs \in [Handlers -> Nat]
    BY DEF RdInit
  <2> QED BY <2>1 DEF RdInit, Types
<1>2. Waits /\ InTime
  BY DEF RdInit, Waits, InTime
<1>3. Once
  BY DEF RdInit, Once
<1> QED BY <1>1, <1>2, <1>3 DEF RdInv

\* A step keeps the invariant, and fires the list only when it is time.
LEMMA RdStep ==
  RdInv /\ [RdNext]_rvars => RdInv' /\ (~fired /\ fired' => body /\ phase > 0 /\ held' = 0)
<1> SUFFICES ASSUME RdInv, [RdNext]_rvars
             PROVE  RdInv' /\ (~fired /\ fired' => body /\ phase > 0 /\ held' = 0)
  OBVIOUS
<1>1. ASSUME NEW h \in Handlers, Ready(h) PROVE RdInv' /\ fired' = fired
  <2>1. runs' = [g \in Handlers |-> IF fired /\ g = h THEN runs[g] + 1 ELSE runs[g]]
    BY <1>1 DEF Ready, RunAll
  <2>2. Types'
    <3>1. runs' \in [Handlers -> Nat]
      BY <2>1 DEF RdInv, Types
    <3>2. listening' \subseteq {"DOMContentLoaded", "load"} /\ timers' \subseteq {"ready", "scroll"}
      BY <1>1 DEF Ready, RdInv, Types
    <3> QED BY <1>1, <3>1, <3>2 DEF Ready, doc, RdInv, Types
  <2>3. Waits'
    BY <1>1 DEF Ready, doc, RdInv, Waits
  <2>4. InTime'
    <3>1. "ready" \in timers' => phase > 0
      BY <1>1 DEF Ready, doc, RdInv, InTime, Types
    <3> QED BY <1>1, <3>1 DEF Ready, doc, RdInv, InTime
  <2>5. Once'
    BY <1>1, <2>1 DEF Ready, doc, RdInv, Types, Once
  <2> QED BY <1>1, <2>2, <2>3, <2>4, <2>5 DEF Ready, RdInv
<1>2. ASSUME Parse \/ Body \/ Complete PROVE RdInv' /\ fired' = fired
  <2>1. phase' > 0 /\ phase' \in 0 .. 2
    BY <1>2 DEF Parse, Body, Complete, RdInv, Types
  <2>2. body' \in BOOLEAN /\ (body => body')
    <3>1. CASE Parse
      <4>1. body' \in {b \in BOOLEAN : body => b}
        BY <3>1 DEF Parse
      <4> QED BY <4>1, Zenon
    <3>2. CASE Body \/ Complete
      BY <3>2 DEF Body, Complete, RdInv, Types
    <3> QED BY <1>2, <3>1, <3>2, Zenon
  <2>3. UNCHANGED <<bound, listening, timers, isReady, readyWait, held, list, fired, runs>>
    BY <1>2 DEF Parse, Body, Complete
  <2>4. Types' /\ Waits' /\ Once'
    BY <2>1, <2>2, <2>3 DEF RdInv, Types, Waits, Once
  <2>5. InTime'
    BY <2>1, <2>2, <2>3 DEF RdInv, InTime
  <2> QED BY <2>3, <2>4, <2>5 DEF RdInv
<1>3. CASE DOMContentLoaded \/ Load
  <2>1. ready(FALSE, timers) /\ timers \in SUBSET timers
    BY <1>3 DEF DOMContentLoaded, Load
  <2>2. UNCHANGED <<phase, body, bound, list>> /\ held' = held /\ listening' \subseteq listening
    BY <1>3 DEF DOMContentLoaded, Load, doc
  <2>3. phase > 0
    <3>1. CASE DOMContentLoaded
      <4>1. phase >= (IF ie THEN 2 ELSE 1)
        BY <3>1 DEF DOMContentLoaded
      <4> QED BY <4>1 DEF RdInv, Types
    <3>2. CASE Load
      BY <3>2 DEF Load
    <3> QED BY <1>3, <3>1, <3>2
  <2> QED BY <2>1, <2>2, <2>3, ReadyCall
<1>5. CASE ReadyTimer
  <2>1. phase > 0 /\ timers \ {"ready"} \in SUBSET timers
    BY <1>5 DEF ReadyTimer, RdInv, InTime
  <2>2. UNCHANGED <<phase, body, bound, list>> /\ held' = held /\ listening' \subseteq listening
    BY <1>5 DEF ReadyTimer, doc
  <2>3. ready(FALSE, timers \ {"ready"})
    BY <1>5 DEF ReadyTimer
  <2> QED BY <2>1, <2>2, <2>3, ReadyCall
<1>6. CASE doScrollCheck
  <2>1. CASE isReady \/ phase = 0
    BY <1>6, <2>1 DEF doScrollCheck, doc, RdInv, Types, Waits, InTime, Once
  <2>2. CASE ~isReady /\ phase # 0
    <3>1. ready(FALSE, timers \ {"scroll"}) /\ timers \ {"scroll"} \in SUBSET timers
      BY <1>6, <2>2 DEF doScrollCheck
    <3>2. UNCHANGED <<phase, body, bound, list>> /\ held' = held /\ listening' \subseteq listening
      BY <1>6 DEF doScrollCheck, doc
    <3>3. phase > 0
      BY <2>2 DEF RdInv, Types
    <3> QED BY <3>1, <3>2, <3>3, ReadyCall
  <2> QED BY <2>1, <2>2
<1>7. CASE Hold
  BY <1>7 DEF Hold, RdInv, Types, Waits, InTime, Once
<1>8. CASE Release
  <2>1. ready(TRUE, timers) /\ timers \in SUBSET timers
    BY <1>8 DEF Release
  <2>2. UNCHANGED <<phase, body, bound, list>> /\ held > 0 /\ held' = held - 1 /\ listening' \subseteq listening
    BY <1>8 DEF Release
  <2> QED BY <2>1, <2>2, ReadyCall
<1>9. CASE UNCHANGED rvars
  BY <1>9 DEF rvars, RdInv, Types, Waits, InTime, Once
<1> QED BY <1>1, <1>2, <1>3, <1>5, <1>6, <1>7, <1>8, <1>9 DEF RdNext

\* Nobody is called twice (readyList, jQuery.ready).
THEOREM HandlersRunOnce == RdSpec => [](RdTypeOK /\ RunsOnce)
<1>1. RdInv => RdTypeOK /\ RunsOnce
  BY DEF RdInv, Types, Once, RdTypeOK, RunsOnce
<1> QED BY RdInitial, RdStep, <1>1, PTL DEF RdSpec

\* The list is first fired when the document can be used and nothing is held.
THEOREM FiredInTime == RdSpec => FiredWhenReady
<1>1. RdInv /\ [RdNext]_rvars => [~fired /\ fired' => body /\ phase > 0 /\ held' = 0]_rvars
  BY RdStep
<1> QED BY RdInitial, RdStep, <1>1, PTL DEF RdSpec, FiredWhenReady
=============================================================================
