------------------------------- MODULE MCPage -------------------------------
(***************************************************************************)
(* What lives on a page in time, for TLC: the loader html/njs/require.js,  *)
(* requests and ready of html/njs/jquery-1.7.2.js, and the plugins of      *)
(* html/bootstrap/js/bootstrap.js.  A behaviour is one of one part, and    *)
(* the others stay in an initial state where nothing is due.               *)
(***************************************************************************)
EXTENDS Ajax, TLC

VARIABLES part,
  scn, ctx, made,
  phase, body, ie, bound, listening, timers, isReady, readyWait, held, holds, list, fired, runs,
  md, cr, tt, pn, me

-----------------------------------------------------------------------------
(* Modules.                                                                *)

\* Every dependency graph of three modules, and one page for each thing a module,
\* a script or a plugin may do.
\* A page with modules a, b, c where nothing special happens; scenarios
\* override parts of it.
Base ==
  LET N == {"a", "b", "c"} IN
  [deps    |-> [n \in N |-> <<>>],  defines |-> [n \in N |-> <<"">>],
   factory |-> [n \in N |-> "val"], inner   |-> [n \in N |-> <<>>],
   paths   |-> [n \in N |-> 1],     plugin  |-> [n \in N |-> ""],
   text    |-> [n \in N |-> ""],    shim    |-> <<>>,
   reqs    |-> << >>, fails |-> {}, lost |-> {}, loose |-> FALSE, slow |-> FALSE,
   enforceDefine |-> FALSE, pluginFails |-> FALSE, undefs |-> {}, late |-> {}]

Req(ds)  == [deps |-> ds, errback |-> FALSE]
ReqE(ds) == [deps |-> ds, errback |-> TRUE]

\* Two requires over a diamond.
Diamond == [Base EXCEPT !.deps = ("a" :> <<"c">>) @@ ("b" :> <<"c">>) @@ @,
                        !.reqs = <<Req(<<"a", "b">>), ReqE(<<"b">>)>>]
\* a and b need each other; with and without exports.
Cycle   == [Base EXCEPT !.deps = ("a" :> <<"b">>) @@ ("b" :> <<"a", "c">>) @@ @,
                        !.reqs = <<Req(<<"a">>), Req(<<"b">>)>>]
CycleExports ==
  [Base EXCEPT !.deps = ("a" :> <<"exports", "b">>) @@ ("b" :> <<"exports", "c">>) @@ ("c" :> <<"a">>) @@ @,
               !.factory = ("a" :> "undefined") @@ ("b" :> "val") @@ @,
               !.reqs = <<Req(<<"a">>), Req(<<"c">>)>>]
\* A factory that requires more, and one that throws.
Inner   == [Base EXCEPT !.deps["a"] = <<"b">>, !.inner["b"] = <<"c", "a">>, !.reqs = <<Req(<<"a">>)>>]
Throws  == [Base EXCEPT !.deps = ("a" :> <<"b">>) @@ ("b" :> <<"c">>) @@ @, !.factory["c"] = "throws",
                        !.reqs = <<ReqE(<<"a">>), Req(<<"b">>)>>]
\* A script with two named modules, one without a define call, shims.
Named   == [Base EXCEPT !.defines = ("a" :> <<"b", "a">>) @@ ("b" :> <<>>) @@ @,
                        !.deps = ("a" :> <<"b">>) @@ ("b" :> <<"c">>) @@ @,
                        !.reqs = <<Req(<<"a">>), Req(<<"c">>)>>]
Shim    == [Base EXCEPT !.defines = ("a" :> <<>>) @@ ("b" :> <<>>) @@ @, !.enforceDefine = TRUE,
                        !.shim = ("a" :> <<"b">>) @@ ("b" :> <<"c">>), !.reqs = <<Req(<<"a">>), ReqE(<<"b">>)>>]
NoDefine == [Base EXCEPT !.defines["b"] = <<>>, !.enforceDefine = TRUE, !.deps["a"] = <<"b">>,
                         !.reqs = <<ReqE(<<"a">>), Req(<<"b">>)>>]
\* Paths with a fallback: the first one fails or is late.
Fallback == [Base EXCEPT !.paths["b"] = 2, !.deps["a"] = <<"b">>, !.fails = {<<"b", 1>>},
                         !.reqs = <<Req(<<"a">>), ReqE(<<"b">>)>>]
Late    == [Base EXCEPT !.paths["b"] = 2, !.deps["a"] = <<"b">>, !.slow = TRUE,
                        !.reqs = <<Req(<<"a">>)>>]
TimeOut == [Base EXCEPT !.deps["a"] = <<"b">>, !.slow = TRUE, !.lost = {<<"b", 1>>},
                        !.reqs = <<ReqE(<<"a">>), Req(<<"c">>)>>]
Fails   == [Base EXCEPT !.deps = ("a" :> <<"b">>) @@ @, !.fails = {<<"b", 1>>},
                        !.reqs = <<ReqE(<<"a", "c">>), Req(<<"b">>)>>]
\* Resource c of plugin b.
Plugin  == [Base EXCEPT !.plugin["c"] = "b", !.deps["a"] = <<"c">>, !.reqs = <<Req(<<"a">>), ReqE(<<"c">>)>>]
PlugErr == [Plugin EXCEPT !.pluginFails = TRUE, !.reqs = <<ReqE(<<"a">>), Req(<<"b">>)>>]
Text    == [Plugin EXCEPT !.text["c"] = "a", !.deps["a"] = <<>>, !.reqs = <<Req(<<"c">>), Req(<<"b">>)>>]
\* Other scripts run between a script and its load event.
Loose   == [Base EXCEPT !.loose = TRUE, !.deps["a"] = <<"b">>,
                        !.reqs = <<Req(<<"a">>), Req(<<"c">>)>>]
Undefs  == [Base EXCEPT !.undefs = {"b"}, !.deps["a"] = <<"b">>, !.reqs = <<Req(<<"a">>), Req(<<"b">>)>>]

\* Every dependency graph of three modules, with and without exports.
Wants(n) == {<<>>} \cup {<<m>> : m \in {"a", "b", "c"} \ {n}}
            \cup {<<p[1], p[2]>> : p \in {q \in ({"a", "b", "c"} \ {n}) \X ({"a", "b", "c"} \ {n}) : q[1] # q[2]}}
DepGraphs == {d \in [{"a", "b", "c"} -> UNION {Wants(n) : n \in {"a", "b", "c"}}] :
               \A n \in {"a", "b", "c"} : d[n] \in Wants(n)}
AllGraphs == {[Base EXCEPT !.deps = d, !.reqs = <<Req(<<"a">>), ReqE(<<"b">>)>>] : d \in DepGraphs}
AllExports == {[Base EXCEPT !.deps = [n \in DOMAIN d |-> IF n = "a" THEN <<"exports">> \o d[n] ELSE d[n]],
                            !.reqs = <<ReqE(<<"a">>)>>] : d \in DepGraphs}
AllFail == {[Base EXCEPT !.deps = d, !.reqs = <<ReqE(<<"a">>)>>, !.fails = {<<"c", 1>>}] : d \in DepGraphs}

\* The shim and the path of b are configured while the page loads.
Configs == {[Shim EXCEPT !.late = {"b"}, !.enforceDefine = e, !.paths["b"] = 2,
                         !.reqs = <<Req(<<"a">>), ReqE(<<"b">>)>>] : e \in BOOLEAN}

Pages == Configs \cup AllGraphs \cup AllExports \cup AllFail
         \cup {Base, Diamond, Cycle, CycleExports, Inner, Throws, Named, Shim, NoDefine, Fallback, Late,
               TimeOut, Fails, Plugin, PlugErr, Text, Loose, Undefs}
Ld == INSTANCE Loader WITH Scenarios <- Pages, MaxDepth <- 8
LdIdle == scn = Base

-----------------------------------------------------------------------------
(* Requests, of which Ajax.tla is extended.                                *)

Opt(how, timeout, sends, vetoed, name) ==
  [kind |-> how, timeout |-> timeout, global |-> sends, vetoed |-> vetoed, name |-> name]
Sync == Opt("sync", FALSE, TRUE, FALSE, "n1")
Settled == {Opt("xhr", TRUE, TRUE, TRUE, "n1"), Opt("jsonp", TRUE, FALSE, FALSE, "n1"), Opt("jsonp", FALSE, FALSE, FALSE, "n2"),
            Sync, Opt("nowhere", FALSE, TRUE, FALSE, "n1")}
AjIdle == \A r \in Requests : opts[r] = Sync

-----------------------------------------------------------------------------
(* ready.                                                                  *)

Rd == INSTANCE Ready WITH Handlers <- {"h1", "h2"}, MaxHolds <- 3
RdIdle == phase = 2 /\ ie = FALSE

-----------------------------------------------------------------------------
(* Dialogs and tips; carousels, panels, tabs, alerts and buttons.          *)

Ov == INSTANCE Overlays WITH MaxCalls <- 5, MaxMoves <- 5
Wd == INSTANCE Widgets WITH Items <- 3, MaxCalls <- 3, MaxClicks <- 4

-----------------------------------------------------------------------------
(* Typeahead and dropdown menus.                                           *)

Inputs == {<<>>, <<"a">>, <<"A">>, <<"b">>, <<"a", "b">>}
Words == <<<<"b", "a">>, <<"A", "b">>, <<"a", "b">>, <<"b", "A">>>>
Me == INSTANCE Menus WITH Texts <- Inputs, MaxKeys <- 5

-----------------------------------------------------------------------------
(* What must hold.                                                         *)

\* Whatever the order in which scripts arrive, fail or time out, modules are made
\* once and after what they need, callers are answered, and nothing is left
\* (require.js; Loader.tla names the parts).
ModulesLoad == part = "loader" => Ld!ModulesLoad
\* In every state between two events: a ready handler ran once at most; a carousel has
\* one item and one interval; a tip is where its state and the mouse say; an accordion
\* has one open panel, an alert that goes answers every close; a menu suggests what
\* fits, is open only while it is attended, and keeps the focus within its links.
\* ShownStays, MouseDecides and OneOpen say of which calls this is not so.
PageSound ==
  /\ part = "ready" => Rd!RdTypeOK /\ Rd!RunsOnce
  /\ part = "carousel" => Wd!OneItem /\ Wd!OneInterval
  /\ part = "tooltip" => Ov!ShownStays /\ Ov!MouseDecides
  /\ part = "panels" => Wd!OneOpen /\ Wd!AlertSays
  /\ part = "menus" => Me!SuggestsAll /\ Me!SuggestsFitting /\ Me!MenuAttended /\ Me!OneMenu /\ Me!LinkInside
\* Once timers and transitions have ended: however calls overtook them, panels, tabs and
\* buttons can be used again and each start was answered, and a hidden dialog has no
\* backdrop of its own and no key.  The plugins are also as their last call says, with
\* nothing left behind (backdrops, handlers, sizes), unless that call is one that the
\* code does not stand: a dialog shown while it is being hidden or hidden before its
\* backdrop is there, a prevented slide, a slide before the event of the last one, a tab
\* clicked during a fade, a panel whose event was prevented. MdAtRest, MdAnswered,
\* CrAtRest, PanelsAtRest and TabsAtRest say what holds after each of these, and when
\* the plugin has recovered.
PluginsAtRest ==
  /\ part = "modal" => Ov!MdAtRest /\ Ov!MdAnswered
  /\ part = "carousel" => Wd!CrAtRest
  /\ part = "panels" => Wd!PanelsAtRest /\ Wd!TabsAtRest /\ Wd!ButtonAtRest
\* What was begun comes to its end: the loader rests, a request with a timeout ends and
\* its outcome stays, ready handlers run and not before it is time, a hidden dialog
\* and a hidden or destroyed tip go, a carousel goes on cycling and reaches the item
\* that was asked for, and an arrow key moves by one item.
PageMovesOn ==
  /\ Ld!ComesToRest /\ OutcomeFinal /\ TimedOutOrEnded /\ Rd!FiredWhenReady /\ Rd!AllRun
  /\ Ov!MdHides /\ Ov!TipLeaves /\ Ov!DestroyedGone /\ Wd!CyclesOn /\ Wd!ReachesItem /\ Me!ArrowOnce

-----------------------------------------------------------------------------
Parts == {"loader", "ajax", "ready", "modal", "carousel", "tooltip", "panels", "menus"}
\* The state that an untouched plugin is in.
MdIdle == ~md.fade /\ ~md.hasBackdrop /\ ~md.keyboard
CrIdle == ~cr.transition /\ ~cr.cycles /\ ~cr.hover
TtIdle == ~tt.fade /\ ~tt.delayShow /\ ~tt.delayHide /\ ~tt.selector /\ ~tt.content /\ tt.trigger = "click"
PnIdle == pn.what = "tab" /\ ~pn.fade
MeIdle == me.what = "dropdown" /\ ~me.touch

Init ==
  /\ part \in Parts
  /\ Ld!Init /\ (part # "loader" => LdIdle)
  /\ AjInit /\ (part # "ajax" => AjIdle)
  /\ Rd!RdInit /\ (part # "ready" => RdIdle)
  /\ Ov!MdInit /\ (part # "modal" => MdIdle)
  /\ Wd!CrInit /\ (part # "carousel" => CrIdle)
  /\ Ov!TtInit /\ (part # "tooltip" => TtIdle)
  /\ Wd!PnInit /\ (part # "panels" => PnIdle)
  /\ Me!MeInit /\ (part # "menus" => MeIdle)

ldVars == <<scn, ctx, made>>
rdVars == <<phase, body, ie, bound, listening, timers, isReady, readyWait, held, holds, list, fired, runs>>
vars == <<part, ldVars, avars, rdVars, md, cr, tt, pn, me>>

\* A step of one part.
Only(p) ==
  /\ part = p /\ UNCHANGED part
  /\ (p # "loader" => UNCHANGED ldVars)
  /\ (p # "ajax" => UNCHANGED avars) /\ (p # "ready" => UNCHANGED rdVars)
  /\ (p # "modal" => UNCHANGED md) /\ (p # "carousel" => UNCHANGED cr) /\ (p # "tooltip" => UNCHANGED tt)
  /\ (p # "panels" => UNCHANGED pn) /\ (p # "menus" => UNCHANGED me)
Next ==
  \/ Only("loader") /\ Ld!Next
  \/ Only("ajax") /\ AjNext
  \/ Only("ready") /\ Rd!RdNext
  \/ Only("modal") /\ Ov!MdNext
  \/ Only("carousel") /\ Wd!CrNext
  \/ Only("tooltip") /\ Ov!TtNext
  \/ Only("panels") /\ Wd!PnNext
  \/ Only("menus") /\ Me!MeNext

\* A call runs to its end, timers run out, transitions end where the code counts
\* on it, and the browser finishes loading.
Spec == Init /\ [][Next]_vars /\ Ld!LdFair /\ AjFair /\ Rd!RdFair /\ Ov!MdFair /\ Wd!CrFair /\ Ov!TtFair
=============================================================================
