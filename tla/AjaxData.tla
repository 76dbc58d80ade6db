------------------------------ MODULE AjaxData ------------------------------
(***************************************************************************)
(* The data of jQuery.ajax (html/njs/jquery-1.7.2.js): prefilters, the     *)
(* conversion of an answer to the type that was asked for, and the query   *)
(* string of an object.  in is the input of one call.                      *)
(***************************************************************************)
EXTENDS Naturals, Sequences, FiniteSets, SequencesExt

CONSTANTS
          Converters,      \* the keys of s.converters, as <<from, to>>, in their order
          Same             \* the keys whose converter is true: nothing to do

VARIABLE in

Star == "*"
-----------------------------------------------------------------------------
(* Prefilters: filters maps a type to what its prefilters answer, "" or    *)
(* another type to go on with.                                             *)

\* inspectPrefiltersOrTransports with executeOnly: the types inspected, the
\* data types, and the prefilters that were run, as <<type, index>>.
RECURSIVE inspectPrefilters(_, _, _), runFilters(_, _, _, _)
inspectPrefilters(filters, dataType, st) ==
  LET seen == [st EXCEPT !.inspected = @ \cup {dataType}]
      ran == runFilters(filters, dataType, 1, seen)
  IN IF Star \in ran.inspected THEN ran ELSE inspectPrefilters(filters, Star, ran)
runFilters(filters, dataType, i, st) ==
  IF i > Len(filters[dataType]) THEN st
  ELSE LET selection == filters[dataType][i]
           run == [st EXCEPT !.ran = Append(@, <<dataType, i>>)]
           next == IF selection = "" \/ selection \in st.inspected THEN run
                   ELSE inspectPrefilters(filters, selection, [run EXCEPT !.dataTypes = <<selection>> \o @])
       IN runFilters(filters, dataType, i + 1, next)

Prefiltered == inspectPrefilters(in.filters, in.dataType,
                 [inspected |-> {}, dataTypes |-> <<in.dataType>>, ran |-> <<>>])

\* No prefilter is run twice, those of the type asked for and of "*" are all
\* run, and so are those of every type that was put in front.
PrefiltersOnce ==
  in.what = "prefilter" =>
    LET p == Prefiltered IN
    /\ IsInjective(p.ran)
    /\ \A t \in {in.dataType, Star} \cup Range(p.dataTypes) :
         \A i \in DOMAIN in.filters[t] : \E j \in DOMAIN p.ran : p.ran[j] = <<t, i>>
-----------------------------------------------------------------------------
(* The answer: in.dataTypes is what is asked for, in.responses the types   *)
(* that came, in.ct the type the server declares (or "").                  *)

RECURSIVE Shift(_)
Shift(d) == IF d # <<>> /\ d[1] = Star THEN Shift(Tail(d)) ELSE d

HasConverter(from, to) == \E i \in DOMAIN Converters : Converters[i] = <<from, to>>

\* ajaxHandleResponses: the data types with that of the response in front.
ajaxHandleResponses(dataTypes, responses, ct) ==
  LET rest == Shift(dataTypes)
      d == IF Len(rest) < Len(dataTypes) /\ ct # "" THEN <<ct>> \o rest ELSE rest
      fits == SelectSeq(responses, LAMBDA t : d = <<>> \/ HasConverter(t, d[1]))
      final == IF d # <<>> /\ d[1] \in Range(responses) THEN d[1]
               ELSE IF fits # <<>> THEN fits[1] ELSE IF responses # <<>> THEN responses[1] ELSE ""
  IN IF final = "" \/ (d # <<>> /\ final = d[1]) THEN d ELSE <<final>> \o d

\* A converter turns a value of one type into one of another; true leaves it.
Applied(v, key) == IF key \in Same THEN v ELSE [made |-> Append(v.made, key)]
Error == [made |-> <<<<"error", "error">>>>]

\* Mutant: the converter found first is the only one applied.
StepHalf(v, prev, current) ==
  LET direct == IF HasConverter(prev, current) THEN <<prev, current>> ELSE <<Star, current>>
      via == SelectSeq(Converters, LAMBDA k : k[1] \in {prev, Star} /\ HasConverter(k[2], current))
  IN IF current = Star \/ prev = Star \/ prev = current THEN v
     ELSE IF HasConverter(direct[1], current) THEN Applied(v, direct)
     ELSE IF via = <<>> THEN Error
     ELSE Applied(v, via[1])
\* ajaxConvert, from one type to the next: directly, or over a third.
Step(v, prev, current) ==
  LET direct == IF HasConverter(prev, current) THEN <<prev, current>> ELSE <<Star, current>>
      via == SelectSeq(Converters, LAMBDA k : k[1] \in {prev, Star} /\ HasConverter(k[2], current))
  IN IF current = Star \/ prev = Star \/ prev = current THEN v
     ELSE IF HasConverter(direct[1], current) THEN Applied(v, direct)
     ELSE IF via = <<>> THEN Error
     ELSE Applied(Applied(v, via[1]), <<via[1][2], current>>)

RECURSIVE ajaxConvert(_, _, _, _)
ajaxConvert(d, i, prev, v) ==
  IF i > Len(d) \/ v = Error THEN v
  ELSE ajaxConvert(d, i + 1, IF d[i] = Star THEN prev ELSE d[i], Step(v, prev, d[i]))

Wanted(d) == SelectSeq(d, LAMBDA t : t # Star)
\* The converters applied lead from one type to another, those that do
\* nothing in between left out.
Leads(from, made, to) ==
  LET Free(a, b) == a = b \/ <<a, b>> \in Same \/ <<Star, b>> \in Same
      n == Len(made)
  IN IF n = 0 THEN Free(from, to)
     ELSE /\ (made[1][1] = Star \/ Free(from, made[1][1])) /\ Free(made[n][2], to)
          /\ \A i \in 1 .. n - 1 : made[i + 1][1] = Star \/ Free(made[i][2], made[i + 1][1])

\* A response is converted to the type that was asked for, by converters each
\* of which takes what the last one made, or the request fails: data are never
\* handed over unconverted.
ConvertedToWanted ==
  in.what = "response" =>
    LET d == ajaxHandleResponses(in.dataTypes, in.responses, in.ct)
        v == IF d = <<>> THEN Error ELSE ajaxConvert(d, 2, d[1], [made |-> <<>>])
        asked == Wanted(in.dataTypes)
    IN in.responses # <<>> =>
         /\ d # <<>> /\ (d[1] \in Range(in.responses))
         /\ v # Error => Leads(d[1], v.made, IF asked # <<>> THEN asked[Len(asked)] ELSE d[Len(d)])
-----------------------------------------------------------------------------
(* jQuery.param.  A value is [t |-> "leaf", v], [t |-> "array", k] or      *)
(* [t |-> "object", k, n] with names n; a pair is a path and a leaf, where *)
(* Plain is the empty subscript.                                           *)

Plain == "[]"
Subscript(i) == <<"0", "1", "2", "3">>[i]

RECURSIVE buildParams(_, _)
buildParams(prefix, obj) ==
  CASE obj.t = "leaf" -> <<[path |-> prefix, v |-> obj.v]>>
    [] obj.t = "array" ->
         FlattenSeq([i \in DOMAIN obj.k |->
           IF prefix[Len(prefix)] = Plain THEN <<[path |-> prefix, v |-> obj.k[i].v]>>
           ELSE buildParams(Append(prefix, IF obj.k[i].t = "leaf" THEN Plain ELSE Subscript(i)), obj.k[i])])
    [] obj.t = "object" -> FlattenSeq([i \in DOMAIN obj.k |-> buildParams(Append(prefix, obj.n[i]), obj.k[i])])

\* What a server that knows the brackets reads from the pairs: those with the
\* same head after depth subscripts belong together.
RECURSIVE Read(_, _)
Read(pairs, depth) ==
  LET heads == [i \in DOMAIN pairs |-> pairs[i].path[depth]]
      Keep(h) == SelectSeq(pairs, LAMBDA p : p.path[depth] = h)
      First(i) == \A j \in 1 .. i - 1 : heads[j] # heads[i]
      names == SelectSeq([i \in DOMAIN pairs |-> i], First)
      Sub(i) == Read(Keep(heads[i]), depth + 1)
  IN IF Len(pairs[1].path) < depth THEN [t |-> "leaf", v |-> pairs[1].v]
     ELSE IF heads[1] = Plain THEN [t |-> "array", k |-> [i \in DOMAIN pairs |-> [t |-> "leaf", v |-> pairs[i].v]]]
     ELSE IF heads[1] \in {"0", "1", "2", "3"} THEN [t |-> "array", k |-> [i \in DOMAIN names |-> Sub(names[i])]]
     ELSE [t |-> "object", k |-> [i \in DOMAIN names |-> Sub(names[i])], n |-> [i \in DOMAIN names |-> heads[names[i]]]]

\* Arrays whose elements are all leaves or all no leaves, and nothing empty:
\* other values do not survive (an empty array or object leaves no pair).
RECURSIVE Sendable(_)
Sendable(x) ==
  \/ x.t = "leaf"
  \/ /\ x.k # <<>> /\ \A i \in DOMAIN x.k : Sendable(x.k[i])
     /\ x.t = "array" => \A i, j \in DOMAIN x.k : x.k[i].t = "leaf" <=> x.k[j].t = "leaf"

\* What is sent is read back as the value it was made from.
ParamReadBack ==
  in.what = "param" => (Sendable(in.obj) => Read(buildParams(<<"p">>, in.obj), 2) = in.obj)

\* Together: data go out and come back as what they were, through every prefilter
\* and converter that applies, once.
DataAgree == PrefiltersOnce /\ ConvertedToWanted /\ ParamReadBack
=============================================================================
