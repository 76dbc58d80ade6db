----------------------------- MODULE SourceMaps -----------------------------
(***************************************************************************)
(* The source maps of html/jquery-require-sample/r.js: a generator writes  *)
(* which place of the generated code is which of the original, as a text   *)
(* of differences; a consumer reads the text and is asked for places;      *)
(* uglifyjs2 writes a map through the map of the code it is given; a       *)
(* SourceNode is a tree of code whose nodes know where they come from.     *)
(*                                                                         *)
(* A mapping is [gl, gc, src, ol, oc, name]: the generated line and column,*)
(* the source, its line and column and a name.  Sources and names are      *)
(* numbers, 0 for none; the text is a list of base64 digits and separators.*)
(***************************************************************************)
EXTENDS Integers, Sequences, SequencesExt, FiniteSets, TLC

CONSTANTS Mappings, MaxMappings,    \* what is added to the generator
          Spots, MaxTokens,         \* the places of the tokens that uglifyjs2 prints
          Texts, Places, MaxOps     \* chunks of a SourceNode: lists of "x" and "\n"

VARIABLES maps,      \* SourceMapGenerator._mappings
          printed,   \* tokens printed from code that has maps as its map
          node, ops  \* a SourceNode, the operations done on it

Mapping(gl, gc, src, ol, oc, name) == [gl |-> gl, gc |-> gc, src |-> src, ol |-> ol, oc |-> oc, name |-> name]
-----------------------------------------------------------------------------
(* Numbers in base 64: five bits and a continuation bit in a digit, the    *)
(* sign in the last bit.                                                   *)
Base == 32
toVLQSigned(n) == IF n < 0 THEN 2 * (-n) + 1 ELSE 2 * n
fromVLQSigned(v) == IF v % 2 = 1 THEN -(v \div 2) ELSE v \div 2
RECURSIVE Digits(_)
Digits(v) == IF v < Base THEN <<v>> ELSE <<Base + (v % Base)>> \o Digits(v \div Base)
encode(n) == Digits(toVLQSigned(n))
\* The numbers of a text of digits.
decode(digits) ==
  LET Take(st, d) == IF d >= Base THEN [st EXCEPT !.sum = @ + ((d - Base) * st.weight), !.weight = @ * Base]
                     ELSE [values |-> Append(st.values, fromVLQSigned(st.sum + (d * st.weight))), sum |-> 0, weight |-> 1]
  IN FoldLeft(Take, [values |-> <<>>, sum |-> 0, weight |-> 1], digits).values
-----------------------------------------------------------------------------
(* SourceMapGenerator.                                                     *)
Comma == -1
Line  == -2
ArraySet(list) == FoldLeft(LAMBDA set, x : IF x \in ToSet(set) \cup {0} THEN set ELSE Append(set, x), <<>>, list)
indexOf(set, x) == SelectInSeq(set, LAMBDA y : y = x) - 1
_sources(list) == ArraySet([i \in DOMAIN list |-> list[i].src])
_names(list)   == ArraySet([i \in DOMAIN list |-> list[i].name])
\* A mapping without source has neither name nor place; any other has a place.
_validateMapping(m) ==
  m.gl > 0 /\ m.gc >= 0 /\ (\/ m.src = 0 /\ m.ol = 0 /\ m.name = 0
                            \/ m.src # 0 /\ m.ol > 0 /\ m.oc >= 0)
Sorted(list) == SortSeq(list, LAMBDA m, n : m.gl < n.gl \/ (m.gl = n.gl /\ m.gc < n.gc))
Start0 == [out |-> <<>>, gl |-> 1, gc |-> 0, src |-> 0, ol |-> 0, oc |-> 0, name |-> 0]
_serializeMappings(list) ==
  LET sources == _sources(list)
      names == _names(list)
      Write(st, m) ==
        LET new  == m.gl # st.gl
            more == IF new THEN [i \in 1..(m.gl - st.gl) |-> Line] ELSE IF st.out = <<>> THEN <<>> ELSE <<Comma>>
            gen  == encode(m.gc - (IF new THEN 0 ELSE st.gc))
            src  == indexOf(sources, m.src)
            name == indexOf(names, m.name)
            orig == IF m.src = 0 THEN <<>> ELSE encode(src - st.src) \o encode(m.ol - 1 - st.ol) \o encode(m.oc - st.oc)
            last == IF m.name = 0 THEN <<>> ELSE encode(name - st.name)
        IN [out |-> st.out \o more \o gen \o orig \o last, gl |-> m.gl, gc |-> m.gc,
            src |-> IF m.src = 0 THEN st.src ELSE src, ol |-> IF m.src = 0 THEN st.ol ELSE m.ol - 1,
            oc |-> IF m.src = 0 THEN st.oc ELSE m.oc, name |-> IF m.name = 0 THEN st.name ELSE name]
  IN FoldLeft(Write, Start0, Sorted(list)).out
-----------------------------------------------------------------------------
(* SourceMapConsumer.                                                      *)
\* A segment of the text, of which v are the numbers, is added to what was read;
\* a source without line or column throws.
Segment(st, v, sources, names) ==
  [st EXCEPT !.seg = <<>>, !.gc = @ + v[1], !.src = IF Len(v) > 1 THEN @ + v[2] ELSE @,
             !.ol = IF Len(v) > 1 THEN @ + v[3] ELSE @, !.oc = IF Len(v) > 1 THEN @ + v[4] ELSE @,
             !.name = IF Len(v) = 5 THEN @ + v[5] ELSE @,
             !.list = Append(@, IF Len(v) = 1 THEN Mapping(st.gl, st.gc + v[1], 0, 0, 0, 0)
                                ELSE Mapping(st.gl, st.gc + v[1], sources[st.src + v[2] + 1], st.ol + v[3] + 1, st.oc + v[4],
                                             IF Len(v) = 5 THEN names[st.name + v[5] + 1] ELSE 0))]
\* The mappings of a text.
_parseMappings(text, sources, names) ==
  LET Read(st) == IF st.seg = <<>> THEN st ELSE Segment(st, decode(st.seg), sources, names)
      After(st, c) == IF c = Line THEN [st EXCEPT !.gl = @ + 1, !.gc = 0] ELSE st
      Char(st, c) == IF c \in {Comma, Line} THEN After(Read(st), c) ELSE [st EXCEPT !.seg = Append(@, c)]
      begin == [list |-> <<>>, seg |-> <<>>, gl |-> 1, gc |-> 0, src |-> 0, ol |-> 0, oc |-> 0, name |-> 0]
  IN Read(FoldLeft(Char, begin, text)).list
Consumed(list) == _parseMappings(_serializeMappings(list), _sources(list), _names(list))

generatedKey(m) == <<1, m.gl, m.gc>>
originalKey(m)  == <<m.src, m.ol, m.oc>>
\* Sources are compared as strings; none with any is neither more nor less, and the
\* lines that are then subtracted give no number.
Compare(a, b) ==
  LET d == CASE a[1] # b[1] -> a[1] - b[1] [] a[2] # b[2] -> a[2] - b[2] [] OTHER -> a[3] - b[3]
  IN IF 0 \in {a[1], b[1]} THEN "nan" ELSE IF d > 0 THEN "more" ELSE IF d < 0 THEN "less" ELSE "same"
_originalMappings(list) == SortSeq(list, LAMBDA m, n : Compare(originalKey(m), originalKey(n)) = "less")
RECURSIVE recursiveSearch(_, _, _, _)
recursiveSearch(low, high, needle, keys) ==
  LET mid == ((high - low) \div 2) + low
      cmp == Compare(needle, keys[mid])
  IN CASE cmp = "same" -> mid
       [] cmp = "more" -> IF high - mid > 1 THEN recursiveSearch(mid, high, needle, keys) ELSE mid
       [] OTHER        -> IF mid - low > 1 THEN recursiveSearch(low, mid, needle, keys) ELSE low
\* The number of the mapping at or before a place, 0 for none.
search(needle, keys) == IF keys = <<>> THEN 0 ELSE recursiveSearch(0, Len(keys) + 1, needle, keys)
Nowhere == Mapping(0, 0, 0, 0, 0, 0)
findMapping(list, needle, key(_)) ==
  LET Found(i) == IF i = 0 THEN Nowhere ELSE list[i]
  IN Found(search(needle, [j \in DOMAIN list |-> key(list[j])]))
originalPositionFor(list, line, column) == findMapping(list, <<1, line, column>>, generatedKey)
generatedPositionFor(list, src, line, column) == findMapping(_originalMappings(list), <<src, line, column>>, originalKey)
Origin(m) == <<m.src, m.ol, m.oc>>
-----------------------------------------------------------------------------
(* uglifyjs2: SourceMap.add, with the map of the code that is minified.  A *)
(* place that the old map does not know throws; the printer warns and goes *)
(* on without a mapping (16879-16893).                                     *)
\* Mutant: the place in the code that is minified, not the one it came from.
addPlain(list, old, t) == Append(list, Mapping(t.gl, t.gc, 1, t.line, t.col, 0))
addFrom(list, info, t) ==
  LET m == Mapping(t.gl, t.gc, info.src, info.ol, info.oc, info.name)
  IN IF info.src # 0 /\ _validateMapping(m) THEN Append(list, m) ELSE list
add(list, old, t) == addFrom(list, originalPositionFor(old, t.line, t.col), t)
Minified == LET old == Consumed(maps) IN FoldLeft(LAMBDA list, t : add(list, old, t), <<>>, printed)
-----------------------------------------------------------------------------
(* SourceNode.                                                             *)
Chunk(text)     == [leaf |-> TRUE, text |-> text, place |-> <<0, 0, 0>>, kids |-> <<>>]
Node(place, ks) == [leaf |-> FALSE, text |-> <<>>, place |-> place, kids |-> ks]
IsEmpty(kid) == kid.leaf /\ kid.text = <<>>
RECURSIVE walk(_)
walk(n) == FlattenSeq([i \in DOMAIN n.kids |->
             LET kid == n.kids[i] IN
             IF ~kid.leaf THEN walk(kid) ELSE IF IsEmpty(kid) THEN <<>> ELSE <<[text |-> kid.text, place |-> n.place]>>])
RECURSIVE replaceRight(_, _)
replaceRight(n, text) ==
  IF n.kids = <<>> THEN [n EXCEPT !.kids = <<Chunk(text)>>]
  ELSE LET kid == Last(n.kids) IN
       [n EXCEPT !.kids[Len(n.kids)] = IF kid.leaf THEN Chunk(Front(kid.text) \o text) ELSE replaceRight(kid, text)]
Advance(at, c) == IF c = "\n" THEN [at EXCEPT !.line = @ + 1, !.col = 0] ELSE [at EXCEPT !.col = @ + 1]
toStringWithSourceMap(n) ==
  LET Write(st, chunk) ==
        LET known == [st EXCEPT !.map = Append(@, Mapping(st.line, st.col, chunk.place[1], chunk.place[2], chunk.place[3], 0))]
        IN FoldLeft(Advance, IF chunk.place[1] = 0 THEN st ELSE known, chunk.text)
  IN FoldLeft(Write, [map |-> <<>>, line |-> 1, col |-> 0], walk(n)).map
-----------------------------------------------------------------------------
addMapping == /\ ops = 0 /\ printed = <<>> /\ Len(maps) < MaxMappings
              /\ \E m \in Mappings : _validateMapping(m) /\ maps' = Append(maps, m)
              /\ UNCHANGED <<printed, node, ops>>
\* A token is printed behind the last, on its line or the next.
PrintToken ==
  /\ ops = 0 /\ maps # <<>> /\ Len(printed) < MaxTokens
  /\ \E s \in Spots, new \in BOOLEAN :
       LET last == IF printed = <<>> THEN [gl |-> 1, gc |-> 0] ELSE Last(printed)
           t == [gl |-> last.gl + (IF new THEN 1 ELSE 0), gc |-> IF new THEN 0 ELSE last.gc + 1, line |-> s[1], col |-> s[2]]
       IN printed' = Append(printed, t)
  /\ UNCHANGED <<maps, node, ops>>
Operation(n) == maps = <<>> /\ ops < MaxOps /\ ops' = ops + 1 /\ node' = n /\ UNCHANGED <<maps, printed>>
addChunk   == \E t \in Texts : Operation(IF t = <<>> THEN node ELSE [node EXCEPT !.kids = Append(@, Chunk(t))])
addNode    == \E t \in Texts, p \in Places : Operation([node EXCEPT !.kids = Append(@, Node(p, <<Chunk(t)>>))])
prepend    == \E t \in Texts : Operation([node EXCEPT !.kids = <<Chunk(t)>> \o @])
join       == \E t \in Texts : Operation([node EXCEPT !.kids =
                IF @ = <<>> THEN @ ELSE Front(FlattenSeq([i \in DOMAIN @ |-> <<@[i], Chunk(t)>>]))])
nest       == \E p \in Places : Operation(Node(p, <<node>>))
changeLast == \E t \in Texts : node.kids # <<>> /\ ~IsEmpty(Last(node.kids)) /\ Operation(replaceRight(node, t))
SmInit == maps = <<>> /\ printed = <<>> /\ ops = 0 /\ \E p \in Places : node = Node(p, <<>>)
SmNext == addMapping \/ PrintToken \/ addChunk \/ addNode \/ prepend \/ join \/ nest \/ changeLast
-----------------------------------------------------------------------------
At(list, i) == <<list[i].gl, list[i].gc>>
Upto(p, q) == p[1] < q[1] \/ (p[1] = q[1] /\ p[2] <= q[2])
\* What the generator writes, the consumer reads: the same mappings in the order of
\* the generated code, whatever order they came in (13206-13285, 13573-13639).
ReadBack == printed = <<>> => Consumed(maps) = Sorted(maps)
\* A place of the generated code belongs to the last mapping at or before it, on its
\* line or any above ("the next lowest value", 13073-13078).
IsLowest(got, list, place) ==
  LET below == {i \in DOMAIN list : Upto(At(list, i), place)}
  IN IF below = {} THEN got = Nowhere
     ELSE Upto(<<got.gl, got.gc>>, place) /\ \A i \in below : Upto(At(list, i), <<got.gl, got.gc>>)
NextLowestIn(list) ==
  \A line \in 1..4, col \in {0, 5, 16, 17, 40} : IsLowest(originalPositionFor(list, line, col), list, <<line, col>>)
NextLowest == printed = <<>> => NextLowestIn(Consumed(maps))
\* A place that has a mapping is found the other way round, when every mapping has a
\* source (13290-13304, 13400-13425).
FoundBack ==
  LET list == Consumed(maps) IN
  printed = <<>> /\ (\A i \in DOMAIN maps : maps[i].src # 0) =>
    \A i \in DOMAIN maps : Origin(generatedPositionFor(list, maps[i].src, maps[i].ol, maps[i].oc)) = Origin(maps[i])
\* A token printed from code that has a map of its own is led to where that map leads
\* its place, if it leads anywhere (19424-19450).
LeadsTo(map, t, old) == old.src # 0 => Origin(originalPositionFor(map, t.gl, t.gc)) = Origin(old)
LedThrough ==
  LET sorted == Sorted(maps)
      map == Consumed(Minified)
  IN \A i \in DOMAIN printed :
    LeadsTo(map, printed[i], originalPositionFor(sorted, printed[i].line, printed[i].col))
\* Every character of a SourceNode's text is led to the place of the node that holds
\* it, however the tree was put together (13827-13862).
CharsLed ==
  LET map == Consumed(toStringWithSourceMap(node))
      chunks == walk(node)
      text == FlattenSeq([i \in DOMAIN chunks |-> chunks[i].text])
      owners == <<>> \o FlattenSeq([i \in DOMAIN chunks |-> [j \in DOMAIN chunks[i].text |-> chunks[i].place]])
      Place(k) == LET nls == {j \in 1..k - 1 : text[j] = "\n"}
                  IN <<Cardinality(nls) + 1, Cardinality({j \in 1..k - 1 : \A n \in nls : n < j})>>
  IN \A k \in DOMAIN text : owners[k][1] # 0 =>
       Origin(originalPositionFor(map, Place(k)[1], Place(k)[2])) = owners[k]
\* Together: what is written is read back, found in both directions and led through
\* another map.
MapsLead == ReadBack /\ NextLowest /\ FoundBack /\ LedThrough /\ CharsLed
=============================================================================
