----------------------------- MODULE ModuleNames ----------------------------
(***************************************************************************)
(* How RequireJS (html/njs/require.js) turns the name a module uses for    *)
(* another into the id it is registered under and the url it is loaded     *)
(* from. A name is a sequence of segments.                                 *)
(***************************************************************************)
EXTENDS Naturals, Sequences, FiniteSets, SequencesExt, FiniteSetsExt

CONSTANTS Paths,    \* config.paths: name |-> path
          Pkgs,     \* config.pkgs: package |-> [location, main]
          Map,      \* config.map: base name |-> (name |-> name)
          StarMap,  \* config.map[ "*" ]
          BaseUrl   \* config.baseUrl

VARIABLES name, base   \* the name asked for, and the module that asks (<<>>: none)

Heads(s) == [k \in 1 .. Len(s) |-> SubSeq(s, 1, Len(s) + 1 - k)]   \* the longest first
After(s, i) == SubSeq(s, i + 1, Len(s))

RECURSIVE trimFrom(_, _)
trimFrom(ary, i) ==   \* i counts from 0, as in the code
  IF i >= Len(ary) THEN ary
  ELSE LET part == ary[i + 1] IN
       IF part = "." THEN trimFrom(RemoveAt(ary, i + 1), i)
       ELSE IF part # ".." THEN trimFrom(ary, i + 1)
       ELSE IF i = 1 /\ ((Len(ary) >= 3 /\ ary[3] = "..") \/ ary[1] = "..") THEN ary
       ELSE IF i > 0 THEN trimFrom(SubSeq(ary, 1, i - 1) \o After(ary, i + 1), i - 1)
       ELSE trimFrom(ary, i + 1)
trimDots(ary) == trimFrom(ary, 0)

\* The parts a name is relative to: a package is its own directory.
BaseParts(b) == IF Len(b) = 1 /\ b[1] \in DOMAIN Pkgs THEN b ELSE Front(b)
\* normalize, names that begin with a dot.
relative(n, b) ==
  LET r == trimDots(BaseParts(b) \o n) IN
  IF n[1] \notin {".", ".."} THEN n
  ELSE IF b = <<>> THEN IF n[1] = "." THEN Tail(n) ELSE n
  ELSE IF r # <<>> /\ r[1] \in DOMAIN Pkgs /\ r = <<r[1], Pkgs[r[1]].main>> THEN <<r[1]>> ELSE r

\* The map that applies to a name: for every prefix of it, from the longest, the
\* maps of the base, from the most special one; the star map only without these.
\* Mutant: the star map is taken when its name is longer.
mapForStar(n, parts) ==
  LET stars == SelectSeq(Heads(n), LAMBDA p : p \in DOMAIN StarMap) IN
  IF stars = <<>> THEN <<>> ELSE <<stars[1], StarMap[stars[1]]>>
mapFor(n, parts) ==
  LET bases(p) == SelectSeq(Heads(parts), LAMBDA q : q \in DOMAIN Map /\ p \in DOMAIN Map[q])
      found == SelectSeq(Heads(n), LAMBDA p : bases(p) # <<>>)
      stars == SelectSeq(Heads(n), LAMBDA p : p \in DOMAIN StarMap)
  IN IF found # <<>> THEN <<found[1], Map[bases(found[1])[1]][found[1]]>>
     ELSE IF stars # <<>> THEN <<stars[1], StarMap[stars[1]]>> ELSE <<>>
normalize(n, b, applyMap) ==
  LET r == relative(n, b)
      m == mapFor(r, b)
  IN IF ~applyMap \/ r = <<>> \/ m = <<>> THEN r ELSE m[2] \o After(r, Len(m[1]))

\* context.nameToUrl: the longest prefix that has a path or is a package.
nameToUrl(n) ==
  LET IsPkg(p) == Len(p) = 1 /\ p[1] \in DOMAIN Pkgs
      fits == SelectSeq(Heads(n), LAMBDA p : p \in DOMAIN Paths \/ IsPkg(p))
      p == fits[1]
      at == IF p \in DOMAIN Paths THEN Paths[p]
            ELSE IF n = p THEN Append(Pkgs[p[1]].location, Pkgs[p[1]].main) ELSE Pkgs[p[1]].location
  IN BaseUrl \o (IF fits = <<>> THEN n ELSE at \o After(n, Len(p)))
-----------------------------------------------------------------------------
\* The plain meaning of a path: what a file system makes of it.
RECURSIVE Resolve(_, _)
Resolve(done, rest) ==
  IF rest = <<>> THEN done
  ELSE LET x == Head(rest) IN
       Resolve(IF x = "." THEN done
               ELSE IF x = ".." /\ done # <<>> /\ done[Len(done)] # ".." THEN Front(done) ELSE Append(done, x), Tail(rest))
Meant(n, b) ==
  IF n[1] \notin {".", ".."} THEN n ELSE Resolve(<<>>, (IF b = <<>> THEN <<>> ELSE BaseParts(b)) \o n)
Above(n) == Contains(n, "..")
Plain(n) == ~Contains(n, ".") /\ ~Contains(n, "..")
Asked == name # <<>>

\* A relative name gives the id of the file it means, so that a module asked for
\* under two names is one module; the main module of a package goes by the name
\* of the package. (Names that lead above baseUrl keep their steps up, and are
\* not unique.)
SameFileSameId ==
  Asked /\ base # <<>> /\ ~Above(Meant(name, base)) /\ (Plain(name) \/ name[1] \in {".", ".."}) =>
    LET m == Meant(name, base) IN
    normalize(name, base, FALSE) =
      IF name[1] \in {".", ".."} /\ m # <<>> /\ m[1] \in DOMAIN Pkgs /\ m = <<m[1], Pkgs[m[1]].main>> THEN <<m[1]>> ELSE m

\* The steps up that are kept lead to the file that was meant.
StepsUpKept == Asked /\ base # <<>> => Resolve(<<>>, normalize(name, base, FALSE)) \in
  {Resolve(<<>>, Meant(name, base))} \cup {<<p>> : p \in DOMAIN Pkgs}

\* An id is final: normalised again by any module it stays the same.
IdsFinal ==
  Asked /\ Plain(normalize(name, base, FALSE)) /\ normalize(name, base, FALSE) # <<>> =>
    LET id == normalize(name, base, FALSE) IN
    normalize(id, base, FALSE) = id /\ normalize(id, <<>>, FALSE) = id

\* A map of the module that asks comes before one for all modules, a longer name
\* before a shorter one, and a more special base before a more general one.
MostSpecial ==
  Asked /\ base # <<>> /\ Plain(name) =>
    \A i \in 1 .. Len(base), k \in 1 .. Len(name) :
      LET q == SubSeq(base, 1, i)
          p == SubSeq(name, 1, k)
      IN q \in DOMAIN Map /\ p \in DOMAIN Map[q]
         /\ (\A j \in 1 .. Len(base), l \in 1 .. Len(name) :
              SubSeq(base, 1, j) \in DOMAIN Map /\ SubSeq(name, 1, l) \in DOMAIN Map[SubSeq(base, 1, j)] => l < k \/ (l = k /\ j <= i))
         => normalize(name, base, TRUE) = Map[q][p] \o After(name, k)

\* The url of a module in a package or under a path lies where the longest entry
\* says; what is under no entry lies under baseUrl.
UrlOfLongest ==
  Asked /\ Plain(name) =>
    LET entries == {p \in DOMAIN Paths : IsPrefix(p, name)}
        longest == CHOOSE p \in entries : \A q \in entries : Len(q) <= Len(p)
    IN /\ entries # {} => IsPrefix(BaseUrl \o Paths[longest], nameToUrl(name))
       /\ entries = {} /\ name[1] \in DOMAIN Pkgs => IsPrefix(BaseUrl \o Pkgs[name[1]].location, nameToUrl(name))
       /\ entries = {} /\ name[1] \notin DOMAIN Pkgs => nameToUrl(name) = BaseUrl \o name
\* Together: whoever asks and however it is spelled, a name leads to one identifier, and
\* that to one URL.
NamesFinal == SameFileSameId /\ StepsUpKept /\ IdsFinal /\ MostSpecial /\ UrlOfLongest
=============================================================================
