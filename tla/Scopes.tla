------------------------------- MODULE Scopes -------------------------------
(***************************************************************************)
(* Names made short, in html/jquery-require-sample/r.js: ast_add_scope and *)
(* ast_mangle of uglifyjs, figure_out_scope and mangle_names of UglifyJS2. *)
(*                                                                         *)
(* A program is a tree of scopes; 1 is the toplevel, the others are        *)
(* functions, after the one they are in.  Names are numbers: base54 gives  *)
(* the k-th short name, and a name of the program may be a short one too.  *)
(* A function may be an expression with a name of its own.                 *)
(***************************************************************************)
EXTENDS Integers, Sequences, SequencesExt, FiniteSets, FiniteSetsExt

CONSTANTS Names,       \* the names declared
          Used,        \* the names referred to
          MaxScopes

VARIABLES scopes,      \* sequence of [parent, names, self, refs, eval]
          toplevel     \* an option: mangle the toplevel too

None == -1
Shorts == 0 .. 12
Scope(parent, names, self, refs, eval) == [parent |-> parent, names |-> names, self |-> self, refs |-> refs, eval |-> eval]
All == DOMAIN scopes
RECURSIVE Up(_)
Up(s) == IF s = 0 THEN <<>> ELSE <<s>> \o Up(scopes[s].parent)    \* s and the scopes around it, inside out
Below(s) == {d \in All : Contains(Up(d), s)}
Nearest(s, P(_)) == LET at == SelectInSeq(Up(s), P) IN IF at = 0 THEN 0 ELSE Up(s)[at]
uses_eval(s) == \E d \in Below(s) : scopes[d].eval
InOrder(set) == SetToSortSeq(set, LAMBDA m, n : m < n)

\* What a name means: the scope, and whether it is the name of the function itself.
Means(declared(_), selfs(_), s, n) ==
  LET t == Nearest(s, LAMBDA q : n \in declared(q) \/ n = selfs(q)) IN
  IF t = 0 THEN <<0, "global">> ELSE <<t, IF n \in declared(t) THEN "var" ELSE "self">>
Truth(s, n) == Means(LAMBDA q : scopes[q].names, LAMBDA q : scopes[q].self, s, n)
-----------------------------------------------------------------------------
(* uglifyjs: a function's own name is one of the names of its scope.       *)
Own(s) == scopes[s].names \cup ({scopes[s].self} \ {None})
has(s, n) == Nearest(s, LAMBDA q : n \in Own(q))
\* fixrefs: the names a scope refers to, its subscopes included, up to where they are declared.
fixrefs(s) == {n \in Used : \E d \in Below(s) : n \in scopes[d].refs /\ (has(d, n) = 0 \/ Contains(Up(s), has(d, n)))}

\* m: what is mangled so far in each scope, and the last short name it took.
has_mangled(m, s, k) == Nearest(s, LAMBDA q : \E n \in DOMAIN m.mangled[q] : m.mangled[q][n] = k)
Original(m, s, k) == CHOOSE n \in DOMAIN m.mangled[s] : m.mangled[s][n] = k
\* next_mangled: shadows no name, mangled or not, that is referred to from here.
next_mangled(m, s) ==
  LET Free(k) ==
        LET prior == has_mangled(m, s, k)   plain == has(s, k) IN
        /\ ~(prior # 0 /\ Original(m, prior, k) \in fixrefs(s) /\ has(s, Original(m, prior, k)) = prior)
        /\ ~(plain # 0 /\ plain # s /\ k \in fixrefs(s) /\ has_mangled(m, plain, k) = 0)
        /\ ~(k \in fixrefs(s) /\ plain = 0)
  IN Min({k \in Shorts : k > m.cname[s] /\ Free(k)})
set_mangle(m, s, n, k) == [m EXCEPT !.mangled[s] = (n :> k) @@ @]
\* get_mangled( name, newMangle ), of a scope's own names; the toplevel only where it is asked for.
mangles(s) == ~uses_eval(s) /\ (toplevel \/ s # 1)
NewName(m, s, n) ==
  IF ~mangles(s) \/ n \in DOMAIN m.mangled[s] THEN m
  ELSE LET k == next_mangled(m, s) IN set_mangle([m EXCEPT !.cname[s] = k], s, n, k)
\* _lambda: the name of the function is taken in the scope around it.
Self(m, s) ==
  LET p == scopes[s].parent   n == scopes[s].self   k == next_mangled(m, p) IN
  IF n = None \/ (n \notin fixrefs(s) /\ ~uses_eval(s)) THEN m
  ELSE IF uses_eval(p) THEN set_mangle(m, s, n, n)
  ELSE set_mangle([m EXCEPT !.cname[p] = k], s, n, k)
\* with_scope, for every scope: the names it declares first.
ast_mangle ==
  FoldLeftDomain(LAMBDA m, s : FoldLeft(LAMBDA r, n : NewName(r, s, n), Self(m, s), InOrder(Own(s))),
                 [mangled |-> [s \in All |-> <<>>], cname |-> [s \in All |-> -1]], scopes)
\* get_mangled( name ), where a name is used in s.
get_mangled(m, s, n) ==
  LET t == has(s, n) IN
  IF uses_eval(s) \/ t = 0 \/ (~toplevel /\ s = 1) THEN n ELSE IF n \in DOMAIN m.mangled[t] THEN m.mangled[t][n] ELSE n
-----------------------------------------------------------------------------
(* UglifyJS2: the name of a function is a variable of the scope around it. *)
variables(s) == scopes[s].names \cup ({scopes[c].self : c \in {d \in All : scopes[d].parent = s}} \ {None})
find_variable(s, n) == <<Nearest(s, LAMBDA q : n \in variables(q)), n>>
\* The definitions referred to from a scope or from below, with where they are.
enclosed(s) ==
  {def \in {find_variable(d, n) : d \in Below(s), n \in Used} :
     \E d \in Below(s), n \in Used : n \in scopes[d].refs /\ def = find_variable(d, n) /\ (def[1] = 0 \/ Contains(Up(s), def[1]))}
unmangleable(def) == def[1] \in {0, 1} \/ uses_eval(def[1])
NameIn(m, def) == IF def \in DOMAIN m.mangled THEN m.mangled[def] ELSE IF unmangleable(def) THEN def[2] ELSE None
next_mangled2(m, s) == Min({k \in Shorts : k > m.cname[s] /\ \A def \in enclosed(s) : NameIn(m, def) # k})
mangle(m, def) ==
  LET s == def[1]   k == next_mangled2(m, s) IN
  IF unmangleable(def) THEN m ELSE [m EXCEPT !.mangled = (def :> k) @@ @, !.cname[s] = k]
mangle_names ==
  FoldLeftDomain(LAMBDA m, s : FoldLeft(LAMBDA r, n : mangle(r, <<s, n>>), m, InOrder(variables(s))),
                 [mangled |-> <<>>, cname |-> [s \in All |-> -1]], scopes)
-----------------------------------------------------------------------------
ScInit == scopes = <<Scope(0, {}, None, {}, FALSE)>> /\ toplevel \in BOOLEAN
DeclareTop == Len(scopes) = 1 /\ scopes[1].names = {} /\ \E n \in Names : scopes' = [scopes EXCEPT ![1].names = {n}]
AddScope ==
  /\ Len(scopes) < MaxScopes
  /\ \E parent \in All, names \in SUBSET Names, self \in Names \cup {None}, refs \in SUBSET Used, eval \in BOOLEAN :
       /\ eval => refs = {} /\ ~toplevel
       /\ scopes' = Append(scopes, Scope(parent, names, self, refs, eval))
ScNext == (DeclareTop \/ AddScope) /\ UNCHANGED toplevel
-----------------------------------------------------------------------------
\* With its names made short, every use of a name means what it meant: the same variable of
\* the same scope, the same function's own name, or the same global one. (uglifyjs)
AlwaysSame1 ==
  LET m == ast_mangle
      New(s, n) == IF n \in DOMAIN m.mangled[s] THEN m.mangled[s][n] ELSE n
      names == [s \in All |-> {New(s, n) : n \in scopes[s].names}]
      selfs == [s \in All |-> IF scopes[s].self = None \/ (scopes[s].self \notin fixrefs(s) /\ ~uses_eval(s)) THEN None ELSE New(s, scopes[s].self)]
  IN \A s \in All :
       /\ Cardinality(names[s]) = Cardinality(scopes[s].names)
       /\ \A n \in scopes[s].refs :
            LET k == get_mangled(m, s, n)
                was == Truth(s, n)
                is == Means(LAMBDA q : names[q], LAMBDA q : selfs[q], s, k)
            IN is = was /\ k = (IF was[1] = 0 THEN n ELSE New(was[1], n))

\* The same, but for a named function expression of the toplevel where that declares a short
\* name which is not mangled: the function may be given that very name.
SameMeaning1 ==
  \/ ~toplevel /\ scopes[1].names \cap Shorts # {} /\ \E c \in All : scopes[c].parent = 1 /\ scopes[c].self # None
  \/ AlwaysSame1

\* The same, for UglifyJS2: where the name of a function expression is not used around it
\* unless it is declared there too, for its scope takes that name for its own.
SameMeaning2 ==
  LET m == mangle_names
      New(s, n) == IF <<s, n>> \in DOMAIN m.mangled THEN m.mangled[<<s, n>>] ELSE n
      names == [s \in All |-> {New(s, n) : n \in scopes[s].names}]
      selfs == [s \in All |-> IF scopes[s].self = None THEN None ELSE New(scopes[s].parent, scopes[s].self)]
      Leaks == \E s, c \in All : LET n == scopes[c].self IN
                 /\ scopes[c].parent # 0 /\ n \in scopes[s].refs /\ find_variable(s, n)[1] = scopes[c].parent
                 /\ Truth(s, n) # <<c, "self">> /\ n \notin scopes[scopes[c].parent].names
  IN Leaks \/ \A s \in All :
       /\ Cardinality(names[s]) = Cardinality(scopes[s].names)
       /\ \A n \in scopes[s].refs :
            LET k == New(find_variable(s, n)[1], n) IN
            Means(LAMBDA q : names[q], LAMBDA q : selfs[q], s, k) = Truth(s, n)
=============================================================================
