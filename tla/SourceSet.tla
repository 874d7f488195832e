------------------------------ MODULE SourceSet ------------------------------
(***************************************************************************)
(* The unit of compilation: a set of source texts that see each other      *)
(* (deed-driver check_all, inputs, shipped; deed-resolve collect).         *)
(*                                                                         *)
(* A text is what the resolver tells apart: the module it says it is, the  *)
(* names it imports, the items it declares (an effect declares operations, *)
(* reachable through it only), the names its bodies mention, alone or      *)
(* behind the name of an effect, and its `deprecated old -> new` lines.    *)
(* Every text also sees the effects of the prelude, unless it gives their  *)
(* names to something of its own.  Everything here is a function of the    *)
(* texts, so that the command line, the language server and the rename     *)
(* all read the same definitions, as they share the code.                  *)
(***************************************************************************)
EXTENDS Naturals, Sequences, FiniteSets

CONSTANTS
    Modules,     \* module paths
    NoModule,    \* in place of the module line of a file that has none
    Shipped,     \* [shipped module paths -> their texts]
    Provided     \* [the prelude's effects -> their operations]

ASSUME ShippedAssumption ==
    /\ DOMAIN Shipped \subseteq Modules
    /\ \A m \in DOMAIN Shipped : Shipped[m].module = m

(***************************************************************************)
(* One text.                                                               *)
(***************************************************************************)
Indices(t) == 1..Len(t.decls)
Declared(t) == {t.decls[i].name : i \in Indices(t)}
ImportedNames(t) == {use[2] : use \in t.uses}
Own(t) == Declared(t) \cup ImportedNames(t)
Mentioned(t) == t.calls \cup {dot[1] : dot \in t.dots}

\* The prelude's effects a text sees, and all the names it looks up.
Given(t) == DOMAIN Provided \ Own(t)
InScope(t) == Own(t) \cup DOMAIN Provided

\* The modules a text asks for (imports_of), nothing for a text without a
\* module line.
ImportsOf(t) == IF t.module = NoModule THEN {} ELSE {use[1] : use \in t.uses}

\* The operations of the effect a text declares under a name.
Operations(t, name) ==
    UNION {t.decls[i].ops : i \in {j \in Indices(t) : t.decls[j].name = name}}

(***************************************************************************)
(* Several texts: a function from where each comes from to the text, and   *)
(* the order in which they are added to the universe, as a rank.           *)
(***************************************************************************)
Claims(texts, m) == {u \in DOMAIN texts : texts[u].module = m}
Known(texts) == {texts[u].module : u \in DOMAIN texts} \ {NoModule}
Wanted(texts) == UNION {ImportsOf(texts[u]) : u \in DOMAIN texts}

\* The shipped modules a set of texts needs: what they import and what those
\* import in turn, each only where no text claims the path.
ShippedFor(texts) ==
    LET Complete(S) ==
            \A m \in DOMAIN Shipped \ Known(texts) :
                m \in Wanted(texts) \cup UNION {ImportsOf(Shipped[s]) : s \in S}
                    => m \in S
    IN {m \in DOMAIN Shipped \ Known(texts) :
            \A S \in SUBSET (DOMAIN Shipped \ Known(texts)) : Complete(S) => m \in S}

\* What each module path offers, with some of the shipped texts added. A path
\* two texts claim is what the last one added says.
Offered(texts, rank, added) ==
    [m \in Known(texts) \cup added |->
        IF m \in Known(texts)
        THEN texts[CHOOSE u \in Claims(texts, m) :
                       \A v \in Claims(texts, m) : rank[v] <= rank[u]]
        ELSE Shipped[m]]

\* A shipped text is only there for a path nobody else claims.
Universe(texts, rank) == Offered(texts, rank, ShippedFor(texts))

\* The name a `deprecated` line has in no scope: the old one is looked up first.
Missing(t, d) == IF d[1] \notin InScope(t) THEN {d[1]} ELSE {d[2]} \ InScope(t)

\* The diagnostics of one text: its imports first, each name declared once,
\* then the `deprecated` lines and every name its bodies mention.
Unresolved(t, universe) ==
    {<<"UNKNOWN_MODULE", use[1]>> : use \in {v \in t.uses : v[1] \notin DOMAIN universe}}
    \cup {<<"UNKNOWN_EXPORT", use>> :
              use \in {v \in t.uses : /\ v[1] \in DOMAIN universe
                                      /\ v[2] \notin Declared(universe[v[1]])}}
    \cup {<<"DUPLICATE_DEFINITION", n>> :
              n \in {m \in Own(t) :
                        Cardinality({i \in Indices(t) : t.decls[i].name = m})
                          + Cardinality({use \in t.uses : use[2] = m}) > 1}}
    \cup {<<"UNKNOWN_NAME", n>> :
              n \in (Mentioned(t) \ InScope(t))
                        \cup UNION {Missing(t, d) : d \in t.deprecated}}

\* A member behind a dot: of an effect this text declares, of one it imports,
\* whose operations crossed with the export, or of one the prelude gives it.
UnknownMembers(t, universe) ==
    {<<"UNKNOWN_MEMBER", dot>> :
        dot \in {d \in t.dots :
            LET local == Operations(t, d[1])
                from  == {use \in t.uses : /\ use[2] = d[1]
                                           /\ use[1] \in DOMAIN universe}
                there == UNION {Operations(universe[use[1]], d[1]) : use \in from}
                given == UNION {Provided[e] : e \in Given(t) \cap {d[1]}}
            IN (local # {} \/ there # {} \/ d[1] \in Given(t))
                   /\ d[2] \notin local \cup there \cup given}}

UnusedImports(t) ==
    {<<"UNUSED_IMPORT", n>> : n \in ImportedNames(t) \ Mentioned(t)}

HiddenEffects(t) ==
    {<<"SHADOWED_DECLARATION", n>> : n \in Own(t) \cap DOMAIN Provided}

\* A name a text mentions that it has deprecated itself, or that the module it
\* comes from has.
Deprecations(t, universe) ==
    LET Here == {d \in t.deprecated : d[1] # d[2] /\ {d[1], d[2]} \subseteq InScope(t)}
        There(m) == {d \in universe[m].deprecated :
                        {d[1], d[2]} \subseteq Declared(universe[m])}
        old == {d[1] : d \in Here}
                 \cup {use[2] : use \in {v \in t.uses :
                          /\ v[1] \in DOMAIN universe
                          /\ \E d \in There(v[1]) : d[1] = v[2]}}
    IN {<<"DEPRECATED_DECLARATION", n>> : n \in Mentioned(t) \cap old}

Warnings(t, universe) ==
    UnusedImports(t) \cup HiddenEffects(t) \cup Deprecations(t, universe)

\* Everything check_all says of the text at u.
Diagnoses(texts, universe, u) ==
    LET t == texts[u]
    IN  Unresolved(t, universe) \cup UnknownMembers(t, universe) \cup Warnings(t, universe)
        \cup (IF t.module # NoModule /\ Cardinality(Claims(texts, t.module)) > 1
              THEN {<<"AMBIGUOUS_MODULE", t.module>>} ELSE {})

IsError(problem) ==
    problem[1] \notin {"UNUSED_IMPORT", "SHADOWED_DECLARATION", "DEPRECATED_DECLARATION"}

\* Nothing in the set is an error.
Clean(texts, rank) ==
    \A universe \in {Universe(texts, rank)} :
        \A u \in DOMAIN texts : \A p \in Diagnoses(texts, universe, u) : ~IsError(p)

\* The sequences that hold every element of a finite set once.
Listings(S) == {s \in [1..Cardinality(S) -> S] : \A x \in S : \E i \in DOMAIN s : s[i] = x}

(***************************************************************************)
(* Definitions of one text that are written in it, as rename tells them    *)
(* apart: an item, an import, an operation of an effect (declared here, or *)
(* made on demand behind an imported effect's name).  A mention of one of  *)
(* the prelude's effects or operations is of a definition too, which the   *)
(* text has as if it were its own, and which is declared nowhere.          *)
(***************************************************************************)
Defs(t) ==
    {[kind |-> "item", of |-> t.module, name |-> n] :
        n \in Declared(t) \cup (Mentioned(t) \cap Given(t))}
    \cup {[kind |-> "import", of |-> use[1], name |-> use[2]] : use \in t.uses}
    \cup {[kind |-> "op", of |-> d[1], name |-> d[2]] :
              d \in {dot \in t.dots : \/ dot[1] \in Own(t)
                                      \/ /\ dot[1] \in Given(t)
                                         /\ dot[2] \in Provided[dot[1]]}}
    \cup UNION {{[kind |-> "op", of |-> t.decls[i].name, name |-> o] :
                     o \in t.decls[i].ops} : i \in Indices(t)}

\* The text with every place that resolves to the definition renamed. The
\* names of a `deprecated` line are looked up and not recorded, so they are
\* no such places.
Renamed(t, def, new) ==
    LET Swap(n) == IF n = def.name THEN new ELSE n
        Op(d) == IF d = <<def.of, def.name>> THEN <<def.of, new>> ELSE d
        Decl(d) == [name |-> d.name,
                    ops |-> IF d.name = def.of THEN {Swap(o) : o \in d.ops} ELSE d.ops]
    IN CASE def.kind = "op" ->
              [t EXCEPT !.decls = [i \in Indices(t) |-> Decl(t.decls[i])],
                        !.dots = {Op(d) : d \in t.dots}]
         [] def.kind = "import" ->
              [t EXCEPT !.uses = {IF use = <<def.of, def.name>> THEN <<def.of, new>>
                                  ELSE use : use \in t.uses},
                        !.calls = {Swap(n) : n \in t.calls},
                        !.dots = {<<Swap(d[1]), d[2]>> : d \in t.dots}]
         [] OTHER ->
              [t EXCEPT !.decls = [i \in Indices(t) |->
                                      [t.decls[i] EXCEPT !.name = Swap(t.decls[i].name)]],
                        !.calls = {Swap(n) : n \in t.calls},
                        !.dots = {<<Swap(d[1]), d[2]>> : d \in t.dots}]

=============================================================================
