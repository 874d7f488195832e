------------------------------- MODULE Types -------------------------------
(***************************************************************************)
(* The types of Deed and what the checker asks of two of them.  There is no *)
(* unification: what nothing said is `Unknown`, which agrees with anything, *)
(* and is filled in where somebody says more.                               *)
(*                                                                          *)
(* A type is [is, of]: a head and the types it is applied to.  The head of  *)
(* a declared type is its name, so a comparison of heads is a comparison of *)
(* declarations.  Function types and capabilities are left out.             *)
(***************************************************************************)
EXTENDS Integers, FiniteSets, SequencesExt

CONSTANTS
    Refinements,   \* name -> [base : a type, where : a literal compared with `value`]
    Shapes,        \* record or variant -> [owner : the type it makes, tag : its place in a choice, fields]
    Generics,      \* record or choice -> the names of its type parameters
    Params         \* the type parameters of all declarations

T(is, of) == [is |-> is, of |-> of]
Int64 == T("Int", <<>>)
Str == T("Str", <<>>)
Bool == T("Bool", <<>>)
Unit == T("Unit", <<>>)
Unknown == T("unknown", <<>>)   \* nothing said what it is
Never == T("never", <<>>)       \* control does not get here
None == T("none", <<>>)         \* not a type: there is none
ResultOf(ok, err) == T("Result", <<ok, err>>)
ListOf(element) == T("List", <<element>>)

Nominal == DOMAIN Refinements \cup DOMAIN Generics
IsRecord(name) == name \in DOMAIN Shapes /\ Shapes[name].owner = name
Variants(choice) == {v \in DOMAIN Shapes : Shapes[v].owner = choice /\ v # choice}
IsChoice(name) == Variants(name) # {}

\* Where a field stands among those of what is made; 0 where it is not one.
Standing(made, field) ==
    LET fields == Shapes[made].fields
    IN  IF \E i \in DOMAIN fields : fields[i].name = field
        THEN CHOOSE i \in DOMAIN fields : fields[i].name = field
        ELSE 0

Absorbs(t) == t \in {Unknown, Never}
Alike(a, b) == a.is = b.is /\ Len(a.of) = Len(b.of)

RECURSIVE Mentions(_, _)
Mentions(t, heads) == t.is \in heads \/ \E i \in DOMAIN t.of : Mentions(t.of[i], heads)

Widen(t) == IF t.is \in DOMAIN Refinements THEN Refinements[t.is].base ELSE t

RECURSIVE Compatible(_, _)
Compatible(actual, expected) ==
    \/ Absorbs(actual) \/ Absorbs(expected)
    \/ /\ Alike(actual, expected)
       /\ \A i \in DOMAIN actual.of : Compatible(actual.of[i], expected.of[i])

\* `carried`, with what it leaves unsaid filled in from `produced`.
RECURSIVE Settled(_, _)
Settled(carried, produced) ==
    IF carried = Unknown THEN (IF Absorbs(produced) THEN carried ELSE produced)
    ELSE IF Alike(carried, produced)
    THEN [carried EXCEPT !.of = [i \in DOMAIN @ |-> Settled(@[i], produced.of[i])]]
    ELSE carried

\* What the parameters in `t` have to be for it to describe `actual`, where
\* `known` did not say already: the first answer is kept.
RECURSIVE Bind(_, _, _)
Bind(t, actual, known) ==
    IF Absorbs(actual) THEN known
    ELSE IF t.is \in Params
    THEN IF t.is \in DOMAIN known THEN known
         ELSE [x \in DOMAIN known \cup {t.is} |-> IF x = t.is THEN actual ELSE known[x]]
    ELSE IF t.is = actual.is \/ {t.is, actual.is} \subseteq Nominal
    THEN FoldLeft(LAMBDA soFar, pair : Bind(pair[1], pair[2], soFar), known, Zip(t.of, actual.of))
    ELSE known

RECURSIVE Substitute(_, _)
Substitute(t, known) ==
    IF t.is \notin Params THEN [t EXCEPT !.of = [i \in DOMAIN @ |-> Substitute(@[i], known)]]
    ELSE IF t.is \in DOMAIN known THEN known[t.is]
    ELSE Unknown

\* What the parameters of a declared type are where it is applied.
Applied(t) ==
    LET names == IF t.is \in DOMAIN Generics THEN Generics[t.is] ELSE <<>>
    IN  [x \in ToSet(names) |-> t.of[CHOOSE i \in DOMAIN names : names[i] = x]]
============================================================================
