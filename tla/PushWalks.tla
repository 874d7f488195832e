------------------------------ MODULE PushWalks ------------------------------
(***************************************************************************)
(* Lists of a compiled program are blocks of words, [length][element]...,   *)
(* and do not change, with one exception: a walk                            *)
(*     for x in xs with out = start while more { body }                     *)
(* whose accumulator is only ever pushed onto reserves one block and writes *)
(* each push where it stands.  This module has the rule that decides it,    *)
(* read off the source of the body, the lowering that acts on the rule, the *)
(* list operations over memory, and beside them the fold the walk means.    *)
(* A walk carries a list, or a record whose fields are lists.               *)
(***************************************************************************)
EXTENDS Integers, SequencesExt

CONSTANTS
    Walks,         \* the walks to run: [start, more, body]
    Inputs,        \* the lists walked
    Handed,        \* the lists the function may have been handed
    FieldNames,    \* the fields of a record accumulator, in order
    Carried,       \* the number of the accumulator's local
    HelperLocals,  \* the number of the local a called function pushes onto
    Words,         \* how many words of memory there are
    Always         \* stands for no `while` clause

VARIABLES
    walk,      \* the walk under way
    input,     \* the list it walks: its address and its value
    handed,    \* a list its caller still holds
    helper,    \* the function the body calls: its local, and whether the
               \* lowering first reached it from inside the body
    heap,      \* words, BUMP, and how many words were reserved at each address
    at,        \* the counter
    carried,   \* the accumulator: an address, or one for each field
    meant,     \* what the fold carries
    phase      \* "start", "turn" or "done"

vars == <<walk, input, handed, helper, heap, at, carried, meant, phase>>

-----------------------------------------------------------------------------
(***************************************************************************)
(* The rule.  Expressions are                                               *)
(*   name, field, handed, kept   lists the body can name                    *)
(*   shorthand, shorthandField   the same two by way of `Holder { out }`, a *)
(*                               literal that names the accumulator without *)
(*                               an expression for it                       *)
(*   empty, push, grow           lists it makes, `grow` by calling a helper *)
(*   element, length             values                                     *)
(*   if, record, block           `block` binds `kept` before its tail       *)
(***************************************************************************)

\* What each goes on to.  An entry of a literal is visited for its value, and a
\* shorthand entry has none, so `Holder { out }` has nothing under it.
Children(e) ==
    CASE e.kind = "push"   -> <<e.on, e.value>>
      [] e.kind = "if"     -> <<e.then, e.otherwise>>
      [] e.kind \in {"length", "grow"} -> <<e.of>>
      [] e.kind = "record" -> [i \in DOMAIN FieldNames |-> e.fields[FieldNames[i]]]
      [] e.kind = "block"  -> <<e.kept, e.tail>>
      [] e.kind \in {"shorthand", "shorthandField"} -> <<>>
      [] OTHER             -> <<>>

RECURSIVE Each(_)
Each(e) == <<e>> \o FlattenSeq([i \in DOMAIN Children(e) |-> Each(Children(e)[i])])

RECURSIVE Paths(_)
Paths(e) == CASE e.kind = "if"    -> Paths(e.then) \o Paths(e.otherwise)
              [] e.kind = "block" -> Paths(e.tail)
              [] OTHER            -> <<e>>

Name == [kind |-> "name"]
FieldOf(f) == [kind |-> "field", field |-> f]
PushesOnto(e, list) == e.kind = "push" /\ e.on = list

\* Every place the accumulator is in scope.
Places(w) == Each(w.body) \o (IF w.more = Always THEN <<>> ELSE Each(w.more))
Count(places, Is(_)) == Len(SelectSeq(places, Is))
Mentions(w) == Count(Places(w), LAMBDA e : e.kind \in {"name", "field"})
Reads(w, list) == Count(Places(w), LAMBDA e : e = list)
LengthsRead(w, list) == Count(Places(w), LAMBDA e : e = [kind |-> "length", of |-> list])

\* As it would read if any push onto the accumulator counted, wherever it stood.
OnlyInPushes(w) ==
    Mentions(w) = Count(Places(w), LAMBDA e : PushesOnto(e, Name)) + LengthsRead(w, Name)

\* Every path's value is the accumulator or one push onto it, and it is named
\* nowhere else but to read its length.
OnlyPushes(w) ==
    LET values == Paths(w.body)
    IN  /\ \A i \in DOMAIN values : values[i] = Name \/ PushesOnto(values[i], Name)
        /\ Mentions(w) = Len(values) + LengthsRead(w, Name)

\* As it would read if only the entries of the field were looked at.
PushedEntry(w, f) ==
    LET values == Paths(w.body)
        given(i) == values[i].fields[f]
    IN  /\ w.start.fields[f].kind = "empty"
        /\ \A i \in DOMAIN values : given(i) = FieldOf(f) \/ PushesOnto(given(i), FieldOf(f))
        /\ \E i \in DOMAIN values : PushesOnto(given(i), FieldOf(f))

\* The same for one field of a record: it starts empty, every path rebuilds the
\* record with that field or one push onto it, and nothing else reads it.
PushedField(w, f) ==
    LET values == Paths(w.body)
        given(i) == values[i].fields[f]
    IN  /\ w.start.fields[f].kind = "empty"
        /\ \A i \in DOMAIN values : given(i) = FieldOf(f) \/ PushesOnto(given(i), FieldOf(f))
        /\ \E i \in DOMAIN values : PushesOnto(given(i), FieldOf(f))
        /\ Reads(w, FieldOf(f)) = Len(values) + LengthsRead(w, FieldOf(f))
PushedFields(w) ==
    IF /\ w.start.kind = "record" /\ Reads(w, Name) = 0
       /\ \A i \in DOMAIN Paths(w.body) : Paths(w.body)[i].kind = "record"
    THEN {f \in Range(FieldNames) : PushedField(w, f)} ELSE {}

InPlace == walk.start.kind # "record" /\ OnlyPushes(walk)
Reserved == PushedFields(walk)

\* Which pushes write where they stand: those onto the accumulator's local, or
\* onto a field of it that was reserved.
AppendsInPlace(on) ==
    \/ InPlace /\ on = Name
    \/ on.kind = "field" /\ on.field \in Reserved

\* A function met first inside the body is lowered there and then, with what
\* the walk appends to still in force.
HelperAppends == InPlace /\ helper.metInBody /\ helper.local = Carried

-----------------------------------------------------------------------------
(***************************************************************************)
(* List operations.                                                         *)
(***************************************************************************)
Length(h, a) == h.words[a]
List(h, a) == [i \in 1..Length(h, a) |-> h.words[a + i]]
Filled(words, a, s) == [w \in DOMAIN words |-> IF w - a \in DOMAIN s THEN s[w - a] ELSE words[w]]

\* A block of `room` words past the length, holding a list.
Allocated(h, s, room) ==
    [words |-> Filled([h.words EXCEPT ![h.bump] = Len(s)], h.bump, s),
     bump |-> h.bump + 1 + room,
     room |-> h.room @@ (h.bump :> room)]
Extended(h, a, v) == LET s == Append(List(h, a), v) IN Allocated(h, s, Len(s))
WithRoom(h, count) == Allocated(h, <<>>, count)
WithRoomFrom(h, a, extra) == Allocated(h, List(h, a), Length(h, a) + extra)
Appended(h, a, v) ==
    [h EXCEPT !.words[a + 1 + Length(h, a)] = v, !.words[a] = Length(h, a) + 1]

-----------------------------------------------------------------------------
(***************************************************************************)
(* A turn as the interpreter would take it, over lists that are values, and *)
(* as it was compiled, over addresses.  `env` is what the names stand for.  *)
(***************************************************************************)
RECURSIVE Value(_, _)
Value(e, env) ==
    CASE e.kind \in {"name", "shorthand"}       -> env.out
      [] e.kind \in {"field", "shorthandField"} -> env.out[e.field]
      [] e.kind = "handed"  -> env.handed
      [] e.kind = "kept"    -> env.kept
      [] e.kind = "empty"   -> <<>>
      [] e.kind = "element" -> env.element
      [] e.kind = "length"  -> Len(Value(e.of, env))
      [] e.kind = "push"    -> Append(Value(e.on, env), Value(e.value, env))
      [] e.kind = "grow"    -> Append(Value(e.of, env), 0)
      [] e.kind = "if"      -> Value(IF env.element = 1 THEN e.then ELSE e.otherwise, env)
      [] e.kind = "record"  -> [f \in Range(FieldNames) |-> Value(e.fields[f], env)]
      [] e.kind = "block"   -> Value(e.tail, [env EXCEPT !.kept = Value(e.kept, env)])

Got(is, h) == [is |-> is, heap |-> h]
Made(h, next) == Got(h.bump, next)

RECURSIVE Run(_, _, _)
Run(e, env, h) ==
    CASE e.kind \in {"name", "shorthand"}       -> Got(env.out, h)
      [] e.kind \in {"field", "shorthandField"} -> Got(env.out[e.field], h)
      [] e.kind = "handed"  -> Got(env.handed, h)
      [] e.kind = "kept"    -> Got(env.kept, h)
      [] e.kind = "empty"   -> Made(h, Allocated(h, <<>>, 0))
      [] e.kind = "element" -> Got(env.element, h)
      [] e.kind = "length"  -> LET of == Run(e.of, env, h) IN Got(Length(of.heap, of.is), of.heap)
      [] e.kind = "push"    ->
            LET on == Run(e.on, env, h)
                value == Run(e.value, env, on.heap)
            IN  IF AppendsInPlace(e.on) THEN Got(on.is, Appended(value.heap, on.is, value.is))
                ELSE Made(value.heap, Extended(value.heap, on.is, value.is))
      [] e.kind = "grow"    ->
            LET of == Run(e.of, env, h)
            IN  IF HelperAppends THEN Got(of.is, Appended(of.heap, of.is, 0))
                ELSE Made(of.heap, Extended(of.heap, of.is, 0))
      [] e.kind = "if"      -> Run(IF env.element = 1 THEN e.then ELSE e.otherwise, env, h)
      [] e.kind = "record"  ->
            FoldLeft(LAMBDA sofar, f :
                        LET got == Run(e.fields[f], env, sofar.heap)
                        IN  Got(sofar.is @@ (f :> got.is), got.heap),
                     Got(<<>>, h), FieldNames)
      [] e.kind = "block"   ->
            LET kept == Run(e.kept, env, h)
            IN  Run(e.tail, [env EXCEPT !.kept = kept.is], kept.heap)

Env(out, hand, element) == [out |-> out, handed |-> hand, kept |-> 0, element |-> element]
MeantEnv == Env(meant, handed.value, input.value[at + 1])
CompiledEnv == Env(carried, handed.at, heap.words[input.at + 1 + at])

-----------------------------------------------------------------------------
Literal(h, s) == Allocated(h, s, Len(s))

Init ==
    /\ walk \in Walks
    /\ helper \in [local : HelperLocals, metInBody : BOOLEAN]
    /\ \E s \in Inputs, t \in Handed :
          LET none == [words |-> [w \in 1..Words |-> 0], bump |-> 1, room |-> <<>>]
              one == Literal(none, s)
          IN  /\ input = [at |-> none.bump, value |-> s]
              /\ handed = [at |-> one.bump, value |-> t]
              /\ heap = Literal(one, t)
    /\ at = 0 /\ carried = 0 /\ meant = 0 /\ phase = "start"

\* As it would read if a walk that starts from a list appended to that one.
StartInPlace ==
    IF walk.start.kind = "empty" THEN Made(heap, WithRoom(heap, Length(heap, input.at)))
    ELSE Run(walk.start, Env(0, handed.at, 0), heap)

\* The accumulator's first value: reserved, copied into a reserved block, or as
\* the source builds it.
StartOfList ==
    IF ~InPlace THEN Run(walk.start, Env(0, handed.at, 0), heap)
    ELSE IF walk.start.kind = "empty" THEN Made(heap, WithRoom(heap, Length(heap, input.at)))
    ELSE LET from == Run(walk.start, Env(0, handed.at, 0), heap)
         IN  Made(from.heap, WithRoomFrom(from.heap, from.is, Length(from.heap, input.at)))
StartOfRecord ==
    FoldLeft(LAMBDA sofar, f :
                LET got == IF f \in Reserved
                           THEN Made(sofar.heap, WithRoom(sofar.heap, Length(sofar.heap, input.at)))
                           ELSE Run(walk.start.fields[f], Env(0, handed.at, 0), sofar.heap)
                IN  Got(sofar.is @@ (f :> got.is), got.heap),
             Got(<<>>, heap), FieldNames)

Start ==
    /\ phase = "start" /\ phase' = "turn"
    /\ LET got == IF walk.start.kind = "record" THEN StartOfRecord ELSE StartOfList
       IN  carried' = got.is /\ heap' = got.heap
    /\ meant' = Value(walk.start, Env(0, handed.value, 0))
    /\ UNCHANGED <<walk, input, handed, helper, at>>

\* The `while` clause stops a walk that has two elements.
More == /\ at < Length(heap, input.at)
        /\ walk.more # Always => Run(walk.more, Env(carried, handed.at, 0), heap).is < 2
MeansMore == /\ at < Len(input.value)
             /\ walk.more # Always => Value(walk.more, Env(meant, handed.value, 0)) < 2

Turn ==
    /\ phase = "turn" /\ More
    /\ LET got == Run(walk.body, CompiledEnv, heap)
       IN  carried' = got.is /\ heap' = got.heap
    /\ meant' = IF MeansMore THEN Value(walk.body, MeantEnv) ELSE meant
    /\ at' = at + 1
    /\ UNCHANGED <<walk, input, handed, helper, phase>>

End ==
    /\ phase = "turn" /\ ~More /\ phase' = "done"
    /\ UNCHANGED <<walk, input, handed, helper, heap, at, carried, meant>>

Next == Start \/ Turn \/ End
Spec == Init /\ [][Next]_vars

-----------------------------------------------------------------------------
\* The walk is the fold it says: every turn, a compiled walk carries what the
\* interpreter would, however many lists it wrote in place to get there.
Reading == IF walk.start.kind = "record"
           THEN [f \in DOMAIN carried |-> List(heap, carried[f])] ELSE List(heap, carried)
WalkIsAFold == /\ phase # "start" => Reading = meant
               /\ phase = "done" => ~MeansMore

\* Values do not change: the list walked and the list the caller of the
\* function still holds are what they were, whatever the walk wrote.
HeldListsStay == \A held \in {input, handed} : List(heap, held.at) = held.value

\* A push written in place stays inside the block that was reserved: one push a
\* turn, and as much room as the list walked is long.
PushesStayInRoom == \A a \in DOMAIN heap.room : Length(heap, a) <= heap.room[a]

=============================================================================
