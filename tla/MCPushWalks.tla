---------------------------- MODULE MCPushWalks ----------------------------
(***************************************************************************)
(* Walks over up to three elements, 1 or 0, which decide the branch taken.  *)
(* Every body that is one list, two in the arms of an `if`, and each of     *)
(* these after keeping some list; and the same for records of two fields.   *)
(* `Holder { out }` may hold the accumulator wherever a list walk can put   *)
(* it, and the field it is written to in a record walk.  Left out is        *)
(*     Parts { a: push(out.a, x), b: Holder { out }.out.a }                 *)
(* the field of another entry: the code counts no mention there, so it      *)
(* pushes onto `a` in place while `b` holds it, and the walk is no fold.    *)
(***************************************************************************)
EXTENDS PushWalks

MCFieldNames == <<"a", "b">>
Kind(k) == [kind |-> k]
Push(list, value) == [kind |-> "push", on |-> list, value |-> value]
Size(list) == [kind |-> "length", of |-> list]
Grow(list) == [kind |-> "grow", of |-> list]
Element == Kind("element")
Shorthand == Kind("shorthand")
ShorthandField(f) == [kind |-> "shorthandField", field |-> f]

Tails == {Name, Shorthand, Kind("handed"), Kind("empty"), Grow(Kind("handed")),
          Push(Name, Size(Name))}
   \cup {Push(l, Element) : l \in {Name, Shorthand, Kind("handed"), Push(Name, Element)}}
WithKept == {Kind("kept"), Push(Kind("kept"), Element), Name, Push(Name, Element),
             Push(Name, Size(Kind("kept")))}
Kept == {Name, Shorthand, Grow(Kind("handed")), Push(Name, Element)}
Branched(tails, others) == tails \cup [kind : {"if"}, then : tails, otherwise : others]
Bodies == Branched(Tails, Tails)
   \cup [kind : {"block"}, kept : Kept, tail : Branched(WithKept, WithKept)]

ListWalks == [start : {Kind("empty"), Kind("handed")}, more : {Always, Size(Name)},
              body : Bodies]

Fields(f) == {FieldOf("a"), FieldOf("b"), ShorthandField(f), Kind("handed"),
              Push(FieldOf(f), Element), Push(FieldOf(f), Size(FieldOf(f)))}
Record(a, b) == [kind |-> "record", fields |-> [f \in {"a", "b"} |-> IF f = "a" THEN a ELSE b]]
Records == {Record(a, b) : a \in Fields("a"), b \in Fields("b")}
Rebuilt == {Record(FieldOf("a"), FieldOf("b")), Record(Push(FieldOf("a"), Element), FieldOf("b"))}
RecordWalks == [start : {Record(Kind("empty"), Kind("empty")), Record(Kind("empty"), Kind("handed"))},
                more : {Always, Size(FieldOf("a"))}, body : Branched(Records, Rebuilt)]

MCWalks == ListWalks \cup RecordWalks
MCInputs == {<<>>} \cup [1..3 -> {0, 1}]
MCHanded == {<<7>>}

=============================================================================
