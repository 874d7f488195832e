---------------------------- MODULE CompiledCode ----------------------------
(***************************************************************************)
(* The code generated for a lowered function, in two readings.  Emits is    *)
(* what its instructions do to the types on the operand stack, which is     *)
(* what the validator replays over a finished module; Run is what they do   *)
(* when they are executed.                                                  *)
(*                                                                          *)
(* A value of the run is a word: a number, a Boolean (narrower, and only on *)
(* the stack), a piece of text, or the block of memory an address leads to. *)
(* A block is a sequence of words: a list has its length first, a choice    *)
(* its tag, a record neither.  A type with no representation takes a word   *)
(* of memory and nothing of the stack.  Addresses, and room running out,    *)
(* are the modules PushWalks and CompiledScopes.                            *)
(***************************************************************************)
EXTENDS Lowering

\* What a value of a type is on the stack.
Width(t) == CASE t = Unit -> <<>> [] t = Bool -> <<"i32">> [] OTHER -> <<"i64">>

-----------------------------------------------------------------------------
(* The operand stack.  After a `return` or a trap the rest of a block is    *)
(* never reached, and may take from an empty stack whatever it likes.       *)
Opening == [ok |-> TRUE, dead |-> FALSE, on |-> <<>>]
Pushed(st, t) == [st EXCEPT !.on = @ \o Width(t)]
Dropped(st) == IF st.on = <<>> THEN [st EXCEPT !.ok = @ /\ st.dead] ELSE [st EXCEPT !.on = Front(@)]
Popped(st, t) ==
    IF Width(t) = <<>> THEN st
    ELSE [Dropped(st) EXCEPT !.ok = @ /\ (st.on = <<>> \/ Last(st.on) = Width(t)[1])]
Dead(st) == [st EXCEPT !.dead = TRUE, !.on = <<>>]
\* A nested block leaves what it declared and nothing else.
Closed(st, t) == Popped(st, t).ok /\ Popped(st, t).on = <<>>

RECURSIVE Emits(_, _, _)
EmitsAll(ms, st, ret) == FoldLeft(LAMBDA soFar, m : Emits(m, soFar, ret), st, ms)
Taken(st, types) == FoldRight(LAMBDA t, soFar : Popped(soFar, t), types, st)
TypesOf(ms) == [i \in DOMAIN ms |-> ms[i].ty]
Emits(m, st, ret) ==
    LET all == EmitsAll(m.of, st, ret)
        first == Emits(m.of[1], st, ret)
        \* A word of memory is written where there is something to write.
        stored == FoldLeft(LAMBDA soFar, one :
                    IF one.ty = Unit THEN soFar ELSE Popped(Emits(one, soFar, ret), one.ty), st, m.of)
        Nested(ms, t) == Closed(EmitsAll(ms, Opening, ret), t)
        looped == EmitsAll(Tail(m.of), Popped(Emits(m.of[1], Opening, ret), Bool), ret)
        after == Popped(first, Bool)
    IN  CASE m.is = "unit" -> st
          [] m.is \in {"const", "number", "local"} -> Pushed(st, m.ty)
          [] m.is = "not" -> Pushed(Popped(all, Bool), Bool)
          [] m.is = "binary" ->
                LET t == CASE m.what \in {"&&", "||"} -> Bool [] m.what = "==" -> m.of[1].ty [] OTHER -> Int64
                IN  Pushed(Popped(Popped(all, t), t), m.ty)
          [] m.is = "call" ->
                LET takes == Signatures[m.what.name].takes
                IN  Pushed(Taken(all, [i \in DOMAIN takes |-> Written(takes[i], m.what.bindings)]), m.ty)
          [] m.is \in {"make", "list"} -> Pushed(stored, Int64)
          [] m.is = "get" -> Pushed(IF m.ty = Unit THEN Dropped(all) ELSE Popped(all, Int64), m.ty)
          [] m.is = "discriminant" -> Pushed(Popped(all, Int64), Int64)
          [] m.is = "element" -> Pushed(Popped(Popped(all, Int64), Int64), m.ty)
          [] m.is = "runtime" -> Pushed(Taken(all, TypesOf(m.of)), m.ty)
          [] m.is = "if" ->
                [Pushed(after, m.ty) EXCEPT
                    !.ok = @ /\ Nested(<<m.of[2]>>, m.ty) /\ Nested(<<m.of[3]>>, m.ty)]
          [] m.is = "block" -> all
          [] m.is = "assign" -> Popped(first, m.ty)
          [] m.is = "discard" -> IF m.of[1].ty = Unit THEN first ELSE Dropped(first)
          [] m.is = "return" -> Dead(Popped(first, ret))
          [] m.is = "fail" -> Dead(st)
          [] m.is = "while" -> [st EXCEPT !.ok = @ /\ looped.ok]
Validates(image) == Closed(Emits(image.body, Opening, image.ret), image.ret)

-----------------------------------------------------------------------------
(* Running it.  An outcome is one of the interpreter's, with the slots as   *)
(* they were left.                                                          *)
Ran(flow, v, slots) == [flow |-> flow, value |-> v, log |-> <<>>, slots |-> slots]
Going(v, slots) == Ran("value", v, slots)
After(o, Next(_)) ==
    IF o.flow # "value" THEN o
    ELSE LET next == Next(o) IN [next EXCEPT !.log = o.log \o @]

Block(words) == V("block", 0, "", words)
Zero == IntV(0)
Widened(v) == IF v.is = "bool" THEN IntV(IF IsTrue(v) THEN 1 ELSE 0) ELSE IF v = UnitV THEN Zero ELSE v
WordAt(v, i) == IF i \in DOMAIN v.of THEN v.of[i] ELSE Zero
Loaded(v, i, t) ==
    CASE t = Unit -> UnitV [] t = Bool -> BoolV(WordAt(v, i).n # 0) [] OTHER -> WordAt(v, i)
Header(m) == CASE m.is = "list" -> <<IntV(Len(m.of))>>
               [] m.is = "make" -> IF Tagged(m.ty) THEN <<IntV(m.variant - 1)>> ELSE <<>>

\* What the runtime functions answer.
ListOfWords(words) == Block(<<IntV(Len(words))>> \o words)
Answered(name, vs) ==
    CASE name = "length" -> vs[1].of[1]
      [] name = "at" ->
            IF vs[2].n \in 0..(Len(vs[1].of) - 2) THEN Block(<<Zero, vs[1].of[vs[2].n + 2]>>)
            ELSE Block(<<IntV(1), StrV("outside")>>)
      [] name = "push" -> ListOfWords(Append(Tail(vs[1].of), Widened(vs[2])))

RECURSIVE Run(_, _, _)
\* The values of some expressions, one after the other; `Takes` says which run.
RunSome(ms, slots, images, Takes(_)) ==
    FoldLeft(LAMBDA soFar, m : After(soFar, LAMBDA o :
                IF ~Takes(m) THEN Going(ListV(Append(o.value.of, UnitV)), o.slots)
                ELSE After(Run(m, o.slots, images), LAMBDA one : Going(ListV(Append(o.value.of, one.value)), one.slots))),
             Going(ListV(<<>>), slots), ms)
RunAll(ms, slots, images) == RunSome(ms, slots, images, LAMBDA m : TRUE)

RECURSIVE Loop(_, _, _)
Loop(m, slots, images) ==
    After(Run(m.of[1], slots, images), LAMBDA test :
        IF ~IsTrue(test.value) THEN Going(UnitV, test.slots)
        ELSE After(RunAll(Tail(m.of), test.slots, images), LAMBDA turn : Loop(m, turn.slots, images)))

\* Two values are equal where they hold the same, whatever the shape.
Operated(op, l, r) ==
    CASE op = "==" -> Done(BoolV(l = r))
      [] op = "&&" -> Done(BoolV(IsTrue(l) /\ IsTrue(r)))
      [] op = "||" -> Done(BoolV(IsTrue(l) \/ IsTrue(r)))
      [] OTHER -> Calculated(op, l.n, r.n)

\* The body over its arguments; a `return` ends here.
Called(callee, vs, images) ==
    LET image == images[callee]
        slots == [s \in {Slot(x) : x \in ToSet(image.params)} |->
                    vs[CHOOSE i \in DOMAIN image.params : Slot(image.params[i]) = s]]
        Ending(o) == [flow |-> IF o.flow = "return" THEN "value" ELSE o.flow,
                      value |-> IF o.flow \in {"value", "return"} THEN o.value ELSE UnitV, log |-> o.log]
    IN  Ending(Run(image.body, slots, images))

Run(m, slots, images) ==
    LET all == RunAll(m.of, slots, images)
        first == Run(m.of[1], slots, images)
    IN  CASE m.is = "unit" -> Going(UnitV, slots)
          [] m.is = "const" -> Going(m.what, slots)
          [] m.is = "number" -> Going(IntV(m.what), slots)
          [] m.is = "local" -> Going(IF m.ty = Unit THEN UnitV ELSE slots[m.what], slots)
          [] m.is = "not" -> After(first, LAMBDA o : Going(BoolV(~IsTrue(o.value)), o.slots))
          [] m.is = "binary" -> After(all, LAMBDA o :
                LET done == Operated(m.what, o.value.of[1], o.value.of[2])
                IN  Ran(done.flow, done.value, o.slots))
          [] m.is = "call" -> After(all, LAMBDA o :
                [slots |-> o.slots] @@ Called(m.what, o.value.of, images))
          \* What has no representation is not evaluated where it would be stored.
          [] m.is \in {"make", "list"} ->
                After(RunSome(m.of, slots, images, LAMBDA one : one.ty # Unit), LAMBDA o :
                    Going(Block(Header(m) \o [i \in DOMAIN m.of |-> Widened(o.value.of[i])]), o.slots))
          [] m.is = "get" -> After(first, LAMBDA o :
                Going(Loaded(o.value, m.field + (IF Tagged(m.layout) THEN 1 ELSE 0), m.ty), o.slots))
          [] m.is = "discriminant" -> After(first, LAMBDA o :
                Going(IF Tagged(m.layout) THEN WordAt(o.value, 1) ELSE Zero, o.slots))
          [] m.is = "element" -> After(all, LAMBDA o :
                Going(Loaded(o.value.of[1], o.value.of[2].n + 2, m.ty), o.slots))
          [] m.is = "runtime" -> After(all, LAMBDA o :
                IF m.what = "note" THEN [Going(UnitV, o.slots) EXCEPT !.log = <<o.value.of[1].n>>]
                ELSE Going(Answered(m.what, o.value.of), o.slots))
          [] m.is = "if" -> After(first, LAMBDA o :
                Run(m.of[IF IsTrue(o.value) THEN 2 ELSE 3], o.slots, images))
          [] m.is = "block" -> After(all, LAMBDA o : Going(Last(o.value.of), o.slots))
          [] m.is = "assign" -> After(first, LAMBDA o : Going(UnitV, With(o.slots, m.what, o.value)))
          [] m.is = "discard" -> After(first, LAMBDA o : Going(UnitV, o.slots))
          [] m.is = "return" -> After(first, LAMBDA o : Ran("return", o.value, o.slots))
          [] m.is = "fail" -> Ran(m.what, UnitV, slots)
          [] m.is = "while" -> Loop(m, slots, images)

-----------------------------------------------------------------------------
(* The value a word stands for, at a type: what the two engines share.      *)
RECURSIVE Meaning(_, _)
Meaning(v, t) ==
    LET tagged == Tagged(t)
        variant == Layout(t)[IF tagged THEN v.of[1].n + 1 ELSE 1]
        held(i) == Meaning(Loaded(v, i + (IF tagged THEN 1 ELSE 0), variant.fields[i].ty), variant.fields[i].ty)
        fields == [i \in DOMAIN variant.fields |-> held(i)]
    IN  CASE t.is = "List" -> ListV([i \in 1..(Len(v.of) - 1) |-> Meaning(Loaded(v, i + 1, t.of[1]), t.of[1])])
          [] t.is = "Result" -> Carrier(variant.name, fields[1])
          [] IsAggregate(t) -> MadeV(variant.name, fields)
          [] OTHER -> v

\* And the word a value is passed as.
RECURSIVE Represented(_, _)
Represented(v, t) ==
    LET at == Only(VariantOf(t, IF t.is = "Result" THEN v.is ELSE v.name))
        fields == Layout(t)[at].fields
        tag == IF Tagged(t) THEN <<IntV(at - 1)>> ELSE <<>>
    IN  CASE t.is = "List" -> ListOfWords([i \in DOMAIN v.of |-> Widened(Represented(v.of[i], t.of[1]))])
          [] IsAggregate(t) -> Block(tag \o [i \in DOMAIN fields |-> Widened(Represented(v.of[i], fields[i].ty))])
          [] OTHER -> v
=============================================================================
