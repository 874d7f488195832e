------------------------------ MODULE Lowering ------------------------------
(***************************************************************************)
(* What the compiled backend makes of a checked function: a tree over slots *)
(* and laid-out values, with no refinements, no `match` and no `?` left.    *)
(* It asks no question again: the type of an expression is what the checker *)
(* recorded at its place, and a check is written where the checker left     *)
(* something owed.                                                          *)
(*                                                                          *)
(* A layout is named by its type, refinements read as what they are over.   *)
(* Something this has no answer for is a Refusal, and a function holding    *)
(* one is not built.  Left out: the walk that pushes in place (the module   *)
(* PushWalks) and a generic choice used at two instances in one program,    *)
(* where which layout a bare variant is given depends on which was met      *)
(* first.                                                                   *)
(***************************************************************************)
EXTENDS Checking

\* `what` is a constant, a slot, an operator, a runtime function or a callee.
Mir(is, ty, of) ==
    [is |-> is, ty |-> ty, of |-> of, what |-> "", layout |-> None, variant |-> 0, field |-> 0]
Nil == Mir("unit", Unit, <<>>)
Refusal == Mir("unlowered", None, <<>>)
Slot(x) == [name |-> x, at |-> <<>>]
Temp(x, p) == [name |-> x, at |-> p]
Local(slot, ty) == [Mir("local", ty, <<>>) EXCEPT !.what = slot]
SetSlot(slot, ty, value) == [Mir("assign", ty, <<value>>) EXCEPT !.what = slot]
Seq1(stmts, value) == Mir("block", value.ty, Append(stmts, value))
Apply(op, ty, operands) == [Mir("binary", ty, operands) EXCEPT !.what = op]
Number(n) == [Mir("number", Int64, <<>>) EXCEPT !.what = n]
Runtime(name, ty, args) == [Mir("runtime", ty, args) EXCEPT !.what = name]
Make(layout, variant, fields) == [Mir("make", layout, fields) EXCEPT !.variant = variant]
Choose(condition, then, else, ty) == Mir("if", ty, <<condition, then, else>>)
Failing(kind) == Seq1(<<[Mir("fail", Unit, <<>>) EXCEPT !.what = kind]>>, Nil)

RECURSIVE Lowers(_)
Lowers(m) == ~Mentions(m.ty, {"none"}) /\ \A i \in DOMAIN m.of : Lowers(m.of[i])

-----------------------------------------------------------------------------
(* Types and layouts.                                                      *)
RECURSIVE Written(_, _)
Written(t, bindings) ==
    CASE t.is \in DOMAIN bindings -> bindings[t.is]
      [] t.is \in DOMAIN Refinements -> Written(Refinements[t.is].base, bindings)
      [] OTHER -> [t EXCEPT !.of = [i \in DOMAIN @ |-> Written(@[i], bindings)]]

\* A half of a `Result` nothing settled is read off the function's own answer,
\* whatever that is a `Result` of, and otherwise off what it is compared with.
RECURSIVE Convert(_, _)
TypeArgument(t, c) == IF t = Unknown THEN Int64 ELSE Convert(t, c)
Convert(t, c) ==
    LET context == {i \in {1, 2} : <<c.ret, c.expected>>[i].is = "Result"}
        nearest == <<c.ret, c.expected>>[CHOOSE i \in context : \A j \in context : i <= j]
        args == [t EXCEPT !.of = [i \in DOMAIN @ |-> TypeArgument(@[i], c)]]
    IN  CASE t.is \in Params -> IF t.is \in DOMAIN c.bindings THEN c.bindings[t.is] ELSE None
          [] t.is \in DOMAIN Refinements -> Convert(Refinements[t.is].base, c)
          [] t.is = "Result" /\ Unknown \in ToSet(t.of) /\ context # {} -> nearest
          [] t = Never -> Unit
          [] t = Unknown -> None
          [] OTHER -> args
TypeAt(p, c) == IF p \in DOMAIN c.types THEN Convert(c.types[p], c) ELSE None

InOrder(choice) ==
    [i \in 1..Cardinality(Variants(choice)) |-> CHOOSE v \in Variants(choice) : Shapes[v].tag = i - 1]
Laid(constructor, layout) ==
    [name |-> constructor,
     fields |-> [i \in DOMAIN Shapes[constructor].fields |->
        [name |-> Shapes[constructor].fields[i].name,
         ty |-> Written(Shapes[constructor].fields[i].ty, Applied(layout))]]]
\* The variants of a layout, in order; a record is one variant of its own name.
Layout(t) ==
    LET half(name, ty) == [name |-> name, fields |-> <<[name |-> "value", ty |-> ty]>>]
    IN  IF t.is = "Result" THEN <<half("ok", t.of[1]), half("err", t.of[2])>>
        ELSE IF IsChoice(t.is) THEN [i \in DOMAIN InOrder(t.is) |-> Laid(InOrder(t.is)[i], t)]
        ELSE IF IsRecord(t.is) THEN <<Laid(t.is, t)>>
        ELSE <<>>
IsAggregate(t) == Layout(t) # <<>>
Tagged(t) == Len(Layout(t)) > 1
VariantOf(layout, name) == {i \in DOMAIN Layout(layout) : Layout(layout)[i].name = name}
Only(S) == CHOOSE x \in S : TRUE

Get(step, value) ==
    [Mir("get", Layout(step.layout)[step.variant].fields[step.field].ty, <<value>>) EXCEPT
        !.layout = step.layout, !.variant = step.variant, !.field = step.field]
Step(layout, variant, field) == [layout |-> layout, variant |-> variant, field |-> field]
Is(layout, slot, variant) ==
    Apply("==", Bool, <<[Mir("discriminant", Int64, <<Local(slot, layout)>>) EXCEPT !.layout = layout],
                        Number(variant - 1)>>)

-----------------------------------------------------------------------------
(* Patterns: the variants one names, and the fields its names are bound to. *)
(* A pattern inside a pattern has to hold always, an arm having one test.   *)
RECURSIVE ArmPattern(_, _)
NoArm == [named |-> {}, binds |-> <<>>, fine |-> FALSE]
Naming(at) == [NoArm EXCEPT !.named = at, !.fine = at # {}]
Binding(arm, name, step) == [arm EXCEPT !.binds = Append(@, [name |-> name, path |-> <<step>>])]
Deeper(arm, within, step, variants) ==
    [arm EXCEPT !.binds = @ \o [i \in DOMAIN within.binds |-> [within.binds[i] EXCEPT !.path = <<step>> \o @]],
                !.fine = @ /\ within.fine /\ within.named = DOMAIN variants]
Inside(arm, inner, step, ty) ==
    CASE inner.is = "wild" -> arm
      [] inner.is = "bind" -> Binding(arm, inner.name, step)
      [] OTHER -> Deeper(arm, ArmPattern(inner, ty), step, Layout(ty))
EntryIn(arm, one, layout, at, fields, i) ==
    LET step == Step(layout, at, Only(i))
    IN  IF i = {} THEN NoArm
        ELSE IF one.of = <<>> THEN Binding(arm, one.name, step)
        ELSE Inside(arm, Label(one), step, fields[Only(i)].ty)
EntriesIn(arm, entries, layout, at, fields) ==
    FoldLeft(LAMBDA soFar, one :
                EntryIn(soFar, one, layout, at, fields, {j \in DOMAIN fields : fields[j].name = one.name}),
             arm, entries)
Either(each) ==
    [NoArm EXCEPT !.named = UNION {one.named : one \in each}, !.fine = \A one \in each : one.fine]
ArmOf(pattern, layout, variants, at) ==
    CASE pattern.is = "wild" -> Naming(DOMAIN variants)
      [] pattern.is \in {"bare", "bind"} -> Naming(at)
      [] pattern.is = "oneof" -> Either({ArmPattern(pattern.of[i], layout) : i \in DOMAIN pattern.of})
      [] pattern.is \in {"ok", "err"} /\ at # {} ->
            Inside(Naming(at), Label(pattern), Step(layout, Only(at), 1), variants[Only(at)].fields[1].ty)
      [] pattern.is = "fields" /\ at # {} ->
            EntriesIn(Naming(at), pattern.of, layout, Only(at), variants[Only(at)].fields)
      [] OTHER -> NoArm
ArmPattern(pattern, layout) ==
    ArmOf(pattern, layout, Layout(layout),
          VariantOf(layout, IF pattern.is \in {"ok", "err"} THEN pattern.is ELSE pattern.name))

\* What the names of a pattern are read into, and the scope with them in it.
Reading(held, path) == FoldLeft(LAMBDA value, step : Get(step, value), held, path)
Bindings(arm, held) ==
    [i \in DOMAIN arm.binds |->
        LET read == Reading(held, arm.binds[i].path)
        IN  SetSlot(Slot(arm.binds[i].name), read.ty, read)]
Scoped(c, arm, held) ==
    FoldLeft(LAMBDA scope, one : [scope EXCEPT !.slots = With(@, one.name, Reading(held, one.path).ty)],
             c, arm.binds)

-----------------------------------------------------------------------------
(* Expressions.  `c` is the function they stand in: what was recorded and   *)
(* is owed in it, its slots, what it returns and what its parameters of     *)
(* type stand for.                                                          *)
RECURSIVE Lower(_, _, _)
LowerAll(e, p, c) == [i \in DOMAIN e.of |-> Lower(e.of[i], p \o <<i>>, c)]

\* The value held, the predicate run against it, and the run ended unless it holds.
Predicate(guard, c, subject, ty) ==
    Lower(Refinements[guard.refinement].where, <<>>,
        [c EXCEPT !.types = c.checked[guard.refinement].types, !.guards = <<>>,
                  !.subject = [slot |-> subject, ty |-> ty]])
Tested(guard, c, subject, read) ==
    <<SetSlot(subject, read.ty, read),
      Mir("discard", Unit,
          <<Choose(Predicate(guard, c, subject, read.ty), Nil, Failing("refinement"), Unit)>>)>>
OnlyInside(held, ok, test) ==
    <<Mir("discard", Unit, <<Choose(Is(held.ty, held.what, ok), Seq1(test, Nil), Nil, Unit)>>)>>
CheckedBy(guard, value, held, subject, ok, c) ==
    IF ~guard.inside
    THEN Seq1(<<SetSlot(held.what, held.ty, value)>> \o Tested(guard, c, subject, held), held)
    ELSE IF ok = {} THEN Refusal
    ELSE Seq1(<<SetSlot(held.what, held.ty, value)>>
                  \o OnlyInside(held, Only(ok), Tested(guard, c, subject, Get(Step(held.ty, Only(ok), 1), held))),
              held)
Checked(guard, value, p, c) ==
    LET held == Local(Temp("held", p), TypeAt(p, c))
    IN  CheckedBy(guard, value, held, Temp("value", p), VariantOf(held.ty, "ok"), c)

Destructured(c, value, held, arm, ty) ==
    IF ~arm.fine \/ arm.named # DOMAIN Layout(ty) THEN [stmts |-> <<Refusal>>, c |-> c]
    ELSE [stmts |-> <<SetSlot(held.what, ty, value)>> \o Bindings(arm, held), c |-> Scoped(c, arm, held)]
LetOf(pattern, p, c, ty, value) ==
    CASE pattern.is = "bind" ->
            [stmts |-> <<SetSlot(Slot(pattern.name), ty, value)>>,
             c |-> [c EXCEPT !.slots = With(@, pattern.name, ty)]]
      [] pattern.is = "wild" -> [stmts |-> <<SetSlot(Temp("let", p), ty, value)>>, c |-> c]
      [] OTHER -> Destructured(c, value, Local(Temp("let", p), ty), ArmPattern(pattern, ty), ty)
LowerLet(stmt, p, c) ==
    LetOf(Label(stmt), p, c, TypeAt(p \o <<2>>, c), Lower(stmt.of[2], p \o <<2>>, c))
LowerStmt(stmt, p, c) ==
    LET value == IF stmt.of = <<>> THEN Nil ELSE Lower(stmt.of[1], p \o <<1>>, c)
    IN  CASE stmt.is = "let" -> LowerLet(stmt, p, c)
          [] stmt.is = "expr" -> [stmts |-> <<Mir("discard", Unit, <<value>>)>>, c |-> c]
          [] stmt.is = "return" -> [stmts |-> <<Mir("return", Unit, <<value>>)>>, c |-> c]

RECURSIVE LowerFrom(_, _, _, _, _)
LowerFrom(block, i, p, c, stmts) ==
    IF i > Len(block.of) THEN Seq1(stmts, Nil)
    ELSE IF block.of[i].is = "tail"
    THEN Seq1(stmts, Lower(Label(block.of[i]), p \o <<i, 1>>, c))
    ELSE LET one == LowerStmt(block.of[i], p \o <<i>>, c)
         IN  LowerFrom(block, i + 1, p, one.c, stmts \o one.stmts)
LowerBlock(block, p, c) == LowerFrom(block, 1, p, c, <<>>)

LowerIfAsStatement(e, p, c) ==
    Choose(Lower(e.of[1], p \o <<1>>, c), LowerBlock(e.of[2], p \o <<2>>, c),
           IF Len(e.of) = 2 THEN Nil ELSE Lower(e.of[3], p \o <<3>>, c), Unit)
\* The type of an `if` is what was recorded at the tail of its first block.
LowerIf(e, p, c) ==
    LET last == Len(e.of[2].of)
        tailed == last > 0 /\ e.of[2].of[last].is = "tail"
    IN  Choose(Lower(e.of[1], p \o <<1>>, c), LowerBlock(e.of[2], p \o <<2>>, c),
               IF Len(e.of) = 2 THEN Nil ELSE Lower(e.of[3], p \o <<3>>, c),
               IF tailed THEN TypeAt(p \o <<2, last, 1>>, c) ELSE Unit)

\* A chain of tests on the discriminant, each arm over the chain below it.
Tests(held, named) ==
    LET each == SetToSeq({Is(held.ty, held.what, v) : v \in named})
    IN  FoldLeft(LAMBDA l, r : Apply("||", Bool, <<l, r>>), Head(each), Tail(each))
Armed(arm, body, held, below, ty) ==
    CASE ~arm.fine -> Refusal
      [] arm.named = DOMAIN Layout(held.ty) -> body
      [] OTHER -> Choose(Tests(held, arm.named), body, below, ty)
LowerArm(arm, e, p, c, held, below, ty) ==
    Armed(arm, Seq1(Bindings(arm, held), Lower(e, p, Scoped(c, arm, held))), held, below, ty)
LowerChain(e, p, c, held, ty) ==
    FoldRight(LAMBDA i, below :
                LowerArm(ArmPattern(Label(e.of[i]), held.ty), e.of[i].of[2], p \o <<i, 2>>, c, held, below, ty),
              [i \in 1..(Len(e.of) - 1) |-> i + 1], Failing("stuck"))
LowerMatch(e, p, c) ==
    LET held == Local(Temp("match", p), TypeAt(p \o <<1>>, c))
    IN  IF ~IsAggregate(held.ty) THEN Refusal
        ELSE Seq1(<<SetSlot(held.what, held.ty, Lower(e.of[1], p \o <<1>>, c))>>,
                  LowerChain(e, p, c, held, TypeAt(p \o <<2, 2>>, c)))

\* A failure is built again, in what the enclosing function answers.
LowerTry(e, p, c) ==
    LET layout == TypeAt(p \o <<1>>, c)
        held == Local(Temp("try", p), layout)
        rebuilt == Make(c.ret, Only(VariantOf(c.ret, "err")), <<Get(Step(layout, 2, 1), held)>>)
    IN  IF {} \in {VariantOf(layout, "err"), VariantOf(c.ret, "err")} THEN Refusal
        ELSE Seq1(<<SetSlot(held.what, layout, Lower(Label(e), p \o <<1>>, c)),
                    Mir("discard", Unit, <<Choose(Is(layout, held.what, 2),
                        Seq1(<<Mir("return", Unit, <<rebuilt>>)>>, Nil), Nil, Unit)>>)>>,
                  Get(Step(layout, 1, 1), held))

\* A counter, a bound, and a body that binds what is carried again.
LowerFor(e, p, c) ==
    LET ty == TypeAt(p \o <<1>>, c)
        list == Local(Temp("list", p), ty)
        counter == Local(Temp("counter", p), Int64)
        with == e.of[2]
        carriedTy == IF with = Absent THEN Unit ELSE TypeAt(p \o <<2, 1>>, c)
        carried == IF with = Absent THEN Temp("carried", p) ELSE Slot(with.name)
        walking == [c EXCEPT !.slots = With(@, e.name, ty.of[1])]
        inner == IF with = Absent THEN walking
                 ELSE [walking EXCEPT !.slots = With(@, with.name, carriedTy)]
        more == Apply("<", Bool, <<counter, Runtime("length", Int64, <<list>>)>>)
        going == IF e.of[3] = Absent THEN more
                 ELSE Apply("&&", Bool, <<more, Lower(e.of[3], p \o <<3>>, inner)>>)
        turn == <<SetSlot(Slot(e.name), ty.of[1], Mir("element", ty.of[1], <<list, counter>>)),
                  SetSlot(carried, carriedTy, LowerBlock(e.of[4], p \o <<4>>, inner)),
                  SetSlot(counter.what, Int64, Apply("+", Int64, <<counter, Number(1)>>))>>
    IN  IF ty.is # "List" THEN Refusal
        ELSE Seq1(<<SetSlot(list.what, ty, Lower(e.of[1], p \o <<1>>, c)),
                    SetSlot(counter.what, Int64, Number(0)),
                    SetSlot(carried, carriedTy,
                            IF with = Absent THEN Nil ELSE Lower(Label(with), p \o <<2, 1>>, c)),
                    Mir("while", Unit, <<going>> \o turn)>>,
                  Local(carried, carriedTy))

\* A declared function, a copy of it for each set of type arguments, or the runtime.
LowerCall(e, p, c) ==
    LET args == LowerAll(e, p, c)
        ty == TypeAt(p, c)
        signature == Signatures[e.name]
        found == FoldLeft(LAMBDA soFar, i : Bind(signature.takes[i], TypeAt(p \o <<i>>, c), soFar),
                          <<>>, [i \in DOMAIN e.of |-> i])
        bindings == IF signature.generics
                    THEN [x \in Params |-> IF x \in DOMAIN found THEN found[x] ELSE Int64]
                    ELSE <<>>
    IN  CASE e.name = "note" -> Runtime("note", Unit, args)
          [] e.name \in DOMAIN Signatures ->
                [Mir("call", Written(signature.ret, bindings), args) EXCEPT
                    !.what = [name |-> e.name, bindings |-> bindings]]
          [] e.name \in {"ok", "err"} ->
                IF ty.is # "Result" THEN Refusal ELSE Make(ty, Only(VariantOf(ty, e.name)), args)
          [] OTHER -> Runtime(e.name, ty, args)

LowerLiteralAsWritten(e, p, c) ==
    LET layout == TypeAt(p, c)
        at == Only(VariantOf(layout, e.name))
    IN  IF VariantOf(layout, e.name) = {} THEN Refusal
        ELSE Make(layout, at, [j \in DOMAIN e.of |-> Lower(Label(e.of[j]), p \o <<j, 1>>, c)])
\* The fields in the order they are declared.
LowerLiteral(e, p, c) ==
    LET layout == TypeAt(p, c)
        at == Only(VariantOf(layout, e.name))
        declared == Layout(layout)[at].fields
        written(i) == CHOOSE j \in DOMAIN e.of : e.of[j].name = declared[i].name
        value(j) == IF e.of[j].of = <<>> THEN Local(Slot(e.of[j].name), c.slots[e.of[j].name])
                    ELSE Lower(Label(e.of[j]), p \o <<j, 1>>, c)
    IN  IF VariantOf(layout, e.name) = {} THEN Refusal
        ELSE Make(layout, at, [i \in DOMAIN declared |-> value(written(i))])

LowerField(e, p, c) ==
    LET layout == TypeAt(p \o <<1>>, c)
        places == {s \in [layout : {layout}, variant : DOMAIN Layout(layout), field : 1..2] :
                    /\ s.field \in DOMAIN Layout(layout)[s.variant].fields
                    /\ Layout(layout)[s.variant].fields[s.field].name = e.name}
        first == CHOOSE s \in places : \A t \in places : s.variant <= t.variant
    IN  IF places = {} THEN Refusal ELSE Get(first, Lower(Label(e), p \o <<1>>, c))

LowerBinary(e, p, c) ==
    LET operand == TypeAt(p \o <<1>>, c)
        right == Lower(e.of[2], p \o <<2>>, [c EXCEPT !.expected = operand])
        ty == IF e.name \in {"+", "/"} THEN Int64 ELSE Bool
    IN  IF e.name \in {"+", "<"} /\ operand # Int64 THEN Refusal
        ELSE Apply(e.name, ty, <<Lower(e.of[1], p \o <<1>>, c), right>>)

LowerRaw(e, p, c) ==
    LET layout == TypeAt(p, c)
    IN  CASE IsLiteral(e) ->
                [Mir("const", CASE e.is = "int" -> Int64 [] e.is = "bool" -> Bool
                                [] e.is = "str" -> Str [] e.is = "unit" -> Unit, <<>>) EXCEPT !.what = Literal(e)]
          [] e.is = "name" ->
                IF e.name \in DOMAIN c.slots THEN Local(Slot(e.name), c.slots[e.name])
                ELSE Local(c.subject.slot, c.subject.ty)
          [] e.is = "bare" ->
                IF VariantOf(layout, e.name) = {} \/ Shapes[e.name].fields # <<>> THEN Refusal
                ELSE Make(layout, Only(VariantOf(layout, e.name)), <<>>)
          [] e.is = "field" -> LowerField(e, p, c)
          [] e.is = "call" -> LowerCall(e, p, c)
          [] e.is = "list" ->
                Mir("list", ListOf(IF e.of = <<>> THEN Unit ELSE TypeAt(p \o <<1>>, c)), LowerAll(e, p, c))
          [] e.is = "literal" -> LowerLiteral(e, p, c)
          [] e.is = "not" -> Mir("not", Bool, LowerAll(e, p, c))
          [] e.is = "binary" -> LowerBinary(e, p, c)
          [] e.is = "try" -> LowerTry(e, p, c)
          [] e.is = "if" -> LowerIf(e, p, c)
          [] e.is = "match" -> LowerMatch(e, p, c)
          [] e.is = "for" -> LowerFor(e, p, c)
          [] e.is = "block" -> LowerBlock(e, p, c)

Lower(e, p, c) ==
    IF p \in DOMAIN c.guards THEN Checked(c.guards[p], LowerRaw(e, p, c), p, c) ELSE LowerRaw(e, p, c)

\* A function: its slots are its parameters, and what it returns is written.
LowerFn(fn, name, bindings, checked) ==
    LET signature == fn.signature
        slots == [x \in ToSet(signature.params) |->
            Written(signature.takes[CHOOSE i \in DOMAIN signature.params : signature.params[i] = x], bindings)]
        ret == Written(signature.ret, bindings)
    IN  [params |-> signature.params, slots |-> slots, ret |-> ret,
         body |-> Lower(fn.body, <<>>,
            [types |-> checked[name].types, guards |-> checked[name].owed, checked |-> checked,
             slots |-> slots, ret |-> ret, expected |-> Unit, bindings |-> bindings,
             subject |-> [slot |-> Slot("value"), ty |-> None]])]

RECURSIVE CalledIn(_)
CalledIn(m) == UNION {CalledIn(m.of[i]) : i \in DOMAIN m.of} \cup (IF m.is = "call" THEN {m.what} ELSE {})

\* The functions of a module, each built the first time something asks for it.
RECURSIVE LowerAsked(_, _, _, _)
LowerAsked(asked, built, module, checked) ==
    LET next == CHOOSE callee \in asked : TRUE
        More(fn) == LowerAsked((asked \cup CalledIn(fn.body)) \ (DOMAIN built \cup {next}),
                               With(built, next, fn), module, checked)
    IN  IF asked = {} THEN built
        ELSE More(LowerFn(module[next.name], next.name, next.bindings, checked))
=============================================================================
