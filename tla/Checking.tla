------------------------------ MODULE Checking ------------------------------
(***************************************************************************)
(* The type checker over the same trees.  Checking an expression gives its  *)
(* type, whether it was fine, what it owes (the refinements the run has to  *)
(* check, at the places of the expressions they are about) and the type of  *)
(* every expression in it, which is what the compiler reads.                *)
(*                                                                          *)
(* An expression is checked against the type that was wanted of it, where   *)
(* one was: that type goes down into the branches of an `if`, the arms of a *)
(* `match`, the tail of a block and what a `for` starts as, and anything    *)
(* else is inferred and compared.                                           *)
(*                                                                          *)
(* A refinement is decided here for a literal alone; the intervals that     *)
(* settle more of them are the module Facts, and what they prove a run      *)
(* would have passed.                                                       *)
(***************************************************************************)
EXTENDS Evaluation

CONSTANT Signatures   \* function -> [params, takes, ret, generics]: names, types, type, BOOLEAN

Verdict(ty, fine) == [ty |-> ty, fine |-> fine, owed |-> <<>>, types |-> <<>>]
Nothing == Verdict(Unit, TRUE)
Refused == Verdict(Unit, FALSE)
Over(later, sooner) ==
    [p \in DOMAIN later \cup DOMAIN sooner |-> IF p \in DOMAIN later THEN later[p] ELSE sooner[p]]
\* What `after` found, on top of what `before` did; the type is the second's.
And(before, after) ==
    [ty |-> after.ty, fine |-> before.fine /\ after.fine,
     owed |-> Over(after.owed, before.owed), types |-> Over(after.types, before.types)]
Of(ty, verdict) == [verdict EXCEPT !.ty = ty]
OnlyIf(fine, verdict) == [verdict EXCEPT !.fine = @ /\ fine]
All(verdicts) == FoldLeft(And, Nothing, verdicts)
Recorded(p, verdict) == [verdict EXCEPT !.types = Over([q \in {p} |-> verdict.ty], @)]

-----------------------------------------------------------------------------
(* May `actual` be used where `expected` was wanted?  `e` is the expression *)
(* that makes the value, Absent where nothing in the source names it, and   *)
(* `inside` that the value is the payload of the `ok` at the place.         *)
Owing(p, guard) == [Nothing EXCEPT !.owed = [q \in {p} |-> guard]]
Decides(where, v) ==
    LET term(i) == IF IsLiteral(where.of[i]) THEN Literal(where.of[i]) ELSE v
    IN  Applying(where.name, term(1), term(2)) = Done(BoolV(TRUE))
Discharge(refinement, e, p, inside) ==
    IF ~IsLiteral(e) THEN Owing(p, [refinement |-> refinement, inside |-> inside])
    ELSE IF Decides(Refinements[refinement].where, Literal(e)) THEN Nothing
    ELSE Refused

RECURSIVE AssignCarrying(_, _, _, _, _)
Assign(actual, expected, e, p) == AssignCarrying(actual, expected, e, p, FALSE)

\* The value written inside an `ok` or an `err`, which is where its obligation goes.
ResultParts(e, p, is) ==
    IF e.is = "call" /\ e.name = is THEN [tree |-> Label(e), at |-> p \o <<1>>]
    ELSE [tree |-> Absent, at |-> p]
AssignParts(actual, expected, e, p) ==
    LET ok == ResultParts(e, p, "ok")
        err == ResultParts(e, p, "err")
    IN  And(AssignCarrying(actual.of[1], expected.of[1], ok.tree, ok.at,
                           e # Absent /\ ok.tree = Absent),
            Assign(actual.of[2], expected.of[2], err.tree, err.at))

AssignCarrying(actual, expected, e, p, inside) ==
    IF Compatible(actual, expected) THEN Nothing
    ELSE IF actual.is = "Result" /\ expected.is = "Result" THEN AssignParts(actual, expected, e, p)
    ELSE IF actual.is = "List" /\ expected.is = "List" /\ e.is = "list" /\ e.of # <<>>
    THEN All([i \in DOMAIN e.of |-> Assign(actual.of[1], expected.of[1], e.of[i], p \o <<i>>)])
    ELSE IF expected.is \in DOMAIN Refinements
            /\ Compatible(Widen(actual), Refinements[expected.is].base)
    THEN Discharge(expected.is, e, p, inside)
    ELSE IF Widen(actual) = expected THEN Nothing
    ELSE Refused

-----------------------------------------------------------------------------
(* Patterns: the types of the names they bind, and whether they can match.  *)
RECURSIVE BindPattern(_, _, _)
FieldTy(made, field, ty) ==
    LET i == Standing(made, field)
    IN  IF i = 0 THEN Unknown ELSE Substitute(Shapes[made].fields[i].ty, Applied(Widen(ty)))
BindEntry(soFar, made, entry, ty) ==
    LET held == FieldTy(made, entry.name, ty)
    IN  IF entry.of = <<>> THEN [soFar EXCEPT !.env = With(@, entry.name, held)]
        ELSE BindPattern(soFar, Label(entry), held)
BindPattern(soFar, pattern, ty) ==
    LET widened == Widen(ty)
        inner == IF widened.is # "Result" THEN Unknown
                 ELSE widened.of[IF pattern.is = "ok" THEN 1 ELSE 2]
    IN  CASE pattern.is = "bind" -> [soFar EXCEPT !.env = With(@, pattern.name, ty)]
          [] pattern.is \in {"ok", "err"} ->
                BindPattern([soFar EXCEPT !.fine = @ /\ (widened.is = "Result" \/ Absorbs(widened))],
                            Label(pattern), inner)
          [] pattern.is = "fields" ->
                FoldLeft(LAMBDA got, entry : BindEntry(got, pattern.name, entry, ty),
                         soFar, pattern.of)
          [] OTHER -> soFar

Alternatives(pattern) == IF pattern.is = "oneof" THEN ToSet(pattern.of) ELSE {pattern}
Patterns(arms) == UNION {Alternatives(Label(arms[i])) : i \in DOMAIN arms}

CheckExhaustiveSome(scrutinee, arms) == TRUE
\* Every case has an arm, and no arm takes them all.
CheckExhaustive(scrutinee, arms) ==
    LET widened == Widen(scrutinee)
        tested == Patterns(arms)
        covered == {pattern.name : pattern \in {q \in tested : q.is \in {"bare", "fields"}}}
        heads == {pattern.is : pattern \in tested}
    IN  /\ widened.is = "Result" => heads \cap {"wild", "bind", "bare"} = {} /\ {"ok", "err"} \subseteq heads
        /\ IsChoice(widened.is) => heads \cap {"wild", "bind"} = {} /\ Variants(widened.is) \subseteq covered

-----------------------------------------------------------------------------
(* Expressions.  `c` is what is in scope: the types of names, and what the  *)
(* function returns.                                                        *)
RECURSIVE Check(_, _, _, _)
Infer(e, p, c) == Check(e, p, c, None)

\* What is inferred, and then compared with what was wanted.
Wanting(e, p, verdict, wanted) ==
    IF wanted = None THEN verdict
    ELSE Of(verdict.ty, And(verdict, Assign(verdict.ty, wanted, e, p)))

CheckStmt(stmt, p, c) ==
    LET last == Len(stmt.of)
        init == IF last = 0 THEN Nothing ELSE Infer(stmt.of[last], p \o <<last>>, c)
        e == IF last = 0 THEN Absent ELSE stmt.of[last]
        declared == Wanting(e, p \o <<last>>, init, stmt.ty)
        bound == BindPattern([env |-> c.env, fine |-> TRUE], Label(stmt),
                             IF stmt.ty = None THEN init.ty ELSE stmt.ty)
    IN  CASE stmt.is = "let" -> [verdict |-> OnlyIf(bound.fine, declared), env |-> bound.env]
          [] stmt.is = "return" ->
                [verdict |-> Wanting(e, IF last = 0 THEN p ELSE p \o <<last>>, init, c.ret), env |-> c.env]
          [] OTHER -> [verdict |-> init, env |-> c.env]

RECURSIVE CheckFrom(_, _, _, _, _, _)
CheckFrom(block, i, p, c, wanted, diverges) ==
    IF i > Len(block.of)
    THEN IF diverges THEN Verdict(Never, TRUE)
         ELSE Wanting(Absent, p, Nothing, wanted)
    ELSE LET stmt == block.of[i]
             one == CheckStmt(stmt, p \o <<i>>, c)
         IN  IF stmt.is = "tail" THEN Check(Label(stmt), p \o <<i, 1>>, c, wanted)
             ELSE And(one.verdict, CheckFrom(block, i + 1, p, [c EXCEPT !.env = one.env], wanted,
                                             diverges \/ stmt.is = "return"))
Truthful(e, p, c) ==
    LET test == Infer(e, p, c) IN And(test, Assign(test.ty, Bool, e, p))
CheckBlock(block, p, c, wanted) == Recorded(p, CheckFrom(block, 1, p, c, wanted, FALSE))

Branches(e, p, wanted, condition, then, else) ==
    LET agree == IF wanted # None \/ Absorbs(then.ty) THEN Nothing
                 ELSE Assign(else.ty, then.ty, e.of[3], p \o <<3>>)
        alone == IF wanted # None THEN Nothing ELSE Assign(then.ty, Unit, Absent, p \o <<2>>)
    IN  IF Len(e.of) = 2 THEN Of(Unit, All(<<condition, then, alone>>))
        ELSE Of(IF Absorbs(then.ty) THEN else.ty ELSE Settled(then.ty, else.ty),
                All(<<condition, then, else, agree>>))
CheckIf(e, p, c, wanted) ==
    Branches(e, p, wanted, Truthful(Label(e), p \o <<1>>, c), CheckBlock(e.of[2], p \o <<2>>, c, wanted),
             IF Len(e.of) = 2 THEN Nothing ELSE Check(e.of[3], p \o <<3>>, c, wanted))

\* The first arm that says something decides, and the others are compared with it.
CheckArm(soFar, arm, p, c, scrutinee, wanted) ==
    LET bound == BindPattern([env |-> c.env, fine |-> TRUE], Label(arm), scrutinee)
        body == Check(arm.of[2], p \o <<2>>, [c EXCEPT !.env = bound.env], wanted)
        found == OnlyIf(bound.fine, And(soFar, body))
    IN  IF Absorbs(soFar.ty) THEN found
        ELSE Of(soFar.ty, IF wanted # None THEN found
                          ELSE And(found, Assign(body.ty, soFar.ty, arm.of[2], p \o <<2>>)))
CheckMatch(e, p, c, wanted) ==
    LET scrutinee == Infer(Label(e), p \o <<1>>, c)
    IN  OnlyIf(CheckExhaustive(scrutinee.ty, Tail(e.of)),
               FoldLeft(LAMBDA soFar, i : CheckArm(soFar, e.of[i], p \o <<i>>, c, scrutinee.ty, wanted),
                        Of(Never, scrutinee), [i \in 1..(Len(e.of) - 1) |-> i + 1]))

\* What is carried starts as something, and a body has to come to the same.
Walked(e, p, c, iterable, init, carried) ==
    LET widened == Widen(iterable.ty)
        element == IF widened.is = "List" THEN widened.of[1] ELSE Unknown
        with == e.of[2]
        walking == With(c.env, e.name, element)
        inner == [c EXCEPT !.env = IF with = Absent THEN walking ELSE With(walking, with.name, carried)]
        started == IF with = Absent THEN Nothing ELSE Recorded(p \o <<2, 1>>, Of(carried, init))
        keep == IF e.of[3] = Absent THEN Nothing
                ELSE OnlyIf(with # Absent, Truthful(e.of[3], p \o <<3>>, inner))
        Came(body) == Of(Settled(carried, body.ty), All(<<iterable, started, keep, body>>))
    IN  OnlyIf(widened.is = "List" \/ Absorbs(widened), Came(CheckBlock(e.of[4], p \o <<4>>, inner, carried)))
CheckFor(e, p, c, wanted) ==
    LET with == e.of[2]
        Started(init) == Walked(e, p, c, Infer(e.of[1], p \o <<1>>, c), init,
            IF with # Absent /\ wanted # None THEN Settled(init.ty, wanted) ELSE init.ty)
    IN  Started(IF with = Absent THEN Nothing ELSE Check(Label(with), p \o <<2, 1>>, c, wanted))

-----------------------------------------------------------------------------
InferList(e, p, c) ==
    LET each == [i \in DOMAIN e.of |-> Infer(e.of[i], p \o <<i>>, c)]
        first == each[1].ty
        agree(i) == And(each[i], Assign(each[i].ty, first, e.of[i], p \o <<i>>))
    IN  IF e.of = <<>> THEN Of(ListOf(Unknown), Nothing)
        ELSE Of(ListOf(first), All([i \in DOMAIN e.of |-> IF i = 1 THEN each[1] ELSE agree(i)]))

\* The calls no signature can say the type of.
PreludeCall(e, p, args, all) ==
    LET receiver == Widen(args[1].ty)
        element == receiver.of[1]
        second(expected) == And(all, Assign(args[2].ty, expected, e.of[2], p \o <<2>>))
    IN  CASE e.name = "ok" -> Of(ResultOf(args[1].ty, Unknown), all)
          [] e.name = "err" -> Of(ResultOf(Unknown, args[1].ty), all)
          [] e.name = "repeat" -> Of(ListOf(args[1].ty), second(Int64))
          [] e.name = "length" -> Of(Int64, OnlyIf(Absorbs(receiver) \/ receiver.is \in {"Str", "List"}, all))
          [] e.name \in {"at", "push"} /\ receiver.is # "List" ->
                Of(Unknown, OnlyIf(Absorbs(receiver), all))
          [] e.name = "at" -> Of(ResultOf(element, Str), second(Int64))
          [] e.name = "push" -> Of(ListOf(Settled(element, args[2].ty)), second(element))

InferCall(e, p, c) ==
    LET args == [i \in DOMAIN e.of |-> Infer(e.of[i], p \o <<i>>, c)]
        signature == Signatures[e.name]
        given == Zip(signature.takes, [i \in DOMAIN args |-> args[i].ty])
        known == FoldLeft(LAMBDA soFar, pair : Bind(pair[1], pair[2], soFar), <<>>, given)
        meant(t) == IF signature.generics THEN Substitute(t, known) ELSE t
    IN  IF e.name \in DOMAIN Signatures
        THEN Of(meant(signature.ret), OnlyIf(Len(args) = Len(signature.takes),
                And(All(args), All([i \in DOMAIN given |->
                    Assign(given[i][2], meant(given[i][1]), e.of[i], p \o <<i>>)]))))
        ELSE PreludeCall(e, p, args, All(args))

\* A record or a variant with its fields, each of them given.
InferLiteral(e, p, c) ==
    LET shape == Shapes[e.name]
        generics == Generics[shape.owner]
        Short(i) == e.of[i].of = <<>>
        at(i) == IF Short(i) THEN p \o <<i>> ELSE p \o <<i, 1>>
        value(i) == IF ~Short(i) THEN Infer(Label(e.of[i]), at(i), c)
                    ELSE Verdict(c.env[e.of[i].name], TRUE)
        places == SelectSeq([i \in DOMAIN e.of |-> i], LAMBDA i : Standing(e.name, e.of[i].name) # 0)
        wanted(i) == shape.fields[Standing(e.name, e.of[i].name)].ty
        known == IF generics = <<>> THEN <<>>
                 ELSE FoldLeft(LAMBDA soFar, i : Bind(wanted(i), value(i).ty, soFar), <<>>, places)
        fits(i) == Assign(value(i).ty, Substitute(wanted(i), known),
                          IF Short(i) THEN Absent ELSE Label(e.of[i]), at(i))
        args == [i \in DOMAIN generics |-> Substitute(T(generics[i], <<>>), known)]
        given == {e.of[i].name : i \in DOMAIN e.of}
    IN  Of(T(shape.owner, args),
           OnlyIf(given = {shape.fields[i].name : i \in DOMAIN shape.fields},
                  And(All([i \in DOMAIN e.of |-> value(i)]), All([j \in DOMAIN places |-> fits(places[j])]))))

InferBinary(e, p, c) ==
    LET l == Infer(e.of[1], p \o <<1>>, c)
        r == Infer(e.of[2], p \o <<2>>, c)
        left == Widen(l.ty)
        right == Widen(r.ty)
        known == ~Absorbs(left) /\ ~Absorbs(right)
        Both(ty) == And(Assign(left, ty, e.of[1], p \o <<1>>), Assign(right, ty, e.of[2], p \o <<2>>))
        same == Assign(right, left, e.of[2], p \o <<2>>)
        found == CASE ~known -> Nothing
                   [] e.name \in {"+", "/"} -> Both(Int64)
                   [] e.name = "<" -> OnlyIf(left \in {Int64, Str}, same)
                   [] e.name = "==" -> same
                   [] e.name \in {"&&", "||"} -> Both(Bool)
    IN  Of(IF e.name \notin {"+", "/"} THEN Bool ELSE IF known THEN Int64 ELSE Unknown,
           All(<<l, r, found>>))

InferTry(e, p, c) ==
    LET operand == Infer(Label(e), p \o <<1>>, c)
        failing == IF c.ret.is = "Result"
                   THEN Assign(operand.ty.of[2], c.ret.of[2], Absent, p \o <<1>>)
                   ELSE OnlyIf(Absorbs(c.ret), Nothing)
    IN  IF Absorbs(operand.ty) THEN Of(Unknown, operand)
        ELSE IF operand.ty.is # "Result" THEN Of(Unknown, OnlyIf(FALSE, operand))
        ELSE Of(operand.ty.of[1], And(operand, failing))

InferInner(e, p, c) ==
    LET operand == Infer(Label(e), p \o <<1>>, c)
        widened == Widen(operand.ty)
    IN  CASE e.is = "int" -> Verdict(Int64, TRUE)
          [] e.is = "bool" -> Verdict(Bool, TRUE)
          [] e.is = "str" -> Verdict(Str, TRUE)
          [] e.is = "unit" -> Verdict(Unit, TRUE)
          [] e.is = "name" -> Verdict(c.env[e.name], TRUE)
          [] e.is = "bare" ->
                Verdict(T(Shapes[e.name].owner, [i \in DOMAIN Generics[Shapes[e.name].owner] |-> Unknown]), TRUE)
          [] e.is = "field" ->
                IF Absorbs(operand.ty) THEN Of(Unknown, operand)
                ELSE IF IsRecord(widened.is) /\ Standing(widened.is, e.name) # 0
                THEN Of(FieldTy(widened.is, e.name, widened), operand)
                ELSE Of(Unknown, OnlyIf(FALSE, operand))
          [] e.is = "call" -> InferCall(e, p, c)
          [] e.is = "list" -> InferList(e, p, c)
          [] e.is = "literal" -> InferLiteral(e, p, c)
          [] e.is = "not" ->
                IF Absorbs(widened) THEN Of(Unknown, operand)
                ELSE Of(Bool, And(operand, Assign(widened, Bool, Label(e), p \o <<1>>)))
          [] e.is = "binary" -> InferBinary(e, p, c)
          [] e.is = "try" -> InferTry(e, p, c)

Check(e, p, c, wanted) ==
    Recorded(p,
        CASE e.is = "if" -> CheckIf(e, p, c, wanted)
          [] e.is = "match" -> CheckMatch(e, p, c, wanted)
          [] e.is = "for" -> CheckFor(e, p, c, wanted)
          [] e.is = "block" -> CheckBlock(e, p, c, wanted)
          [] OTHER -> Wanting(e, p, InferInner(e, p, c), wanted))

\* A function's body, against what its signature says.
CheckFn(signature, body) ==
    LET env == [x \in ToSet(signature.params) |->
                    signature.takes[CHOOSE i \in DOMAIN signature.params : signature.params[i] = x]]
    IN  Check(body, <<>>, [env |-> env, ret |-> signature.ret], signature.ret)
============================================================================
