----------------------------- MODULE Evaluation -----------------------------
(***************************************************************************)
(* What the interpreter answers for an expression of the first-order        *)
(* language: literals, names, records and choices, lists, `Result`, calls,  *)
(* `if`, `match`, `for`, `?`, `return`.  A tree is [is, name, ty, of] (`ty` *)
(* is what an annotation says), and a place in a function's body is the     *)
(* path to it.  Names are resolved: each is bound once in a function, so it *)
(* stands for its declaration.  Left out: closures, handlers and the rest   *)
(* of what the module Interp is about, text beyond equality, and the `for`  *)
(* that counts.                                                             *)
(*                                                                          *)
(* The one effect is `note`, and the log of what was noted is the order in  *)
(* which things were evaluated.                                             *)
(***************************************************************************)
EXTENDS Types

CONSTANT MostInt   \* the largest Int; the least is one further from zero

Tree(is, name, of) == [is |-> is, name |-> name, ty |-> None, of |-> of]
Absent == Tree("absent", "", <<>>)
Label(e) == e.of[1]

V(is, n, name, of) == [is |-> is, n |-> n, name |-> name, of |-> of]
IntV(n) == V("int", n, "", <<>>)
BoolV(b) == V("bool", 0, IF b THEN "true" ELSE "false", <<>>)
StrV(s) == V("str", 0, s, <<>>)
UnitV == V("unit", 0, "", <<>>)
ListV(vs) == V("list", 0, "", vs)
Carrier(is, v) == V(is, 0, "", <<v>>)                \* `ok` or `err`
MadeV(constructor, vs) == V("made", 0, constructor, vs)
IsVariant(v) == v.is = "made" /\ ~IsRecord(v.name)   \* a record has no identity of its own

Numeral == [s \in {"0", "1", "2"} |-> CASE s = "0" -> 0 [] s = "1" -> 1 [] s = "2" -> 2]
Literal(e) == CASE e.is = "int" -> IntV(Numeral[e.name])
                [] e.is = "bool" -> V("bool", 0, e.name, <<>>)
                [] e.is = "str" -> StrV(e.name)
                [] e.is = "unit" -> UnitV
IsLiteral(e) == e.is \in {"int", "bool", "str", "unit"}

-----------------------------------------------------------------------------
(* How an evaluation ends: with a value, by `return`, or by failing: a     *)
(* refinement, an arithmetic operation with no answer, or "stuck", a shape  *)
(* the interpreter has no rule for.                                         *)
Ended(flow, v) == [flow |-> flow, value |-> v, log |-> <<>>]
Done(v) == Ended("value", v)
Stuck == Ended("stuck", UnitV)
Arithmetic == Ended("arithmetic", UnitV)
Then(o, Next(_)) ==
    IF o.flow # "value" THEN o
    ELSE LET after == Next(o.value) IN [after EXCEPT !.log = o.log \o @]

IntOf(n) == IF n \in (-MostInt - 1)..MostInt THEN Done(IntV(n)) ELSE Arithmetic
Towards(a, b) == IF b > 0 THEN (IF a >= 0 THEN a \div b ELSE -((-a) \div b))
                 ELSE (IF a >= 0 THEN -(a \div (-b)) ELSE (-a) \div (-b))
Calculated(op, a, b) ==
    CASE op = "+" -> IntOf(a + b)
      [] op = "/" -> IF b = 0 THEN Arithmetic ELSE IntOf(Towards(a, b))
      [] op = "<" -> Done(BoolV(a < b))
Applying(op, l, r) ==
    IF op = "==" THEN Done(BoolV(l = r))
    ELSE IF l.is = "int" /\ r.is = "int" THEN Calculated(op, l.n, r.n)
    ELSE Stuck

Builtins == {"ok", "err", "length", "at", "push", "repeat", "note"}
Builtin(name, vs) ==
    CASE name \in {"ok", "err"} -> Done(Carrier(name, vs[1]))
      [] name = "note" /\ vs[1].is = "int" -> [Done(UnitV) EXCEPT !.log = <<vs[1].n>>]
      [] name = "length" /\ vs[1].is = "list" -> Done(IntV(Len(vs[1].of)))
      [] name = "at" /\ vs[1].is = "list" /\ vs[2].is = "int" ->
            Done(IF vs[2].n \in 0..(Len(vs[1].of) - 1) THEN Carrier("ok", vs[1].of[vs[2].n + 1])
                 ELSE Carrier("err", StrV("outside")))
      [] name = "push" /\ vs[1].is = "list" -> Done(ListV(Append(vs[1].of, vs[2])))
      [] name = "repeat" /\ vs[2].is = "int" -> Done(ListV([i \in 1..vs[2].n |-> vs[1]]))
      [] OTHER -> Stuck

FieldOf(v, field) ==
    IF v.is # "made" THEN Stuck
    ELSE LET i == Standing(v.name, field)
         IN  IF i \in DOMAIN v.of THEN Done(v.of[i]) ELSE Stuck

-----------------------------------------------------------------------------
(* Patterns.  An arm is taken by the head of its pattern alone.             *)
RECURSIVE Matches(_, _)
Matches(v, pattern) ==
    CASE pattern.is \in {"wild", "bind"} -> TRUE
      [] IsLiteral(pattern) -> v = Literal(pattern)
      [] pattern.is \in {"bare", "fields"} -> IsVariant(v) /\ v.name = pattern.name
      [] pattern.is \in {"ok", "err"} -> v.is = pattern.is
      [] pattern.is = "oneof" -> \E i \in DOMAIN pattern.of : Matches(v, pattern.of[i])

With(frame, name, v) == [x \in DOMAIN frame \cup {name} |-> IF x = name THEN v ELSE frame[x]]

RECURSIVE Bound(_, _, _)
Bound(frame, v, pattern) ==
    CASE pattern.is = "bind" -> With(frame, pattern.name, v)
      [] pattern.is \in {"ok", "err"} /\ v.is \in {"ok", "err"} -> Bound(frame, v.of[1], Label(pattern))
      [] pattern.is = "fields" /\ v.is = "made" ->
            FoldLeft(LAMBDA soFar, entry :
                        LET held == FieldOf(v, entry.name)
                        IN  IF held.flow = "stuck" THEN soFar
                            ELSE IF entry.of = <<>> THEN With(soFar, entry.name, held.value)
                            ELSE Bound(soFar, held.value, Label(entry)),
                     frame, pattern.of)
      [] OTHER -> frame

-----------------------------------------------------------------------------
(* `code` has the body and the guards of every function, and `guards` those *)
(* of the one being run: the obligations the checker could not discharge,   *)
(* at the places of the expressions that owe them.                          *)
Read(frame, name) == IF name \in DOMAIN frame THEN Done(frame[name]) ELSE Stuck

RECURSIVE Eval(_, _, _, _)

Truth(o) == Then(o, LAMBDA v : IF v.is = "bool" THEN Done(v) ELSE Stuck)
IsTrue(v) == v = BoolV(TRUE)

\* The expressions of a sequence of [tree, at], in order: a list of their values.
EvalAll(parts, frame, run) ==
    FoldLeft(LAMBDA soFar, part :
                Then(soFar, LAMBDA vs :
                    Then(Eval(part.tree, part.at, frame, run), LAMBDA v : Done(ListV(Append(vs.of, v))))),
             Done(ListV(<<>>)), parts)
Parts(e, p) == [i \in DOMAIN e.of |-> [tree |-> e.of[i], at |-> p \o <<i>>]]

GuardedOutside(guard, v, run) ==
    IF guard.inside THEN Done(v)
    ELSE Then(Truth(Eval(Refinements[guard.refinement].where, <<>>, [value |-> v], run)),
              LAMBDA held : IF IsTrue(held) THEN Done(v) ELSE Ended("refinement", UnitV))
\* The predicate runs in a frame of its own; `inside` is the payload of an `ok`.
Guarded(guard, v, run) ==
    IF guard.inside /\ v.is # "ok" THEN Done(v)
    ELSE LET subject == IF guard.inside THEN v.of[1] ELSE v
         IN  Then(Truth(Eval(Refinements[guard.refinement].where, <<>>, [value |-> subject],
                             [run EXCEPT !.guards = <<>>])),
                  LAMBDA held : IF IsTrue(held) THEN Done(v) ELSE Ended("refinement", UnitV))

EvalStmt(stmt, p, frame, run) ==
    IF stmt.of = <<>> THEN Ended("return", UnitV)
    ELSE LET o == Eval(stmt.of[Len(stmt.of)], p \o <<Len(stmt.of)>>, frame, run)
         IN  IF stmt.is = "return" /\ o.flow = "value" THEN [o EXCEPT !.flow = "return"] ELSE o

\* Statements in order, each in the frame those before it left.
RECURSIVE EvalFrom(_, _, _, _, _)
EvalFrom(block, i, p, frame, run) ==
    IF i > Len(block.of) THEN Done(UnitV)
    ELSE LET stmt == block.of[i]
             o == EvalStmt(stmt, p \o <<i>>, frame, run)
         IN  IF stmt.is = "tail" THEN o
             ELSE Then(o, LAMBDA v : EvalFrom(block, i + 1, p,
                    IF stmt.is = "let" THEN Bound(frame, v, Label(stmt)) ELSE frame, run))
EvalBlock(block, p, frame, run) == EvalFrom(block, 1, p, frame, run)

Returned(o) == IF o.flow = "return" THEN [o EXCEPT !.flow = "value"] ELSE o
\* A declared function: a frame of its parameters, and `return` ends here.
Invoked(name, vs, run) ==
    LET callee == run.code[name]
        frame == [x \in ToSet(callee.params) |-> vs[CHOOSE i \in DOMAIN vs : callee.params[i] = x]]
    IN  Returned(Eval(callee.body, <<>>, frame, [run EXCEPT !.guards = callee.guards]))

\* The fields in the order they are written, the value in the order they are declared.
EvalLiteral(e, p, frame, run) ==
    LET value(i) == IF e.of[i].of = <<>> THEN Read(frame, e.of[i].name)
                    ELSE Eval(Label(e.of[i]), p \o <<i, 1>>, frame, run)
        all == FoldLeft(LAMBDA soFar, i :
                  Then(soFar, LAMBDA vs : Then(value(i), LAMBDA v : Done(ListV(Append(vs.of, v))))),
                  Done(ListV(<<>>)), [i \in DOMAIN e.of |-> i])
        written(field) == CHOOSE i \in DOMAIN e.of : e.of[i].name = field
        fields == Shapes[e.name].fields
    IN  Then(all, LAMBDA vs : Done(MadeV(e.name,
                [i \in DOMAIN fields |-> vs.of[written(fields[i].name)]])))

EvalMatch(e, p, frame, run) ==
    Then(Eval(Label(e), p \o <<1>>, frame, run), LAMBDA v :
        LET taken == {i \in 2..Len(e.of) : Matches(v, Label(e.of[i]))}
            first == CHOOSE i \in taken : \A j \in taken : i <= j
        IN  IF taken = {} THEN Stuck
            ELSE Eval(e.of[first].of[2], p \o <<first, 2>>, Bound(frame, v, Label(e.of[first])), run))

\* A `for` is <<iterable, accumulator, condition, body>>: turn after turn, the
\* accumulator's name bound before the condition and the element's after it.
RECURSIVE Turns(_, _, _, _, _, _)
Turns(e, left, carried, p, frame, run) ==
    LET start == IF e.of[2].is = "with" THEN With(frame, e.of[2].name, carried) ELSE frame
        going == IF e.of[3] = Absent THEN Done(BoolV(TRUE))
                 ELSE Truth(Eval(e.of[3], p \o <<3>>, start, run))
    IN  IF left = <<>> THEN Done(carried)
        ELSE Then(going, LAMBDA go :
            IF ~IsTrue(go) THEN Done(carried)
            ELSE Then(EvalBlock(e.of[4], p \o <<4>>, With(start, e.name, Head(left)), run),
                      LAMBDA v : Turns(e, Tail(left), v, p, frame, run)))
EvalFor(e, p, frame, run) ==
    Then(Eval(e.of[1], p \o <<1>>, frame, run), LAMBDA walked :
        IF walked.is # "list" THEN Stuck
        ELSE Then(IF e.of[2] = Absent THEN Done(UnitV)
                  ELSE Eval(Label(e.of[2]), p \o <<2, 1>>, frame, run),
                  LAMBDA carried : Turns(e, walked.of, carried, p, frame, run)))

\* The right side of `&&` and `||` only where the left does not decide.
EvalBinary(e, p, frame, run) ==
    LET left == Eval(e.of[1], p \o <<1>>, frame, run)
        right == Eval(e.of[2], p \o <<2>>, frame, run)
    IN  IF e.name \in {"&&", "||"}
        THEN Then(Truth(left), LAMBDA l :
                IF IsTrue(l) = (e.name = "||") THEN Done(l) ELSE Truth(right))
        ELSE Then(left, LAMBDA l : Then(right, LAMBDA r : Applying(e.name, l, r)))

EvalInner(e, p, frame, run) ==
    LET operand == Eval(e.of[1], p \o <<1>>, frame, run)
    IN  CASE IsLiteral(e) -> Done(Literal(e))
          [] e.is = "name" -> Read(frame, e.name)
          [] e.is = "bare" -> Done(MadeV(e.name, <<>>))
          [] e.is = "field" -> Then(operand, LAMBDA v : FieldOf(v, e.name))
          [] e.is = "call" -> Then(EvalAll(Parts(e, p), frame, run), LAMBDA vs :
                IF e.name \in Builtins THEN Builtin(e.name, vs.of) ELSE Invoked(e.name, vs.of, run))
          [] e.is = "list" -> EvalAll(Parts(e, p), frame, run)
          [] e.is = "literal" -> EvalLiteral(e, p, frame, run)
          [] e.is = "not" -> Then(Truth(operand), LAMBDA b : Done(BoolV(~IsTrue(b))))
          [] e.is = "binary" -> EvalBinary(e, p, frame, run)
          [] e.is = "try" -> Then(operand, LAMBDA v :
                CASE v.is = "ok" -> Done(v.of[1]) [] v.is = "err" -> Ended("return", v) [] OTHER -> Stuck)
          [] e.is = "if" -> Then(Truth(operand), LAMBDA b :
                IF IsTrue(b) THEN EvalBlock(e.of[2], p \o <<2>>, frame, run)
                ELSE IF Len(e.of) = 2 THEN Done(UnitV)
                ELSE Eval(e.of[3], p \o <<3>>, frame, run))
          [] e.is = "match" -> EvalMatch(e, p, frame, run)
          [] e.is = "for" -> EvalFor(e, p, frame, run)
          [] e.is = "block" -> EvalBlock(e, p, frame, run)

Eval(e, p, frame, run) ==
    LET o == EvalInner(e, p, frame, run)
    IN  IF p \in DOMAIN run.guards THEN Then(o, LAMBDA v : Guarded(run.guards[p], v, run)) ELSE o
============================================================================
