-------------------------- MODULE MCTypedPrograms --------------------------
(***************************************************************************)
(* A refinement, a record, a choice of its own and a generic one, four      *)
(* functions to call, and the functions written over them: an expression    *)
(* two operations deep, one bound to a name that is then taken apart,       *)
(* walked, tested, passed on or returned early, for each type it might be   *)
(* declared to answer.                                                      *)
(***************************************************************************)
EXTENDS TypedPrograms

\* Trees.
I(s) == Tree("int", s, <<>>)
N(x) == Tree("name", x, <<>>)
Binder(x) == Tree("bind", x, <<>>)
Bare(v) == Tree("bare", v, <<>>)
Call(f, args) == Tree("call", f, args)
Entry(f, e) == Tree("entry", f, <<e>>)
Short(f) == Tree("entry", f, <<>>)
Literals(v, entries) == Tree("literal", v, entries)
Taking(v, entries) == Tree("fields", v, entries)
Bin(op, l, r) == Tree("binary", op, <<l, r>>)
List(es) == Tree("list", "", es)
Stmt(is, e) == Tree(is, "", <<e>>)
Body(stmts, e) == Tree("block", "", Append(stmts, Stmt("tail", e)))
Just(e) == Body(<<>>, e)
Let(x, e) == Tree("let", "", <<Binder(x), e>>)
LetAs(x, t, e) == [Let(x, e) EXCEPT !.ty = t]
If(c, a, b) == Tree("if", "", <<c, Just(a), Just(b)>>)
When(c, stmt) == Stmt("expr", Tree("if", "", <<c, Tree("block", "", <<stmt>>)>>))
Match(s, arms) == Tree("match", "", <<s>> \o arms)
Arm(pattern, e) == Tree("arm", "", <<pattern, e>>)
On(half, x) == Tree(half, "", <<Binder(x)>>)
Carrying(x, e) == Tree("with", x, <<e>>)
For(x, walked, with, while, body) == Tree("for", x, <<walked, with, while, body>>)

\* Declarations.
Pos == T("Pos", <<>>)
Cell == T("Cell", <<>>)
Light == T("Light", <<>>)
Opt(t) == T("Opt", <<t>>)
A == T("A", <<>>)
Field(x, t) == [name |-> x, ty |-> t]
Shape(owner, tag, fields) == [owner |-> owner, tag |-> tag, fields |-> fields]
TheRefinements == [Pos |-> [base |-> Int64, where |-> Bin("<", I("0"), N("value"))]]
TheShapes ==
    [Cell |-> Shape("Cell", 0, <<Field("held", Pos), Field("mark", Bool)>>),
     Red |-> Shape("Light", 0, <<>>),
     Green |-> Shape("Light", 1, <<Field("fast", Bool), Field("left", Int64)>>),
     Empty |-> Shape("Opt", 0, <<>>),
     Some |-> Shape("Opt", 1, <<Field("value", A)>>)]
TheGenerics == [Cell |-> <<>>, Light |-> <<>>, Opt |-> <<"A">>]
TheParams == {"A"}
Taker(x, t, ret, generics) == [params |-> <<x>>, takes |-> <<t>>, ret |-> ret, generics |-> generics]
TheSignatures ==
    [risky |-> Taker("x", Int64, ResultOf(Pos, Str), FALSE),
     same |-> Taker("x", A, A, TRUE),
     grade |-> Taker("x", Pos, Pos, FALSE),
     note |-> Taker("x", Int64, Unit, FALSE)]
TheLibrary ==
    [risky |-> Just(If(Bin("<", I("0"), N("x")), Call("ok", <<N("x")>>), Call("err", <<Tree("str", "low", <<>>)>>))),
     same |-> Just(N("x")),
     grade |-> Body(<<Stmt("expr", Call("note", <<N("x")>>))>>, N("x"))]

\* Expressions, by the head of the type they are of.
TheParamsOf == <<"n", "b", "xs", "o", "c">>
Taken5 == <<Int64, Bool, ListOf(Int64), Opt(Int64), Cell>>
Given == [Int |-> {I("0"), I("1"), N("n")}, Bool |-> {N("b")}, List |-> {N("xs")}, Opt |-> {N("o")},
          Cell |-> {N("c")}, Light |-> {}, Result |-> {}]
Over1(from) ==
    LET Each(kind, Made(_)) == UNION {Made(e) : e \in from[kind]}
        same == [kind \in DOMAIN from |-> {Call("same", <<e>>) : e \in from[kind]}]
        made ==
            [Int |-> Each("Int", LAMBDA e : {Call("grade", <<e>>), Bin("+", e, I("1")), Bin("/", I("1"), e)})
                     \cup Each("List", LAMBDA e : {Call("length", <<e>>)})
                     \cup Each("Cell", LAMBDA e : {Tree("field", "held", <<e>>)})
                     \cup Each("Result", LAMBDA e : {Stmt("try", e)}),
             Bool |-> Each("Int", LAMBDA e : {Bin("<", I("0"), e), Bin("==", e, N("n"))})
                      \cup Each("Bool", LAMBDA e : {Tree("not", "", <<e>>), Bin("&&", N("b"), e)}),
             List |-> Each("Int", LAMBDA e : {List(<<e>>), List(<<I("1"), e>>), Call("push", <<N("xs"), e>>)}),
             Opt |-> Each("Int", LAMBDA e : {Literals("Some", <<Entry("value", e)>>)}),
             Cell |-> Each("Int", LAMBDA e : {Literals("Cell", <<Entry("mark", N("b")), Entry("held", e)>>)}),
             Light |-> Each("Int", LAMBDA e : {Literals("Green", <<Entry("left", e), Entry("fast", N("b"))>>)}),
             Result |-> Each("Int", LAMBDA e : {Call("risky", <<e>>), Call("ok", <<e>>), Call("at", <<N("xs"), e>>)})
                        \cup Each("Bool", LAMBDA e : {Call("ok", <<e>>)})]
    IN  [kind \in DOMAIN from |-> made[kind] \cup same[kind]]
One == [kind \in DOMAIN Given |-> Given[kind] \cup Over1(Given)[kind]]
Two == Over1(One)

Answers == {Int64, Pos, Bool, ListOf(Int64), ListOf(Pos), Opt(Int64), Cell, Light,
            ResultOf(Int64, Str), ResultOf(Pos, Str)}
Suiting(kind) == {t \in Answers : Widen(t).is = kind}

F(body, ret) == [params |-> TheParamsOf, takes |-> Taken5, ret |-> ret, body |-> body]
Direct == UNION {{F(Just(e), r) : e \in Two[kind], r \in Suiting(kind)} : kind \in DOMAIN Two}

\* What is done with `x`, of a type.
X == N("x")
Noted(e) == Stmt("expr", Call("note", <<e>>))
Uses(kind) ==
    CASE kind = "Int" ->
            {Call("grade", <<X>>), If(N("b"), X, I("0")), Call("ok", <<X>>),
             For("y", N("xs"), Carrying("s", X), Absent, Just(Bin("+", N("s"), N("y"))))}
      [] kind = "Bool" ->
            {If(X, I("1"), N("n")), If(X, Call("ok", <<N("n")>>), Call("risky", <<N("n")>>)),
             If(Bin("||", X, N("b")), List(<<N("n")>>), List(<<>>))}
      [] kind = "Result" ->
            {X, Stmt("try", X), Match(X, <<Arm(On("ok", "v"), N("v"))>>),
             Match(X, <<Arm(On("ok", "v"), N("v")), Arm(On("err", "w"), I("0"))>>),
             Match(X, <<Arm(On("err", "w"), N("n")), Arm(On("ok", "v"), Bin("/", I("1"), N("v")))>>)}
      [] kind = "Opt" ->
            {X, Match(X, <<Arm(Bare("Empty"), N("n"))>>),
             Match(X, <<Arm(Taking("Some", <<Short("value")>>), N("value")), Arm(Bare("Empty"), I("1"))>>),
             Match(X, <<Arm(Bare("Empty"), Call("risky", <<I("0")>>)),
                        Arm(Taking("Some", <<Entry("value", Binder("v"))>>), Call("ok", <<N("v")>>))>>)}
      [] kind = "List" ->
            {X, For("y", X, Carrying("s", I("1")), Absent, Just(N("y"))),
             For("y", X, Carrying("s", List(<<>>)), Bin("<", Call("length", <<N("s")>>), I("1")),
                 Body(<<Noted(N("y"))>>, Call("push", <<N("s"), N("y")>>)))}
      [] kind = "Cell" ->
            {X, Tree("field", "held", <<X>>), Bin("==", X, N("c")),
             If(Tree("field", "mark", <<X>>), X, N("c"))}
      [] kind = "Light" ->
            {X, Match(X, <<Arm(Tree("oneof", "", <<Bare("Red")>>), I("1")),
                           Arm(Taking("Green", <<Short("left")>>), N("left"))>>),
             Match(X, <<Arm(Taking("Green", <<Short("fast")>>), N("fast")), Arm(Bare("Red"), N("b"))>>)}
Bound1 == UNION {{F(Body(<<Let("x", e)>>, use), r) : e \in One[kind], use \in Uses(kind), r \in Answers} :
                    kind \in DOMAIN One}

\* Left early, with a value the signature asks more of.
Early == {F(Body(<<When(N("b"), Stmt("return", e)), Noted(N("n"))>>, I("1")), r) :
            e \in One["Int"], r \in {Int64, Pos}}
Annotated == {F(Body(<<LetAs("x", t, e)>>, Call("grade", <<X>>)), Pos) : e \in One["Int"], t \in {Int64, Pos}}
ThePrograms == Direct \cup Bound1 \cup Early \cup Annotated

CellV(n, mark) == MadeV("Cell", <<IntV(n), BoolV(mark)>>)
SomeV(n) == MadeV("Some", <<IntV(n)>>)
TheInputs(p) ==
    {<<IntV(0), BoolV(TRUE), ListV(<<>>), MadeV("Empty", <<>>), CellV(1, TRUE)>>,
     <<IntV(1), BoolV(FALSE), ListV(<<IntV(0), IntV(2)>>), SomeV(0), CellV(2, FALSE)>>,
     <<IntV(-1), BoolV(TRUE), ListV(<<IntV(1)>>), SomeV(1), CellV(1, FALSE)>>}
=============================================================================
