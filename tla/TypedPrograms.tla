--------------------------- MODULE TypedPrograms ---------------------------
(***************************************************************************)
(* A function on its way through the compiler and both engines.  The        *)
(* checker takes it or turns it away; one that was taken is built, where    *)
(* the backend has an answer for everything in it, and its code validated;  *)
(* it is handed arguments; and it is run by the interpreter and by the      *)
(* engine the code was built for.                                           *)
(*                                                                          *)
(* The functions are those of the constant Programs.  They call the         *)
(* functions of the Library, which were checked and built the same way.     *)
(***************************************************************************)
EXTENDS CompiledCode

CONSTANTS
    Library,       \* the bodies of the functions of Signatures that have one
    Programs,      \* the functions: [params, takes, ret, body]
    Inputs(_)      \* the arguments one is handed

VARIABLES
    program,    \* the function
    verdict,    \* [state, fine, of]: what the checker said of it and of each body
    image,      \* [state, of]: what was built, each function for its type arguments
    given,      \* the arguments it was handed, or Unasked
    ran,        \* how the interpreter's run of it ended, or Unasked
    executed    \* how the run of the code ended, or Unasked

vars == <<program, verdict, image, given, ran, executed>>

Unchecked == [state |-> "unchecked", fine |-> FALSE, of |-> <<>>]
Unbuilt == [state |-> "none", of |-> <<>>]
Unasked == Ended("none", UnitV)

\* The bodies of the module a function stands in: its own, those of the
\* functions it can call, and the condition of each refinement.
Main == [name |-> "main", bindings |-> <<>>]
Bodies(p) ==
    [x \in {"main"} \cup DOMAIN Library \cup DOMAIN Refinements |->
        CASE x = "main" ->
                [signature |-> [params |-> p.params, takes |-> p.takes, ret |-> p.ret, generics |-> FALSE],
                 body |-> p.body]
          [] x \in DOMAIN Library -> [signature |-> Signatures[x], body |-> Library[x]]
          [] OTHER ->
                [signature |-> [params |-> <<"value">>, takes |-> <<Refinements[x].base>>, ret |-> Bool,
                                generics |-> FALSE],
                 body |-> Refinements[x].where]]

Init ==
    /\ program \in Programs
    /\ verdict = Unchecked
    /\ image = Unbuilt
    /\ given = Unasked
    /\ ran = Unasked
    /\ executed = Unasked

Judged(checked) ==
    [state |-> "checked", fine |-> \A x \in DOMAIN checked : checked[x].fine, of |-> checked]
CheckProgram ==
    /\ verdict = Unchecked
    /\ LET bodies == Bodies(program)
       IN  verdict' = Judged([x \in DOMAIN bodies |-> CheckFn(bodies[x].signature, bodies[x].body)])
    /\ UNCHANGED <<program, image, given, ran, executed>>

\* A module that does not validate is a fault of the compiler, not of the program.
Built(images) ==
    [of |-> images,
     state |-> IF \E f \in DOMAIN images : ~Lowers(images[f].body) THEN "unlowered"
               ELSE IF \A f \in DOMAIN images : Validates(images[f]) THEN "built" ELSE "invalid"]
Build ==
    /\ verdict.fine
    /\ image = Unbuilt
    /\ image' = Built(LowerAsked({Main}, <<>>, Bodies(program), verdict.of))
    /\ UNCHANGED <<program, verdict, given, ran, executed>>

Ask ==
    /\ image # Unbuilt
    /\ given = Unasked
    /\ \E vs \in Inputs(program) : given' = Done(ListV(vs))
    /\ UNCHANGED <<program, verdict, image, ran, executed>>

Interpret ==
    /\ given # Unasked
    /\ ran = Unasked
    /\ LET bodies == Bodies(program)
           code == [f \in DOMAIN bodies |->
                        [params |-> bodies[f].signature.params, body |-> bodies[f].body,
                         guards |-> verdict.of[f].owed]]
       IN  ran' = Invoked("main", given.value.of, [code |-> code, guards |-> <<>>])
    /\ UNCHANGED <<program, verdict, image, given, executed>>

Execute ==
    /\ given # Unasked
    /\ image.state = "built"
    /\ executed = Unasked
    /\ executed' = Called(Main, [i \in DOMAIN program.takes |->
            Represented(given.value.of[i], Written(program.takes[i], <<>>))], image.of)
    /\ UNCHANGED <<program, verdict, image, given, ran>>

Next == CheckProgram \/ Build \/ Ask \/ Interpret \/ Execute
Spec == Init /\ [][Next]_vars

-----------------------------------------------------------------------------
(* Properties.                                                             *)
TypeOK ==
    /\ image.state \in {"none", "unlowered", "invalid", "built"}
    /\ ran.flow \in {"none", "value", "arithmetic", "refinement", "stuck"}
    /\ executed.flow \in {"none", "value", "arithmetic", "refinement", "stuck"}

\* A value is one of a type, its refinements included.
RECURSIVE Inhabits(_, _)
Inhabits(v, t) ==
    LET fields == Shapes[v.name].fields
    IN  CASE t.is \in DOMAIN Refinements ->
                Inhabits(v, Refinements[t.is].base) /\ Decides(Refinements[t.is].where, v)
          [] t = Int64 -> v.is = "int"
          [] t = Bool -> v.is = "bool"
          [] t = Str -> v.is = "str"
          [] t = Unit -> v.is = "unit"
          [] t.is = "Result" -> v.is \in {"ok", "err"} /\ Inhabits(v.of[1], t.of[IF v.is = "ok" THEN 1 ELSE 2])
          [] t.is = "List" -> v.is = "list" /\ \A i \in DOMAIN v.of : Inhabits(v.of[i], t.of[1])
          [] OTHER ->
                /\ v.is = "made" /\ Shapes[v.name].owner = t.is
                /\ \A i \in DOMAIN fields : Inhabits(v.of[i], Substitute(fields[i].ty, Applied(t)))

\* A walk stands where the answer of the function comes from.
RECURSIVE AnswersAWalk(_)
AnswersAWalk(e) ==
    LET last == e.of[Len(e.of)]
    IN  CASE e.is = "for" -> TRUE
          [] e.is \in {"tail", "arm"} -> AnswersAWalk(last)
          [] e.is = "block" -> last.is = "tail" /\ AnswersAWalk(last)
          [] e.is \in {"if", "match"} -> \E i \in 2..Len(e.of) : AnswersAWalk(e.of[i])
          [] OTHER -> FALSE

\* A program the checker took never comes to a shape an engine has no rule
\* for (interp.rs:1372): no arm left untaken, no name unread, no operand of
\* the wrong kind.
AcceptedProgramsRun == "stuck" \notin {ran.flow, executed.flow}

\* What an accepted function answers is of the type it declares, refinements
\* included: each of them was decided, or is checked on the way, wherever the
\* value came from and however deep in the answer it is.  A function that
\* answers what a walk carried is the exception: that is of the type the walk
\* started with (check.rs, check_for_against), which the declared one may refine.
AnswersAreOfTheirType ==
    ran.flow = "value" =>
        Inhabits(ran.value, IF AnswersAWalk(program.body) THEN Written(program.ret, <<>>) ELSE program.ret)

\* What is built validates: wherever the code leaves something on the operand
\* stack, it is what the code after it takes, on every path.
WhatIsBuiltValidates == image.state # "invalid"

\* The two engines agree: on whether a run ends in a value, and in which; on
\* what ends it otherwise; and on what was noted, in which order.
EnginesAgree ==
    Unasked \notin {ran, executed} =>
        /\ executed.flow = ran.flow
        /\ executed.log = ran.log
        /\ ran.flow = "value" => Meaning(executed.value, image.of[Main].ret) = ran.value
=============================================================================
