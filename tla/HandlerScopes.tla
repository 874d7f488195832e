---------------------------- MODULE HandlerScopes ----------------------------
(***************************************************************************)
(* What `with` means to the programs the lowering produces: an installation *)
(* answers for its effect while its block runs, the innermost one first,    *)
(* every installation keeps state of its own, and leaving a function, by    *)
(* its end or by `return`, leaves the blocks it opened.  An operation no    *)
(* block of the program could answer goes to the host, and the function     *)
(* that performed it carries on with the host's answer.                     *)
(*                                                                         *)
(* `todo` holds what the program is in the middle of, innermost last.  What *)
(* the program does next is up to the program.                              *)
(***************************************************************************)
EXTENDS Integers, FiniteSets, SequencesExt

CONSTANTS
    Handlers,     \* the handlers the program declares
    EffectOf,     \* the effect each answers for
    Fields,       \* how many fields its state has
    Codes,        \* for a handler, the function answering each operation
    Effects,      \* the effects the program performs
    Operations,   \* how many operations each effect declares
    Values,       \* the values a field may hold
    MaxDepth      \* bound on what one program is in the middle of

VARIABLES
    scopes,    \* the installed handlers, innermost last, with their state
    todo,      \* what is under way
    stopped    \* "no", or why the program ended

vars == <<scopes, todo, stopped>>

Function(height) == [kind |-> "call", height |-> height]
Operation(height, self, code) == [kind |-> "op", height |-> height, self |-> self, code |-> code]
Starting(h, start) == [kind |-> "fields", handler |-> h, start |-> start]
Block(height) == [kind |-> "body", height |-> height]
Arguments(e, op) == [kind |-> "args", effect |-> e, op |-> op]
Asked == [kind |-> "host"]

Top == Last(todo)
Running == stopped = "no" /\ todo # <<>> /\ Top.kind # "host"
Push(item) == Len(todo) < MaxDepth /\ todo' = Append(todo, item)
Outermost(n) == SubSeq(scopes, 1, n)

\* Where the function that is running begins in `todo`.
Boundaries == {i \in DOMAIN todo : todo[i].kind \in {"call", "op"}}
Current == CHOOSE i \in Boundaries : \A j \in Boundaries : j <= i

\* The installation that answers for an effect: the innermost, or none.
Answering(e) == {i \in DOMAIN scopes : EffectOf[scopes[i].handler] = e}
Innermost(e) == CHOOSE i \in Answering(e) : \A j \in Answering(e) : j <= i

\* An effect with no handler anywhere in the program is the host's.
Hosted(e) == \A h \in Handlers : EffectOf[h] # e

Init == scopes = <<>> /\ todo = <<Function(0)>> /\ stopped = "no"

Continue == UNCHANGED stopped

\* A `with` names a handler; its state is given first values one by one.
With(h) == Running /\ Push(Starting(h, <<>>)) /\ UNCHANGED scopes /\ Continue

StartField(v) ==
    /\ Running /\ Top.kind = "fields" /\ Len(Top.start) < Fields[Top.handler]
    /\ todo' = Append(Front(todo), Starting(Top.handler, Append(Top.start, v)))
    /\ UNCHANGED scopes /\ Continue

Install ==
    /\ Running /\ Top.kind = "fields" /\ Len(Top.start) = Fields[Top.handler]
    /\ todo' = Append(Front(todo), Block(Len(scopes)))
    /\ scopes' = Append(scopes, [handler |-> Top.handler, state |-> Top.start])
    /\ Continue

EndWith ==
    /\ Running /\ Top.kind = "body"
    /\ todo' = Front(todo) /\ scopes' = Outermost(Top.height) /\ Continue

Call == Running /\ Push(Function(Len(scopes))) /\ UNCHANGED scopes /\ Continue

\* The end of a function, or a `return` or `?` anywhere in it.
Leave == todo' = SubSeq(todo, 1, Current - 1) /\ scopes' = Outermost(todo[Current].height)
Return == Running /\ Leave /\ Continue

Perform(e, op) ==
    /\ Running /\ op \in 1..Operations[e]
    /\ Push(Arguments(e, op)) /\ UNCHANGED scopes /\ Continue

Answer ==
    /\ Running /\ Top.kind = "args" /\ Answering(Top.effect) # {}
    /\ LET i == Innermost(Top.effect)
       IN  todo' = Append(Front(todo),
                     Operation(Len(scopes), i, Codes[scopes[i].handler][Top.op]))
    /\ UNCHANGED scopes /\ Continue

AskHost ==
    /\ Running /\ Top.kind = "args" /\ Hosted(Top.effect)
    /\ todo' = Append(Front(todo), Asked) /\ UNCHANGED scopes /\ Continue

\* The host answers and the function that asked carries on.
HostAnswers == stopped = "no" /\ todo # <<>> /\ Top = Asked

HostAnswer == HostAnswers /\ todo' = Front(todo) /\ UNCHANGED scopes /\ Continue

\* The host answers the last thing a function does, which ends it.
HostAnswerLast == HostAnswers /\ Current = Len(todo) - 1 /\ Leave /\ Continue

\* An assignment to a field of the state of the handler whose operation runs.
SetField(v) ==
    /\ Running /\ todo[Current].kind = "op"
    /\ \E f \in DOMAIN scopes[todo[Current].self].state :
          scopes' = [scopes EXCEPT ![todo[Current].self].state[f] = v]
    /\ UNCHANGED todo /\ Continue

\* A program that performs what nobody answers ends.
Unanswered(e) ==
    /\ Running /\ Answering(e) = {} /\ ~Hosted(e)
    /\ stopped' = "nobody" /\ UNCHANGED <<scopes, todo>>

\* So does one that has no room for the next handler.
NoRoom == Running /\ stopped' = "room" /\ UNCHANGED <<scopes, todo>>

Next ==
    \/ \E h \in Handlers : With(h)
    \/ \E v \in Values : StartField(v) \/ SetField(v)
    \/ Install \/ EndWith \/ Call \/ Return
    \/ \E e \in Effects : \/ \E op \in 1..Operations[e] : Perform(e, op)
                          \/ Unanswered(e)
    \/ Answer \/ AskHost \/ HostAnswer \/ HostAnswerLast \/ NoRoom

Spec == Init /\ [][Next]_vars

=============================================================================
