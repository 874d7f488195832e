------------------------------ MODULE Interp ------------------------------
(***************************************************************************)
(* The control of the tree-walking interpreter (deed-interp/src/interp.rs):*)
(* calls and their contracts, `with` blocks and the handlers they install, *)
(* dispatch of an operation to a handler, `finally` blocks, and the two    *)
(* signals (an early return and a failure) that unwind all of them.        *)
(*                                                                         *)
(* The Deed program is the environment: at every step the code that is     *)
(* running may do anything the effect checker accepts there, and `stack`   *)
(* is the interpreter's own recursion, one activation for each call,       *)
(* closure, `with`, `finally` and `assert refuses` that is under way.      *)
(* Values are left out, except for one bit of state per handler.  A row    *)
(* is the set of operations it covers, so an entry that names a whole      *)
(* effect is the set of that effect's operations (Promise::covers).        *)
(***************************************************************************)
EXTENDS Naturals, Sequences, FiniteSets, SequencesExt

CONSTANTS
    Functions,      \* the program's functions
    Main,           \* the one a run starts with
    Generic,        \* the functions whose row holds a row variable
    Ensuring,       \* the functions and operations with an `ensures` clause
    Handlers,       \* the program's handlers
    Cleaning,       \* the handlers that have a `finally` block
    Ops,            \* the operations of every effect
    HostOps,        \* the operations of the built-in effect, Io
    Effects,        \* the effects
    EffectOf,       \* the effect an operation belongs to
    Implements,     \* the effect a handler implements
    Uses,           \* the row a function declared
    OpUses,         \* the row an operation declared in a handler
    FinallyUses,    \* the row inferred for a handler's `finally` block
    Lists,          \* the handler lists the program's `with` blocks write
    Closures,       \* its closures: the function each is written in, and its row
    Values,         \* the values of a handler's state
    Faults,         \* the failures its code raises
    ReturnSites,    \* where the program writes `return` or `?`
    MaxDepth,       \* MAX_DEPTH
    MaxStack        \* bound: how deeply activations nest

Rows == SUBSET Ops

\* Code has the name of the function, the operation or the cleanup it is in.
Fn(f) == <<f, "fn">>
Cleanup(h) == <<h, "finally">>
Operations == {p \in Handlers \X Ops : EffectOf[p[2]] = Implements[p[1]]}

ASSUME ProgramAssumption ==
    /\ Main \in Functions \ Generic
    /\ Generic \subseteq Functions
    /\ Ensuring \subseteq Operations \cup {Fn(f) : f \in Functions}
    /\ Cleaning \subseteq Handlers
    /\ HostOps \subseteq Ops
    /\ EffectOf \in [Ops -> Effects]
    /\ Implements \in [Handlers -> Effects]
    /\ \A h \in Handlers, o \in HostOps : EffectOf[o] # Implements[h]
    /\ Uses \in [Functions -> Rows]
    /\ OpUses \in [Operations -> Rows]
    /\ FinallyUses \in [Handlers -> Rows]
    /\ Lists \subseteq Seq(Handlers) \ {<<>>}
    /\ Closures \subseteq Functions \X Rows
    /\ 0 \in Values
    /\ Faults \subseteq {"contract", "assert", "abandoned"}
    /\ ReturnSites \subseteq {"body", "clause", "closure", "finally", "install"}
    /\ MaxDepth \in Nat /\ MaxStack \in Nat

VARIABLES
    stack,          \* the activations under way, innermost last
    frames,         \* Interp.frames, how many there are
    rows,           \* Interp.rows
    handlers,       \* Interp.handlers, each with its state
    insideHandler,  \* Interp.inside_handler, as indexes into handlers
    olds,           \* Interp.olds, how many there are
    entryStates,    \* Interp.entry_states, each with the call that captured it
    inContract,     \* Interp.in_contract
    entry,          \* Interp.entry, the row of `main`, or {} in a test
    signal,         \* the Signal being propagated, or None
    answer,         \* history: what the last `unchanged` was answered from
    abandoned       \* history: `abandon` ran, and not during a cleanup

vars == <<stack, frames, rows, handlers, insideHandler, olds, entryStates,
          inContract, entry, signal, answer, abandoned>>

\* A call that is held to nothing, because its row has a variable or because
\* it is a cleanup, is held to a row of everything.
Anything == Ops
Contracts == {"where", "old", "ensures"}    \* the phases inside a contract
Failures == {"contract", "row", "nohandler", "boundary", "deep", "abandoned",
             "assert"}

\* A signal, and what it is about: who wrote the `return`, or which operation
\* had no handler.
Signal(kind, about) == [kind |-> kind, about |-> about]
Nobody == <<"", "">>
None == Signal("none", Nobody)
Failed(s) == s.kind \in Failures

Depth == Len(stack)
Top == stack[Depth]

\* How much there is of everything an activation must leave as it found it.
Sizes == [frames |-> frames, rows |-> Len(rows), inside |-> Len(insideHandler),
          olds |-> olds, entered |-> Len(entryStates),
          contract |-> inContract, handlers |-> Len(handlers)]

\* An activation of code written in `name`, which the checker lets perform
\* the operations in `may`.
Activation(kind, name, phase, may) ==
    [kind |-> kind, name |-> name, phase |-> phase, may |-> may,
     handler |-> 0, todo |-> <<>>, cursor |-> 0, base |-> Len(handlers),
     incoming |-> None, outcome |-> None, spoiled |-> FALSE, at |-> Sizes]

Captures(a) == a.kind = "call" /\ a.name \in Ensuring

\* Code of the innermost activation is being evaluated.
Evaluating == /\ stack # <<>>
              /\ signal = None
              /\ ~(Top.kind = "with" /\ Top.phase = "finally")

\* What the code being evaluated may perform.  A clause of a contract may
\* perform any operation of an effect its function's row mentions, and what
\* is installed is not discharged from the expressions that build it.
May == IF Top.kind = "call" /\ Top.phase \in Contracts
         THEN {o \in Ops : \E p \in Top.may : EffectOf[p] = EffectOf[o]}
         ELSE Top.may

-----------------------------------------------------------------------------
(* Rows *)

\* Promise::covers, for the frame's promise.
Kept(frame, o) == o \in frame.promise

\* The handlers installed for an effect, and whether one is the last of them,
\* which is the one dispatch and state_of take.
Installed(e) == {i \in 1..Len(handlers) : Implements[handlers[i].handler] = e}
Innermost(i, e) == i \in Installed(e) /\ \A j \in Installed(e) : j <= i

\* As it would read if every frame on the stack were asked, as before #131.
BreaksRowNoBarrier(o, answeredBy) ==
    \E j \in 1..Len(rows) :
        /\ \A k \in j..Len(rows) : rows[k].handled >= answeredBy
        /\ ~Kept(rows[j], o)

\* The walk of check_row, innermost first: it stops at the first frame that
\* began after `answeredBy` was installed being passed, and a frame is asked
\* only when no operation further in belongs to a handler it installed later.
\* The built-in effect is answered by 0, which discharges nobody.
BreaksRow(o, answeredBy) ==
    \E j \in 1..Len(rows) :
        /\ \A k \in j..Len(rows) : rows[k].handled >= answeredBy
        /\ \A k \in j + 1..Len(rows) :
              rows[k].handler # 0 => rows[j].handled < rows[k].handler
        /\ ~Kept(rows[j], o)

HoldToRow(o, answeredBy) == inContract > 0 \/ ~BreaksRow(o, answeredBy)

\* As it would read if a cleanup cost the installer nothing.
HandlerRowNoCleanup(h) ==
    UNION {OpUses[<<h, o>>] : o \in {p \in Ops : <<h, p>> \in Operations}}

\* What installing a handler costs the one who installs it.
HandlerRow(h) == (UNION {OpUses[<<h, o>>] : o \in {p \in Ops : <<h, p>> \in Operations}})
                 \cup FinallyUses[h]
Handled(list) == {o \in Ops : \E h \in ToSet(list) : Implements[h] = EffectOf[o]}

-----------------------------------------------------------------------------
(* Calls and contracts *)

\* Interp::call up to the contract of the callee.
EnterCall(name, promise, handler, may) ==
    LET deep == frames + 1 > MaxDepth IN
    /\ Depth < MaxStack
    /\ frames' = frames + 1
    /\ rows' = Append(rows, [handled |-> Len(handlers), handler |-> handler,
                             promise |-> promise])
    /\ insideHandler' = IF handler # 0 THEN Append(insideHandler, handler)
                                       ELSE insideHandler
    /\ stack' = Append(stack,
                  [Activation("call", name, IF deep THEN "enter" ELSE "where", may)
                     EXCEPT !.handler = handler])
    /\ inContract' = IF deep THEN inContract ELSE inContract + 1
    /\ signal' = IF deep THEN Signal("deep", Nobody) ELSE None
    /\ UNCHANGED <<handlers, olds, entryStates, entry, answer, abandoned>>

PromiseOf(f) == IF f \in Generic THEN Anything ELSE Uses[f]

\* A call of a declared function, by name or as a value.  `lent` is the row
\* of the function values handed to a function with a row variable.
Call(f, lent) ==
    /\ Evaluating
    /\ f \in Generic \/ lent = {}
    /\ Uses[f] \cup lent \subseteq May
    /\ EnterCall(Fn(f), PromiseOf(f), 0, Uses[f] \cup lent)

\* Every `where` clause held: on to the body, by way of what `ensures` reads.
RequiresHold ==
    /\ Evaluating /\ Top.kind = "call" /\ Top.phase = "where"
    /\ IF Captures(Top)
         THEN /\ stack' = [stack EXCEPT ![Depth].phase = "old"]
              /\ olds' = olds + 1
              /\ UNCHANGED inContract
         ELSE /\ stack' = [stack EXCEPT ![Depth].phase = "body"]
              /\ inContract' = inContract - 1
              /\ UNCHANGED olds
    /\ UNCHANGED <<frames, rows, handlers, insideHandler, entryStates, entry,
                   signal, answer, abandoned>>

\* The state of the innermost handler of each effect, where there is one.
States == [e \in Effects |-> {handlers[i].state : i \in {j \in Installed(e) : Innermost(j, e)}}]

\* capture_entry_state, once every `old(...)` has been evaluated.
Captured ==
    /\ Evaluating /\ Top.kind = "call" /\ Top.phase = "old"
    /\ stack' = [stack EXCEPT ![Depth].phase = "body"]
    /\ entryStates' = Append(entryStates, [owner |-> Depth, states |-> States])
    /\ inContract' = inContract - 1
    /\ UNCHANGED <<frames, rows, handlers, insideHandler, olds, entry, signal,
                   answer, abandoned>>

\* The end of Interp::call, whatever ended it: `captured` says whether there
\* is an entry to pop, and `clauses` how deep in contracts it was.
PopCall(result, captured, clauses) ==
    /\ stack' = Front(stack)
    /\ frames' = frames - 1
    /\ rows' = Front(rows)
    /\ insideHandler' = IF Top.handler # 0 THEN Front(insideHandler)
                                           ELSE insideHandler
    /\ olds' = IF captured \/ Top.phase = "old" THEN olds - 1 ELSE olds
    /\ entryStates' = IF captured THEN Front(entryStates) ELSE entryStates
    /\ inContract' = inContract - clauses
    /\ signal' = result
    /\ UNCHANGED <<handlers, entry, answer, abandoned>>

\* As it would read if a failing body left behind what was captured on entry.
LeaveCallKeepsCaptured(result) ==
    PopCall(result, Captures(Top) /\ Top.phase = "ensures",
            IF Top.phase \in Contracts THEN 1 ELSE 0)

LeaveCall(result) ==
    PopCall(result, Captures(Top) /\ Top.phase \in {"body", "ensures"},
            IF Top.phase \in Contracts THEN 1 ELSE 0)

\* The body produced a value, by its tail or by `return`: check_ensures next.
CheckEnsures ==
    /\ stack' = [stack EXCEPT ![Depth].phase = "ensures"]
    /\ inContract' = inContract + 1
    /\ signal' = None
    /\ UNCHANGED <<frames, rows, handlers, insideHandler, olds, entryStates,
                   entry, answer, abandoned>>

BodyEnds ==
    /\ stack # <<>> /\ Top.kind = "call" /\ Top.phase = "body"
    /\ signal.kind \in {"none", "return"}
    /\ IF Captures(Top) THEN CheckEnsures ELSE LeaveCall(None)

EnsuresHold ==
    /\ Evaluating /\ Top.kind = "call" /\ Top.phase = "ensures"
    /\ LeaveCall(None)

\* A failure anywhere in a call leaves it, and so does a `return` in a clause,
\* which call_body does not turn into the call's value.
CallUnwinds ==
    /\ stack # <<>> /\ Top.kind = "call" /\ signal # None
    /\ ~(Top.phase = "body" /\ signal.kind = "return")
    /\ LeaveCall(signal)

\* call_closure: a frame, and no row of its own.  `home` is the function the
\* closure was written in and `row` what its type says it performs.
RunClosure(home, row) ==
    LET deep == frames + 1 > MaxDepth IN
    /\ Evaluating /\ Depth < MaxStack
    /\ row \subseteq May
    /\ frames' = frames + 1
    /\ stack' = Append(stack, Activation("closure", Fn(home), "body", row))
    /\ signal' = IF deep THEN Signal("deep", Nobody) ELSE None
    /\ UNCHANGED <<rows, handlers, insideHandler, olds, entryStates, inContract,
                   entry, answer, abandoned>>

ClosureEnds ==
    /\ stack # <<>> /\ Top.kind = "closure"
    /\ frames' = frames - 1
    /\ stack' = Front(stack)
    /\ UNCHANGED <<rows, handlers, insideHandler, olds, entryStates, inContract,
                   entry, signal, answer, abandoned>>

-----------------------------------------------------------------------------
(* Effects *)

\* dispatch of an operation the program may perform here.
Dispatch(o, i) ==
    LET h == handlers[i].handler IN
    /\ Evaluating
    /\ o \in May \ HostOps
    /\ Innermost(i, EffectOf[o]) /\ HoldToRow(o, i)
    /\ EnterCall(<<h, o>>, OpUses[<<h, o>>], i, OpUses[<<h, o>>])

\* Raising a signal changes nothing else.
Raise(s) ==
    /\ signal' = s
    /\ UNCHANGED <<stack, frames, rows, handlers, insideHandler, olds,
                   entryStates, inContract, entry, answer>>

\* dispatch with nothing installed: "boundary" when `main`'s row hands the
\* operation to the host (reaches_the_boundary), "nohandler" when it does not.
NoHandler(o) ==
    /\ Evaluating
    /\ o \in May \ HostOps
    /\ Installed(EffectOf[o]) = {}
    /\ Raise(Signal(IF o \in entry THEN "boundary" ELSE "nohandler", <<"", o>>))
    /\ UNCHANGED abandoned

\* hold_to_row refuses: the program was accepted and a row was not kept.
RowNotKept(o) ==
    /\ Evaluating
    /\ o \in May
    /\ \/ o \in HostOps /\ ~HoldToRow(o, 0)
       \/ \E i \in Installed(EffectOf[o]) : Innermost(i, EffectOf[o]) /\ ~HoldToRow(o, i)
    /\ Raise(Signal("row", <<"", o>>))
    /\ UNCHANGED abandoned

\* The `with` expression: its handlers are built one by one.
EnterWith(list) ==
    /\ Evaluating /\ Depth < MaxStack
    /\ UNION {HandlerRow(h) : h \in ToSet(list)} \subseteq May \cup Handled(list)
    /\ stack' = Append(stack, [Activation("with", Top.name, "install", May)
                                 EXCEPT !.todo = list, !.handler = Top.handler,
                                        !.cursor = Len(handlers)])
    /\ UNCHANGED <<frames, rows, handlers, insideHandler, olds, entryStates,
                   inContract, entry, signal, answer, abandoned>>

\* Interp::install of the next handler in the list; after the last one the
\* body runs, with every effect they implement discharged.
Install ==
    /\ Evaluating /\ Top.kind = "with" /\ Top.phase = "install"
    /\ handlers' = Append(handlers,
                     [handler |-> Head(Top.todo), state |-> 0, cleaned |-> 0])
    /\ stack' = [stack EXCEPT
           ![Depth].todo = Tail(@),
           ![Depth].cursor = @ + 1,
           ![Depth].phase = IF Len(Top.todo) = 1 THEN "body" ELSE "install",
           ![Depth].may = IF Len(Top.todo) = 1
                            THEN @ \cup {o \in Ops : \E i \in Top.base + 1..Len(handlers'):
                                    Implements[handlers'[i].handler] = EffectOf[o]}
                            ELSE @]
    /\ UNCHANGED <<frames, rows, insideHandler, olds, entryStates, inContract,
                   entry, signal, answer, abandoned>>

\* The body is over, or a handler could not be built: run_finally_blocks
\* starts from the handler installed last.
CleanUpFrom(index) ==
    /\ stack # <<>> /\ Top.kind = "with"
    /\ Top.phase = "body" \/ (Top.phase = "install" /\ signal # None)
    /\ stack' = [stack EXCEPT ![Depth].phase = "finally",
                              ![Depth].cursor = index,
                              ![Depth].incoming = signal,
                              ![Depth].outcome = signal]
    /\ signal' = None
    /\ UNCHANGED <<frames, rows, handlers, insideHandler, olds, entryStates,
                   inContract, entry, answer, abandoned>>
\* As it would read if a body that failed were not cleaned up after.
StartCleanupOnSuccess ==
    CleanUpFrom(IF Failed(signal) /\ stack # <<>> THEN Top.base ELSE Len(handlers))

StartCleanup == CleanUpFrom(Len(handlers))

CleaningUp == stack # <<>> /\ Top.kind = "with" /\ Top.phase = "finally"

\* One turn of the loop over the installed handlers.
RunFinally ==
    LET i == Top.cursor
        h == handlers[i].handler
        moved == [stack EXCEPT ![Depth].cursor = i - 1]
    IN
    /\ CleaningUp /\ i > Top.base
    /\ IF h \in Cleaning
         THEN /\ stack' = Append(moved,
                            [Activation("finally", Cleanup(h), "body", FinallyUses[h])
                               EXCEPT !.handler = i])
              /\ handlers' = [handlers EXCEPT ![i].cleaned = @ + 1]
              /\ frames' = frames + 1
              /\ rows' = Append(rows, [handled |-> Len(handlers), handler |-> i,
                                       promise |-> Anything])
              /\ insideHandler' = Append(insideHandler, i)
         ELSE /\ stack' = moved
              /\ UNCHANGED <<handlers, frames, rows, insideHandler>>
    /\ UNCHANGED <<olds, entryStates, inContract, entry, signal, answer, abandoned>>

\* A `finally` block is over.  Its signal becomes the outcome of the `with`
\* unless what ended the body was already a failure.
PopFinally(replaces, inside) ==
    /\ stack # <<>> /\ Top.kind = "finally"
    /\ stack' = [Front(stack) EXCEPT
           ![Depth - 1].outcome = IF replaces /\ signal # None THEN signal ELSE @,
           ![Depth - 1].spoiled = @ \/ Failed(signal)]
    /\ frames' = frames - 1
    /\ rows' = Front(rows)
    /\ insideHandler' = inside
    /\ signal' = None
    /\ UNCHANGED <<handlers, olds, entryStates, inContract, entry, answer, abandoned>>
\* As it would read if a cleanup left its handler the current one.
FinallyEndsInside ==
    PopFinally(~Failed(stack[Depth - 1].incoming), insideHandler)

\* As it would read if the last failure won.
FinallyEndsLastWins == PopFinally(TRUE, Front(insideHandler))

FinallyEnds == PopFinally(~Failed(stack[Depth - 1].incoming), Front(insideHandler))

\* The handlers are removed once every `finally` block has run.
LeaveWith ==
    /\ CleaningUp /\ Top.cursor = Top.base
    /\ handlers' = SubSeq(handlers, 1, Top.base)
    /\ stack' = Front(stack)
    /\ signal' = Top.outcome
    /\ UNCHANGED <<frames, rows, insideHandler, olds, entryStates, inContract,
                   entry, answer, abandoned>>

-----------------------------------------------------------------------------
(* Statements *)

\* The code an activation runs belongs to a handler: its state is in scope.
InHandlerCode(a) == a.kind \in {"call", "finally", "with", "refuses"} /\ a.handler # 0

\* Stmt::Assign to a state field of the handler whose code is running.
Assign(value) ==
    /\ Evaluating
    /\ InHandlerCode(Top)
    /\ handlers' = [handlers EXCEPT ![Last(insideHandler)].state = value]
    /\ UNCHANGED <<stack, frames, rows, insideHandler, olds, entryStates,
                   inContract, entry, signal, answer, abandoned>>

\* Where the code being evaluated was written, for `return`.
Site == CASE Top.kind = "call" -> IF Top.phase \in Contracts THEN "clause" ELSE "body"
          [] Top.kind = "with" -> IF Top.phase = "install" THEN "install" ELSE "body"
          [] Top.kind \in {"finally", "closure"} -> Top.kind
          [] OTHER -> "body"

\* Stmt::Return, and `?` on an error.
Return ==
    /\ Evaluating
    /\ Site \in ReturnSites
    /\ Raise(Signal("return", Top.name))
    /\ UNCHANGED abandoned

\* "contract": a clause that does not hold, or a value its refined type does
\* not admit.  "assert": Stmt::Assert, overflow and the other failures that
\* nothing catches.  "abandoned": Stmt::Abandon.
Fail(kind) ==
    /\ Evaluating
    /\ Raise(Signal(kind, Nobody))
    /\ abandoned' = \/ abandoned
                    \/ /\ kind = "abandoned"
                       /\ \A i \in 1..Depth : stack[i].kind # "finally"

\* Stmt::Refuses runs its subject ...
EnterRefuses ==
    /\ Evaluating /\ Depth < MaxStack
    /\ stack' = Append(stack, [Activation("refuses", Top.name, "body", May)
                                 EXCEPT !.handler = Top.handler])
    /\ UNCHANGED <<frames, rows, handlers, insideHandler, olds, entryStates,
                   inContract, entry, signal, answer, abandoned>>

\* ... and is satisfied by a broken contract, and by nothing else.
Refused(s) == CASE s.kind = "contract" -> None
                [] s = None -> Signal("assert", Nobody)
                [] OTHER -> s

RefusesEnds ==
    /\ stack # <<>> /\ Top.kind = "refuses"
    /\ stack' = Front(stack)
    /\ signal' = Refused(signal)
    /\ UNCHANGED <<frames, rows, handlers, insideHandler, olds, entryStates,
                   inContract, entry, answer, abandoned>>

\* Expr::Unchanged, in a clause of a call's contract: it reads the state the
\* last capturing call found, whichever call that is.
Unchanged ==
    /\ Evaluating /\ Top.kind = "call" /\ Top.phase \in {"where", "ensures"}
    /\ inContract > 0
    /\ answer' = CASE entryStates = <<>> -> "nothing"
                   [] Last(entryStates).owner = Depth -> "this call"
                   [] OTHER -> "another call"
    /\ UNCHANGED <<stack, frames, rows, handlers, insideHandler, olds,
                   entryStates, inContract, entry, signal, abandoned>>

TestEnds ==
    /\ stack # <<>> /\ Top.kind = "test"
    /\ stack' = <<>>
    /\ UNCHANGED <<frames, rows, handlers, insideHandler, olds, entryStates,
                   inContract, entry, signal, answer, abandoned>>

-----------------------------------------------------------------------------
\* Interp::new, and then either the body of a `test` block, which may perform
\* nothing it does not handle, or a call of `main` from outside.
Init ==
    /\ handlers = <<>> /\ insideHandler = <<>>
    /\ olds = 0 /\ entryStates = <<>>
    /\ signal = None /\ answer = "none" /\ abandoned = FALSE
    /\ LET none == [frames |-> 1, rows |-> 0, inside |-> 0, olds |-> 0,
                    entered |-> 0, contract |-> 0, handlers |-> 0]
           root == [kind |-> "test", name |-> <<"test", "fn">>, phase |-> "body", may |-> {},
                    handler |-> 0, todo |-> <<>>, cursor |-> 0, base |-> 0,
                    incoming |-> None, outcome |-> None, spoiled |-> FALSE, at |-> none]
       IN  \/ /\ entry = {}
              /\ frames = 1 /\ rows = <<>> /\ inContract = 0
              /\ stack = <<root>>
           \/ /\ entry = Uses[Main]
              /\ frames = 2 /\ inContract = 1
              /\ rows = <<[handled |-> 0, handler |-> 0, promise |-> PromiseOf(Main)]>>
              /\ stack = <<[root EXCEPT !.kind = "call", !.name = Fn(Main), !.phase = "where",
                                        !.may = Uses[Main]]>>

Finished == stack = <<>> /\ UNCHANGED vars

Next ==
    \/ \E f \in Functions : Call(f, {}) \/ \E c \in Closures : Call(f, c[2])
    \/ \E c \in Closures : RunClosure(c[1], c[2])
    \/ \E o \in Ops : \/ \E i \in 1..Len(handlers) : Dispatch(o, i)
                    \/ NoHandler(o) \/ RowNotKept(o)
    \/ \E list \in Lists : EnterWith(list)
    \/ \E value \in Values : Assign(value)
    \/ \E kind \in Faults : Fail(kind)
    \/ RequiresHold \/ Captured \/ BodyEnds \/ EnsuresHold \/ CallUnwinds
    \/ ClosureEnds \/ Install \/ StartCleanup \/ RunFinally \/ FinallyEnds
    \/ LeaveWith \/ Return \/ EnterRefuses \/ RefusesEnds \/ Unchanged \/ TestEnds
    \/ Finished

Spec == Init /\ [][Next]_vars

-----------------------------------------------------------------------------
Names == {Fn(f) : f \in Functions} \cup {Cleanup(h) : h \in Handlers}
         \cup Operations \cup {<<"test", "fn">>}
Signals == [kind: Failures \cup {"none", "return"},
            about: Names \cup {<<"", o>> : o \in Ops} \cup {Nobody}]
SizeRecords == [frames: Nat, rows: Nat, inside: Nat, olds: Nat, entered: Nat,
                contract: Nat, handlers: Nat]
Activations ==
    [kind: {"test", "call", "closure", "with", "finally", "refuses"},
     name: Names, phase: {"enter", "where", "old", "body", "ensures", "install", "finally"},
     may: Rows, handler: Nat, todo: Seq(Handlers), cursor: Nat, base: Nat,
     incoming: Signals, outcome: Signals, spoiled: BOOLEAN, at: SizeRecords]

\* The interpreter's state has the shape interp.rs gives it; its counters do
\* not go below zero.
TypeOK ==
    /\ stack \in Seq(Activations)
    /\ frames \in Nat /\ olds \in Nat /\ inContract \in Nat
    /\ rows \in Seq([handled: Nat, handler: Nat, promise: Rows])
    /\ handlers \in Seq([handler: Handlers, state: Values, cleaned: Nat])
    /\ insideHandler \in Seq(Nat)
    /\ entryStates \in Seq([owner: Nat, states: [Effects -> SUBSET Values]])
    /\ entry \in Rows
    /\ signal \in Signals
    /\ answer \in {"none", "nothing", "this call", "another call"}
    /\ abandoned \in BOOLEAN

\* What an activation has added, while it runs, to what it found: the relation
\* between `a` and the sizes when it is innermost, or a child of it begins.
Holds(a) == Captures(a) /\ a.phase \in {"body", "ensures"}
One(added) == IF added THEN 1 ELSE 0
Added(a, sizes) ==
    /\ sizes.frames = a.at.frames + One(a.kind \in {"call", "closure", "finally"})
    /\ sizes.rows = a.at.rows + One(a.kind \in {"call", "finally"})
    /\ sizes.inside = a.at.inside
          + One(a.kind = "finally" \/ (a.kind = "call" /\ a.handler # 0))
    /\ sizes.olds = a.at.olds
          + One(a.kind = "call" /\ (a.phase = "old" \/ Holds(a)))
    /\ sizes.entered = a.at.entered + One(Holds(a))
    /\ sizes.contract = a.at.contract + One(a.kind = "call" /\ a.phase \in Contracts)
    /\ IF a.kind = "with" THEN sizes.handlers >= a.at.handlers
                          ELSE sizes.handlers = a.at.handlers

\* A `with` remembers how many handlers there were, it has one to install as
\* long as it installs, and `old(...)` is evaluated for a call that needs it.
WellFormed(a) ==
    /\ a.kind = "with" => /\ a.base = a.at.handlers
                          /\ a.phase = "install" => a.todo # <<>>
    /\ a.phase = "old" => Captures(a)

\* Every activation has added what its kind and its phase say, and its parent
\* nothing since: the invariant behind LeavesAsFound.
Balanced ==
    /\ \A i \in 1..Depth - 1 : Added(stack[i], stack[i + 1].at)
    /\ stack # <<>> => Added(Top, Sizes)
    /\ \A i \in 1..Depth : WellFormed(stack[i])

\* Whatever ends a call, a closure, a `with`, a `finally` or a `refuses` (its
\* value, a `return`, a failure, a clause that failed half way), the frames,
\* rows, handlers, captured state and contract depth are back where they were
\* when it began.
LeavesAsFound == [][Depth' < Depth => Sizes' = Top.at]_vars

\* A `with` has installed some of its handlers and not the others: it is
\* building the next one, or cleaning up because that did not work.
PartlyInstalled ==
    \E i \in 1..Depth :
        /\ stack[i].kind = "with" /\ stack[i].todo # <<>>
        /\ stack[i].phase = "finally" \/ stack[i].cursor > stack[i].base

\* `main` hands the operation's effect to the host.
AtTheBoundary(o) == \E p \in entry : EffectOf[p] = EffectOf[o]

\* The effect checker is sound for check_row: no program it accepts performs
\* an effect while a function that did not declare it is accountable
\* (ROW_NOT_KEPT, "a hole in the effect checker"), except while a `with` is
\* partly installed.
RowsAreKept == [][stack' = stack /\ signal'.kind = "row" => PartlyInstalled]_vars

\* Every operation an accepted program performs finds a handler, unless it is
\* one of an effect that `main` hands to the host (NO_HANDLER), with the same
\* exception.
EffectsAreAnswered ==
    [][stack' = stack /\ signal'.kind = "nohandler"
         => AtTheBoundary(signal'.about[2]) \/ PartlyInstalled]_vars

\* Code of a handler reads and assigns the state of the instance it runs for,
\* whatever calls, blocks and cleanups came in between (read_state, Assign).
OwnState ==
    Evaluating /\ InHandlerCode(Top) =>
        /\ Len(insideHandler) > 0
        /\ Last(insideHandler) = Top.handler
        /\ handlers[Top.handler].handler = Top.name[1]

\* `finally` of every installed handler runs exactly once before the handler
\* is removed, and after those of the handlers installed later, however the
\* `with` ends; also when the list was only partly installed.
CleanupOnce ==
    [][/\ \A i \in Len(handlers') + 1..Len(handlers) :
             handlers[i].cleaned = IF handlers[i].handler \in Cleaning THEN 1 ELSE 0
       /\ \A i \in 1..Len(handlers') : i <= Len(handlers) =>
             (handlers'[i].cleaned > handlers[i].cleaned =>
                \A j \in i + 1..Len(handlers) :
                    handlers[j].handler \in Cleaning => handlers[j].cleaned = 1)]_vars

\* The failure that ended the body of a `with` is what its caller sees,
\* whatever the `finally` blocks do (run_finally_blocks): an error, a failed
\* contract, or an operation no handler answers where the host is not asked.
OriginalFailureKept ==
    [][CleaningUp /\ Depth' < Depth /\ Failed(Top.incoming) => signal' = Top.incoming]_vars

=============================================================================
