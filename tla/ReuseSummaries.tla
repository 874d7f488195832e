----------------------------- MODULE ReuseSummaries -----------------------------
(***************************************************************************)
(* What a function does with each of its parameters                        *)
(* (crates/deed-mir/src/reuse.rs): the rounds of the analysis, and after   *)
(* them a run of any function of the program, to hold the answers against. *)
(*                                                                         *)
(* A function is a list of instructions over slots, its parameters first.  *)
(* Every slot is boxed.  An expression is the instructions that leave its  *)
(* value in a slot; what a slot holds is the set of the parameters whose   *)
(* storage the value is or reaches.                                        *)
(***************************************************************************)
EXTENDS Naturals, Sequences

CONSTANTS
    Programs,   \* the programs to analyse: sequences of functions
    MaxSlots,   \* the most slots a function has
    MaxDepth    \* bound: calls active in a run

ASSUME SlotsAssumption == MaxSlots \in Nat
ASSUME ProgramsAssumption == \A p \in Programs : Len(p) \in Nat /\ DOMAIN p = 1 .. Len(p)

Slots == 1 .. MaxSlots

VARIABLES
    prog,    \* the program
    known,   \* Summaries::of, per function
    before,  \* what they were when the round began
    round,   \* rounds begun, from 0
    func,    \* the function whose turn it is
    quiet,   \* the rounds ended because nothing moved
    phase,   \* "rounds", "runs", "returned", "exhausted"
    stack,   \* the run: its active calls, outermost first
    kept,    \* parameters of the outermost call reachable from elsewhere
    result   \* and from its result

analysis == <<prog, known, before, round, func, quiet>>
vars == <<analysis, phase, stack, kept, result>>

(***************************************************************************)
(* Walk                                                                    *)
(***************************************************************************)

Nothing == [shared |-> {}, retained |-> {}]

Widen(use, found) == [shared |-> use.shared \union found.shared,
                      retained |-> use.retained \union found.retained]

Entered(n, of) == [s \in Slots |-> IF s <= n THEN of[s] ELSE {}]

\* A while is walked twice where it stands, and everything else once.
Order(body) ==
    LET loops == {i \in DOMAIN body : body[i].op = "while"}
    IN  IF loops = {} THEN [i \in DOMAIN body |-> i]
        ELSE LET w == CHOOSE i \in loops : TRUE
                 n == body[w].len
             IN  [i \in 1 .. Len(body) + n |-> IF i <= w + n THEN i ELSE i - n]

Held(slots, S) == UNION {slots[s] : s \in S}

\* As it would read if what a callee retains were left to the callee.
RetainedByCallee(i, slots, sums) == {}

\* The arguments a callee's summary says it shares, or retains.
Shared(i, slots, sums) == UNION {slots[i.args[a]] : a \in DOMAIN i.args \cap sums[i.of].shared}
Retained(i, slots, sums) == UNION {slots[i.args[a]] : a \in DOMAIN i.args \cap sums[i.of].retained}

\* What one instruction does to what the walk knows.
Effect(i, w, sums) ==
    CASE i.op \in {"put", "pick"} ->
           [w EXCEPT !.slots = [@ EXCEPT ![i.to] = Held(w.slots, i.from)]]
      [] i.op = "call" ->
           [w EXCEPT !.slots = [@ EXCEPT ![i.to] = Shared(i, w.slots, sums)],
                     !.retained = @ \union Retained(i, w.slots, sums)]
      [] i.op = "give" ->
           [w EXCEPT !.slots = [@ EXCEPT ![i.to] = Held(w.slots, i.from)],
                     !.retained = @ \union Held(w.slots, i.from)]
      [] i.op = "keep" -> [w EXCEPT !.retained = @ \union Held(w.slots, i.from)]
      [] i.op = "return" -> [w EXCEPT !.shared = @ \union Held(w.slots, i.from)]
      [] OTHER -> w

Walk(f, sums) ==
    LET body == f.body
        order == Order(body)
        start == [slots |-> Entered(f.params, [s \in Slots |-> {s}]),
                  shared |-> {}, retained |-> {}]
        after[n \in 0 .. Len(order)] ==
            IF n = 0 THEN start ELSE Effect(body[order[n]], after[n - 1], sums)
        end == after[Len(order)]
    IN  [shared |-> end.shared \union end.slots[f.value], retained |-> end.retained]

(***************************************************************************)
(* summarise                                                               *)
(***************************************************************************)

Init ==
    /\ prog \in Programs
    /\ known = [f \in DOMAIN prog |-> Nothing]
    /\ before = known /\ round = 0 /\ func = 1 /\ quiet = FALSE
    /\ phase = "rounds"
    /\ stack = <<>> /\ kept = {} /\ result = {}

WalkFunction ==
    /\ phase = "rounds" /\ func <= Len(prog)
    /\ known' = [known EXCEPT ![func] = Widen(@, Walk(prog[func], known))]
    /\ func' = func + 1
    /\ UNCHANGED <<prog, before, round, quiet, phase, stack, kept, result>>

\* `for _ in 0..=of.len()`: one round for each function and one more.
MoreRounds == round < Len(prog)

\* As it would read if only the first answer were compared.
MovedShared == \E f \in DOMAIN prog : known[f].shared # before[f].shared

Moved == known # before

EndRound ==
    /\ phase = "rounds" /\ func > Len(prog)
    /\ IF Moved /\ MoreRounds
         THEN /\ round' = round + 1 /\ before' = known /\ func' = 1
              /\ UNCHANGED <<quiet, phase>>
         ELSE /\ quiet' = ~Moved /\ phase' = "runs"
              /\ UNCHANGED <<round, before, func>>
    /\ UNCHANGED <<prog, known, stack, kept, result>>

(***************************************************************************)
(* A run of the program                                                    *)
(***************************************************************************)

Frame(f, of) == [func |-> f, pc |-> 1, slots |-> Entered(prog[f].params, of)]

Start(f) ==
    /\ phase = "runs" /\ stack = <<>>
    /\ stack' = <<Frame(f, [s \in Slots |-> {s}])>>
    /\ UNCHANGED <<analysis, phase, kept, result>>

Running == phase = "runs" /\ stack # <<>>
Top == stack[Len(stack)]
Code == prog[Top.func]
Here == Code.body[Top.pc]
AtCode(op) == Running /\ Top.pc <= Len(Code.body) /\ Here.op = op

Goto(pc) == [stack EXCEPT ![Len(stack)].pc = pc]
Bind(s, value) == [stack EXCEPT ![Len(stack)].pc = @ + 1,
                                ![Len(stack)].slots = [@ EXCEPT ![s] = value]]

Build ==
    /\ AtCode("put")
    /\ stack' = Bind(Here.to, Held(Top.slots, Here.from))
    /\ UNCHANGED <<analysis, phase, kept, result>>

\* One branch of an if, or of a match.
Choose(s) ==
    /\ AtCode("pick") /\ s \in Here.from
    /\ stack' = Bind(Here.to, Top.slots[s])
    /\ UNCHANGED <<analysis, phase, kept, result>>

\* A closure, a handler or the host: it may keep all it was given, and answer it.
HandOver ==
    /\ AtCode("give")
    /\ stack' = Bind(Here.to, Held(Top.slots, Here.from))
    /\ kept' = kept \union Held(Top.slots, Here.from)
    /\ UNCHANGED <<analysis, phase, result>>

\* Into a handler's state.
Keep ==
    /\ AtCode("keep")
    /\ kept' = kept \union Held(Top.slots, Here.from)
    /\ stack' = Goto(Top.pc + 1)
    /\ UNCHANGED <<analysis, phase, result>>

Call ==
    /\ AtCode("call")
    /\ IF Len(stack) < MaxDepth
         THEN /\ stack' = Append(stack, Frame(Here.of,
                    [s \in Slots |-> IF s \in DOMAIN Here.args THEN Top.slots[Here.args[s]] ELSE {}]))
              /\ UNCHANGED phase
         ELSE /\ phase' = "exhausted"
              /\ UNCHANGED stack
    /\ UNCHANGED <<analysis, kept, result>>

\* The innermost call returns a value to its caller, or ends the run.
Answer(value) ==
    IF Len(stack) = 1
    THEN phase' = "returned" /\ result' = value /\ UNCHANGED stack
    ELSE LET caller == stack[Len(stack) - 1]
             site == prog[caller.func].body[caller.pc]
         IN  /\ stack' = [SubSeq(stack, 1, Len(stack) - 1) EXCEPT
                            ![Len(stack) - 1].pc = @ + 1,
                            ![Len(stack) - 1].slots = [@ EXCEPT ![site.to] = value]]
             /\ UNCHANGED <<phase, result>>

\* A return inside a branch is taken or not.
Return ==
    /\ AtCode("return")
    /\ \/ Answer(Held(Top.slots, Here.from))
       \/ stack' = Goto(Top.pc + 1) /\ UNCHANGED <<phase, result>>
    /\ UNCHANGED <<analysis, kept>>

Fall ==
    /\ Running /\ Top.pc > Len(Code.body)
    /\ Answer(Top.slots[Code.value])
    /\ UNCHANGED <<analysis, kept>>

\* The condition is checked before each turn.
While ==
    /\ AtCode("while")
    /\ \E turn \in BOOLEAN :
         stack' = Goto(IF turn THEN Top.pc + 1 ELSE Top.pc + Here.len + 1)
    /\ UNCHANGED <<analysis, phase, kept, result>>

\* The last instruction of a while's body goes back to the condition.
Again ==
    /\ AtCode("again")
    /\ stack' = Goto(Top.pc - Here.len)
    /\ UNCHANGED <<analysis, phase, kept, result>>

-----------------------------------------------------------------------------

Run ==
    \/ Build \/ HandOver \/ Keep \/ Call \/ Return \/ Fall \/ While \/ Again
    \/ \E s \in Slots : Choose(s)

Next ==
    \/ WalkFunction \/ EndRound
    \/ \E f \in DOMAIN prog : Start(f)
    \/ Run

Spec == Init /\ [][Next]_vars

Params == UNION {1 .. prog[f].params : f \in DOMAIN prog}
Uses == [shared : SUBSET Slots, retained : SUBSET Slots]

Within(one, other) == one.shared \subseteq other.shared /\ one.retained \subseteq other.retained

\* Every variable keeps its shape, and a summary names parameters of its own
\* function only (reuse.rs Summary, Walk::new).
TypeOK ==
    /\ \A f \in DOMAIN prog :
         /\ known[f] \in Uses
         /\ known[f].shared \union known[f].retained \subseteq 1 .. prog[f].params
    /\ before \in [DOMAIN prog -> Uses]
    /\ round \in 0 .. Len(prog) /\ func \in 1 .. Len(prog) + 1 /\ quiet \in BOOLEAN
    /\ phase \in {"rounds", "runs", "returned", "exhausted"}
    /\ Len(stack) <= MaxDepth
    /\ \A d \in DOMAIN stack :
         /\ stack[d].func \in DOMAIN prog
         /\ stack[d].pc \in 1 .. Len(prog[stack[d].func].body) + 1
         /\ stack[d].slots \in [Slots -> SUBSET Slots]
    /\ kept \subseteq Slots /\ result \subseteq Slots

\* The answers hold of every run: storage a call's result reaches was called
\* shared with the result, storage reachable from elsewhere was called
\* retained.  A wrong "no" is a write into a block somebody still reads
\* (reuse.rs:19-23).
SummariesAreSound ==
    stack # <<>> =>
        /\ kept \subseteq known[stack[1].func].retained
        /\ phase = "returned" => result \subseteq known[stack[1].func].shared

\* What is handed out is a fixed point: walking any function once more with
\* the answers of all of them finds nothing that is not there
\* (reuse.rs:87-88 and 138-142).
Converged ==
    phase # "rounds" => \A f \in DOMAIN prog : Within(Walk(prog[f], known), known[f])

\* Ending the rounds because nothing moved means there was nothing to find.
QuietIsConverged == quiet => Converged
=============================================================================
