--------------------------- MODULE CompiledScopes ---------------------------
(***************************************************************************)
(* The code the backend emits for `with`, `perform` and `return`, over the  *)
(* memory it keeps handlers in.  HANDLERS holds the address of the          *)
(* innermost frame and a frame is                                           *)
(*      [next][effect][state][code 1][code 2]...                            *)
(* Frames and their state cells are taken from a stack of their own, whose  *)
(* top FRAME_BUMP holds, and ending a block puts both words back.  Memory   *)
(* is counted in words.  `todo` holds the locals of the code under way:     *)
(* what each open block and each started `with` or `perform` will still     *)
(* read.                                                                    *)
(***************************************************************************)
EXTENDS Integers, FiniteSets, SequencesExt

CONSTANTS
    Handlers, EffectOf, Fields, Codes, Effects, Operations, Values, MaxDepth,
    FRAME_START,   \* the first word of the frame stack
    HEAP_START,    \* the first word past it
    ReturnsInside, \* whether functions return from inside a `with` they opened
    AsksAnywhere   \* whether a function goes on after what the host answered

ASSUME HandlersAssumption ==
    /\ Effects \subseteq Nat /\ Values \subseteq Int /\ MaxDepth \in Nat
    /\ EffectOf \in [Handlers -> Effects] /\ Fields \in [Handlers -> Nat]
    /\ Operations \in [Effects -> Nat \ {0}]
    /\ DOMAIN Codes = Handlers
    /\ \A h \in Handlers : Codes[h] \in [1..Operations[EffectOf[h]] -> Nat]
    /\ \A h, k \in Handlers : Range(Codes[h]) \cap Range(Codes[k]) # {} => h = k
ASSUME LayoutAssumption ==
    /\ FRAME_START \in Nat \ {0} /\ HEAP_START \in Nat /\ FRAME_START <= HEAP_START
    /\ ReturnsInside \in BOOLEAN /\ AsksAnywhere \in BOOLEAN

VARIABLES
    memory,     \* the words of the frame stack
    handlers,   \* HANDLERS
    frameBump,  \* FRAME_BUMP
    todo,       \* what is under way, innermost last
    trapped     \* "no", or why the module trapped

vars == <<memory, handlers, frameBump, todo, trapped>>

Room == FRAME_START..(HEAP_START - 1)
FrameSize(h) == 3 + Operations[EffectOf[h]]

Top == Last(todo)
Running == trapped = "no" /\ todo # <<>> /\ Top.kind # "host"
Push(item) == Len(todo) < MaxDepth /\ todo' = Append(todo, item)
Boundaries == {i \in DOMAIN todo : todo[i].kind \in {"call", "op"}}
Current == CHOOSE i \in Boundaries : \A j \in Boundaries : j <= i
Open == {"fields", "body"}
OpensNothing == \A i \in Current..Len(todo) : todo[i].kind \notin Open

Hosted(e) == \A h \in Handlers : EffectOf[h] # e

\* The frames a walk from HANDLERS meets, innermost first, and the one a
\* `perform` stops at: zero when it reaches the end.
Onto(frame, walk) == <<frame>> \o walk
Chain[from \in 0..HEAP_START] ==
    IF from \in Room /\ memory[from] \in 0..(from - 1) THEN Onto(from, Chain[memory[from]]) ELSE <<>>
Frames == Chain[handlers]

\* As it would read if the walk went on past the first match.
FoundLast(e) == LET at == {i \in DOMAIN Frames : memory[Frames[i] + 1] = e}
                IN  IF at = {} THEN 0 ELSE Frames[CHOOSE i \in at : \A j \in at : j <= i]
Found(e) == LET at == {i \in DOMAIN Frames : memory[Frames[i] + 1] = e}
            IN  IF at = {} THEN 0 ELSE Frames[CHOOSE i \in at : \A j \in at : i <= j]

Init ==
    /\ memory = [a \in Room |-> 0] /\ handlers = 0 /\ frameBump = FRAME_START
    /\ todo = <<[kind |-> "call"]>> /\ trapped = "no"

Continue == UNCHANGED trapped
Trap(why) == trapped' = why /\ UNCHANGED <<memory, handlers, frameBump, todo>>

Fits(size) == frameBump + size <= HEAP_START

\* The state cell is reserved before its fields are worked out.
With(h) ==
    /\ Running /\ Fits(Fields[h])
    /\ Push([kind |-> "fields", handler |-> h, mark |-> frameBump, held |-> frameBump, n |-> 0])
    /\ frameBump' = frameBump + Fields[h]
    /\ UNCHANGED <<memory, handlers>> /\ Continue

StartField(v) ==
    /\ Running /\ Top.kind = "fields" /\ Top.n < Fields[Top.handler]
    /\ memory' = [memory EXCEPT ![Top.held + Top.n] = v]
    /\ todo' = Append(Front(todo), [Top EXCEPT !.n = @ + 1])
    /\ UNCHANGED <<handlers, frameBump>> /\ Continue

\* Then the frame, written whole and linked in over the one HANDLERS named.
Frame(h, held, at) == [a \in at..(at + FrameSize(h) - 1) |->
    CASE a = at     -> handlers
      [] a = at + 1 -> EffectOf[h]
      [] a = at + 2 -> held
      [] OTHER      -> Codes[h][a - at - 2]]

Install ==
    /\ Running /\ Top.kind = "fields" /\ Top.n = Fields[Top.handler]
    /\ Fits(FrameSize(Top.handler))
    /\ LET frame == Frame(Top.handler, Top.held, frameBump)
       IN  memory' = [a \in Room |-> IF a \in DOMAIN frame THEN frame[a] ELSE memory[a]]
    /\ handlers' = frameBump
    /\ frameBump' = frameBump + FrameSize(Top.handler)
    /\ todo' = Append(Front(todo), [kind |-> "body", mark |-> Top.mark, frame |-> frameBump])
    /\ Continue

\* Frames that do not fit trap rather than run into the value heap.
NoRoom ==
    /\ Running
    /\ \/ \E h \in Handlers : ~Fits(Fields[h])
       \/ Top.kind = "fields" /\ Top.n = Fields[Top.handler] /\ ~Fits(FrameSize(Top.handler))
    /\ Trap("room")

\* As it would read if the block rewound to its frame and not to its mark.
EndWithToFrame ==
    /\ Running /\ Top.kind = "body"
    /\ handlers' = memory[Top.frame] /\ frameBump' = Top.frame
    /\ todo' = Front(todo)
    /\ UNCHANGED memory /\ Continue

\* As it would read if an ended block left its frame linked.
EndWithLinked ==
    /\ Running /\ Top.kind = "body"
    /\ frameBump' = Top.mark
    /\ todo' = Front(todo)
    /\ UNCHANGED <<memory, handlers>> /\ Continue

EndWith ==
    /\ Running /\ Top.kind = "body"
    /\ handlers' = memory[Top.frame] /\ frameBump' = Top.mark
    /\ todo' = Front(todo)
    /\ UNCHANGED memory /\ Continue

Call == Running /\ Push([kind |-> "call"]) /\ UNCHANGED <<memory, handlers, frameBump>> /\ Continue

\* `return` leaves the function and neither word is put back.
Leave == todo' = SubSeq(todo, 1, Current - 1) /\ UNCHANGED <<memory, handlers, frameBump>>
Return == Running /\ (ReturnsInside \/ OpensNothing) /\ Leave /\ Continue

\* The frame that answers is found before the arguments are worked out.
Perform(e, op) ==
    /\ Running /\ op \in 1..Operations[e] /\ (Found(e) # 0 \/ Hosted(e))
    /\ Push([kind |-> "args", effect |-> e, op |-> op, cursor |-> Found(e)])
    /\ UNCHANGED <<memory, handlers, frameBump>> /\ Continue

Unanswered(e) == Running /\ Found(e) = 0 /\ ~Hosted(e) /\ Trap("nobody")

Answer ==
    /\ Running /\ Top.kind = "args" /\ Top.cursor # 0
    /\ todo' = Append(Front(todo), [kind |-> "op", cell |-> memory[Top.cursor + 2],
                                    code |-> memory[Top.cursor + 2 + Top.op]])
    /\ UNCHANGED <<memory, handlers, frameBump>> /\ Continue

AskHost ==
    /\ Running /\ Top.kind = "args" /\ Top.cursor = 0
    /\ (ReturnsInside \/ OpensNothing) /\ (AsksAnywhere \/ Current = Len(todo) - 1)
    /\ todo' = Append(Front(todo), [kind |-> "host"])
    /\ UNCHANGED <<memory, handlers, frameBump>> /\ Continue

\* The host's answer is what the function returns.
HostAnswer ==
    /\ trapped = "no" /\ todo # <<>> /\ Top.kind = "host"
    /\ Leave /\ Continue

\* An operation writes its handler's state through the cell it was handed.
\* Its handler is the one whose functions its code is one of.
HandlerOf(code) == CHOOSE h \in Handlers : code \in Range(Codes[h])
SetField(v) ==
    /\ Running /\ todo[Current].kind = "op"
    /\ \E f \in 1..Fields[HandlerOf(todo[Current].code)] :
          memory' = [memory EXCEPT ![todo[Current].cell + f - 1] = v]
    /\ UNCHANGED <<handlers, frameBump, todo>> /\ Continue

Next ==
    \/ \E h \in Handlers : With(h)
    \/ \E v \in Values : StartField(v) \/ SetField(v)
    \/ Install \/ EndWith \/ Call \/ Return
    \/ \E e \in Effects : \/ \E op \in 1..Operations[e] : Perform(e, op)
                          \/ Unanswered(e)
    \/ Answer \/ AskHost \/ HostAnswer \/ NoRoom

Spec == Init /\ [][Next]_vars

-----------------------------------------------------------------------------
(***************************************************************************)
(* What the memory means: the frames, outermost first, are the installed    *)
(* handlers.                                                                *)
(***************************************************************************)
HandlerAt(frame) == HandlerOf(memory[frame + 3])
Scope(frame) == [handler |-> HandlerAt(frame),
    state |-> [f \in 1..Fields[HandlerAt(frame)] |-> memory[memory[frame + 2] + f - 1]]]
Installed == [i \in DOMAIN Frames |-> Scope(Reverse(Frames)[i])]
Holder(cell) == LET at == {i \in DOMAIN Frames : memory[Reverse(Frames)[i] + 2] = cell}
                IN  IF at = {} THEN 0 ELSE CHOOSE i \in at : TRUE
BlocksBelow(i) == {j \in 1..(i - 1) : todo[j].kind = "body"}
Bodies(i) == Cardinality(BlocksBelow(i))
UnderWay == [i \in DOMAIN todo |->
    CASE todo[i].kind = "call" -> [kind |-> "call", height |-> Bodies(i)]
      [] todo[i].kind = "op" -> [kind |-> "op", height |-> Bodies(i),
                                 self |-> Holder(todo[i].cell), code |-> todo[i].code]
      [] todo[i].kind = "fields" -> [kind |-> "fields", handler |-> todo[i].handler,
             start |-> [f \in 1..todo[i].n |-> memory[todo[i].held + f - 1]]]
      [] todo[i].kind = "body" -> [kind |-> "body", height |-> Bodies(i)]
      [] todo[i].kind = "args" -> [kind |-> "args", effect |-> todo[i].effect, op |-> todo[i].op]
      [] todo[i].kind = "host" -> todo[i]]

Scopes == INSTANCE HandlerScopes WITH scopes <- Installed, todo <- UnderWay, stopped <- trapped

\* The compiled code does what `with` means: the innermost installation of the
\* walk is the innermost open block of every function still running, an
\* operation works on the state of the installation that was innermost when
\* its arguments had been worked out although the code looked before, and
\* leaving a function leaves the handlers its caller had.
ImplementsScopes == Scopes!Spec

\* The words are addresses of the frame stack, and every item under way keeps
\* addresses of it.
TypeOK ==
    /\ memory \in [Room -> Int] /\ trapped \in {"no", "nobody", "room"}
    /\ handlers \in {0} \cup Room /\ frameBump \in FRAME_START..HEAP_START
    /\ \A i \in DOMAIN todo :
        /\ todo[i].kind = "fields" =>
              /\ todo[i].mark \in FRAME_START..HEAP_START /\ todo[i].held = todo[i].mark
              /\ todo[i].n \in 0..Fields[todo[i].handler]
        /\ todo[i].kind = "body" => todo[i].frame \in Room /\ todo[i].mark \in Room
        /\ todo[i].kind = "args" => todo[i].cursor \in {0} \cup Room
        /\ todo[i].kind = "op" => todo[i].cell \in FRAME_START..HEAP_START

\* `with` links a frame in and unlinks it when the block ends: the walk meets
\* the frames of the open blocks, innermost first, and no other.
FramesAreTheOpenBlocks ==
    /\ Len(Frames) = Bodies(Len(todo) + 1)
    /\ \A i \in BlocksBelow(Len(todo) + 1) : Frames[Len(Frames) - Bodies(i)] = todo[i].frame

\* A frame's lifetime is exactly its block: the frame stack holds the cells and
\* frames of what is open and not a word more, each where the one below it
\* ends, so an ended block has given back all it took and no two overlap.
OpensBelow(i) == {j \in 1..(i - 1) : todo[j].kind \in Open}
Ends(item) == IF item.kind = "fields" THEN item.held + Fields[item.handler]
              ELSE item.frame + FrameSize(HandlerAt(item.frame))
EndBelow(i) == IF OpensBelow(i) = {} THEN FRAME_START ELSE Ends(todo[Max(OpensBelow(i))])
RoomIsGivenBack ==
    /\ frameBump = EndBelow(Len(todo) + 1)
    /\ \A i \in OpensBelow(Len(todo) + 1) : todo[i].mark = EndBelow(i)

\* The frame a `perform` found stays linked while its arguments are worked out,
\* and the cell an operation was handed stays its handler's: neither is read
\* after its block has ended and its words were given to another.
NothingStaleIsRead == \A i \in DOMAIN todo :
    /\ todo[i].kind = "args" /\ todo[i].cursor # 0 =>
          /\ Contains(Frames, todo[i].cursor)
          /\ memory[todo[i].cursor + 1] = todo[i].effect
    /\ todo[i].kind = "op" => Holder(todo[i].cell) # 0

=============================================================================
