---------------------------- MODULE InterpProofs ----------------------------
(***************************************************************************)
(* The interpreter leaves everything as it found it, for every program:    *)
(* proofs of TypeOK and of LeavesAsFound from the inductive invariant      *)
(* TypeOK /\ Balanced; then what an accepted program may rely on.          *)
(***************************************************************************)
EXTENDS Interp, SequenceTheorems, TLAPS

\* Dropping the last element of a sequence.
LEMMA FrontFacts ==
    ASSUME NEW S, NEW s \in Seq(S), s # <<>>
    PROVE  /\ Front(s) \in Seq(S)
           /\ Len(s) \in Nat /\ Len(s) > 0
           /\ Len(Front(s)) = Len(s) - 1
           /\ \A i \in 1..Len(s) - 1 : Front(s)[i] = s[i]
           /\ s[Len(s)] \in S
<1>1. Len(s) \in Nat /\ Len(s) > 0 /\ s[Len(s)] \in S
  OBVIOUS
<1>2. Front(s) = SubSeq(s, 1, Len(s) - 1)
  BY DEF Front
<1>3. Len(s) - 1 \in Int /\ \A i \in 1..Len(s) - 1 : s[i] \in S
  BY <1>1
<1>4. /\ Len(Front(s)) = Len(s) - 1 /\ Front(s) \in Seq(S)
      /\ \A i \in 1..Len(s) - 1 : Front(s)[i] = s[i]
  <2> DEFINE f == SubSeq(s, 1, Len(s) - 1)
         n == Len(s) - 1
  <2>2. /\ f \in Seq(S)
        /\ Len(f) = IF 1 <= n THEN n - 1 + 1 ELSE 0
        /\ \A i \in 1..n - 1 + 1 : f[i] = s[1 + i - 1]
    BY <1>3, SubSeqProperties
  <2>3. Len(f) = n /\ \A i \in 1..n : f[i] = s[i]
    <3>1. n \in Nat
      BY <1>1
    <3> HIDE DEF f, n
    <3> QED BY <2>2, <3>1
  <2> QED BY <1>2, <2>2, <2>3
<1> QED BY <1>1, <1>4

LEMMA DropFacts ==
    ASSUME NEW S, NEW s \in Seq(S), NEW n \in Nat, Len(s) = n + 1
    PROVE  Front(s) \in Seq(S) /\ Len(Front(s)) = n
<1>1. s # <<>>
  OBVIOUS
<1> QED BY <1>1, FrontFacts

\* Taking the first element off a sequence.
LEMMA TailFacts ==
    ASSUME NEW S, NEW s \in Seq(S), s # <<>>
    PROVE  /\ Head(s) \in S /\ Tail(s) \in Seq(S)
           /\ Len(s) # 1 => Tail(s) # <<>>
<1>1. Head(s) \in S /\ Tail(s) \in Seq(S) /\ Len(s) \in Nat /\ Len(s) > 0
  OBVIOUS
<1>2. Len(Tail(s)) = Len(s) - 1
  BY HeadTailProperties
<1> DEFINE t == Tail(s)
<1>3. t \in Seq(S) /\ (Len(s) # 1 => Len(t) # 0)
  BY <1>1, <1>2
<1> HIDE DEF t
<1>4. Len(s) # 1 => t # <<>>
  BY <1>3
<1> QED BY <1>1, <1>4 DEF t

\* Appending an element to a sequence.
LEMMA AppendFacts ==
    ASSUME NEW S, NEW s \in Seq(S), NEW e \in S
    PROVE  /\ Append(s, e) \in Seq(S)
           /\ Len(s) \in Nat
           /\ Len(Append(s, e)) = Len(s) + 1
           /\ \A i \in 1..Len(s) : Append(s, e)[i] = s[i]
           /\ Append(s, e)[Len(s) + 1] = e
OBVIOUS

\* Replacing one element of a sequence.
LEMMA ReplaceFacts ==
    ASSUME NEW S, NEW s \in Seq(S), NEW n \in 1..Len(s), NEW e \in S
    PROVE  /\ [s EXCEPT ![n] = e] \in Seq(S)
           /\ Len([s EXCEPT ![n] = e]) = Len(s)
           /\ [s EXCEPT ![n] = e][n] = e
           /\ \A i \in 1..Len(s) : i # n => [s EXCEPT ![n] = e][i] = s[i]
OBVIOUS

LEMMA SizesTyped == TypeOK => Sizes \in SizeRecords
<1>1. \A S, s : s \in Seq(S) => Len(s) \in Nat
  OBVIOUS
<1>2. ASSUME TypeOK
      PROVE  /\ frames \in Nat /\ olds \in Nat /\ inContract \in Nat
             /\ Len(rows) \in Nat /\ Len(insideHandler) \in Nat
             /\ Len(entryStates) \in Nat /\ Len(handlers) \in Nat
  BY <1>1, <1>2 DEF TypeOK
<1> QED BY <1>2 DEF Sizes, SizeRecords

\* The stack and its length.
LEMMA StackTyped ==
    ASSUME TypeOK
    PROVE  /\ stack \in Seq(Activations) /\ Depth = Len(stack) /\ Depth \in Nat
           /\ stack # <<>> => Depth > 0 /\ Depth \in 1..Depth /\ Top \in Activations
           /\ \A i \in 1..Depth : stack[i] \in Activations
<1>1. stack \in Seq(Activations)
  BY DEF TypeOK
<1> QED BY <1>1 DEF Depth, Top

\* Two activations that differ in nothing Balanced looks at.
Alike(a, b) ==
    /\ a.kind = b.kind /\ a.name = b.name /\ a.phase = b.phase
    /\ a.handler = b.handler /\ a.todo = b.todo /\ a.base = b.base /\ a.at = b.at

LEMMA AlikeFacts ==
    ASSUME NEW a, NEW b, Alike(a, b)
    PROVE  /\ WellFormed(b) => WellFormed(a)
           /\ \A s : Added(b, s) => Added(a, s)
BY DEF Alike, WellFormed, Added, One, Holds, Captures

\* A new activation, begun with everything as it is.
LEMMA PushBalanced ==
    ASSUME TypeOK, Balanced, NEW a, Len(stack') = Depth + 1, stack'[Depth + 1] = a,
           \A i \in 1..Depth : Alike(stack'[i], stack[i]),
           a.at = Sizes, Added(a, Sizes'), WellFormed(a)
    PROVE  Balanced'
<1>1. Depth' = Depth + 1 /\ Depth \in Nat
  BY StackTyped DEF Depth
<1>2. ASSUME NEW i \in 1..Depth
      PROVE  Added(stack'[i], stack'[i + 1].at)
  <2>1. Alike(stack'[i], stack[i])
    OBVIOUS
  <2>2. CASE i = Depth
    <3>1. stack # <<>> /\ stack[i] = Top /\ stack'[i + 1].at = Sizes
      BY <1>1, <2>2 DEF Top, Depth
    <3>2. Added(Top, Sizes)
      BY <3>1 DEF Balanced
    <3> QED BY <2>1, <3>1, <3>2, AlikeFacts
  <2>3. CASE i # Depth
    <3>1. i \in 1..Depth - 1 /\ i + 1 \in 1..Depth
      BY <1>1, <2>3
    <3>2. Added(stack[i], stack[i + 1].at)
      BY <3>1 DEF Balanced
    <3>3. stack'[i + 1].at = stack[i + 1].at
      BY <3>1 DEF Alike
    <3> QED BY <2>1, <3>2, <3>3, AlikeFacts
  <2> QED BY <2>2, <2>3
<1>3. Top' = a
  BY <1>1 DEF Top
<1>4. \A i \in 1..Depth : WellFormed(stack'[i])
  BY AlikeFacts DEF Balanced
<1>5. \A i \in 1..Depth' : WellFormed(stack'[i])
  BY <1>1, <1>4
<1>6. \A i \in 1..Depth' - 1 : Added(stack'[i], stack'[i + 1].at)
  BY <1>1, <1>2
<1>7. Added(Top', Sizes')
  BY <1>3
<1> QED BY <1>5, <1>6, <1>7 DEF Balanced, Added, WellFormed, One, Holds, Captures

\* The innermost activation is gone, and what it added with it.
LEMMA PopBalanced ==
    ASSUME TypeOK, Balanced, stack # <<>>, Len(stack') = Depth - 1,
           \A i \in 1..Depth - 1 : Alike(stack'[i], stack[i]),
           stack' \in Seq(Activations), Sizes' = Top.at
    PROVE  Balanced'
<1>1. Depth' = Depth - 1 /\ Depth \in Nat /\ Depth > 0
  BY StackTyped DEF Depth
<1>2. ASSUME NEW i \in 1..Depth - 1
      PROVE  Added(stack'[i], stack[i + 1].at)
  <2>1. Added(stack[i], stack[i + 1].at)
    BY DEF Balanced
  <2> QED BY <2>1, AlikeFacts
<1>3. \A i \in 1..Depth' - 1 : Added(stack'[i], stack'[i + 1].at)
  <2>1. ASSUME NEW i \in 1..Depth' - 1
        PROVE  Added(stack'[i], stack'[i + 1].at)
    <3>1. i \in 1..Depth - 1 /\ i + 1 \in 1..Depth - 1
      BY <1>1
    <3>2. stack'[i + 1].at = stack[i + 1].at
      BY <3>1 DEF Alike
    <3> QED BY <1>2, <3>1, <3>2
  <2> QED BY <2>1
<1>4. ASSUME stack' # <<>> PROVE Added(Top', Sizes')
  <2>1. Depth - 1 \in 1..Depth - 1
    BY <1>1, <1>4
  <2>2. Top' = stack'[Depth - 1] /\ stack[Depth - 1 + 1].at = Sizes'
    BY <1>1 DEF Top
  <2> QED BY <1>2, <2>1, <2>2
<1>5. \A i \in 1..Depth' : WellFormed(stack'[i])
  <2>1. \A i \in 1..Depth - 1 : WellFormed(stack'[i])
    BY <1>1, AlikeFacts DEF Balanced
  <2> QED BY <1>1, <2>1
<1> QED BY <1>3, <1>4, <1>5 DEF Balanced, Added, WellFormed, One, Holds, Captures

\* The innermost activation moves on.
LEMMA MoveBalanced ==
    ASSUME TypeOK, Balanced, stack # <<>>, NEW b \in Activations,
           stack' = [stack EXCEPT ![Depth] = b],
           b.at = Top.at, Added(b, Sizes'), WellFormed(b)
    PROVE  Balanced'
<1>1. Len(stack') = Depth /\ Depth \in Nat /\ Depth > 0 /\ stack'[Depth] = b
      /\ \A i \in 1..Depth : i # Depth => stack'[i] = stack[i]
  BY StackTyped, ReplaceFacts
<1>2. ASSUME NEW i \in 1..Depth' - 1
      PROVE  Added(stack[i], stack[i + 1].at)'
  <2>1. i \in 1..Depth - 1 /\ stack'[i] = stack[i] /\ stack'[i + 1].at = stack[i + 1].at
    <3>0. Depth' = Depth
      BY <1>1 DEF Depth
    <3>1. i \in 1..Depth - 1 /\ i # Depth /\ i \in 1..Depth /\ i + 1 \in 1..Depth
      BY <1>1, <3>0
    <3>2. CASE i + 1 = Depth
      BY <3>1, <3>2, <1>1 DEF Top
    <3>3. CASE i + 1 # Depth
      BY <3>1, <3>3, <1>1
    <3> QED BY <3>1, <3>2, <3>3, <1>1
  <2>2. Added(stack[i], stack[i + 1].at)
    BY <2>1 DEF Balanced
  <2> QED BY <2>1, <2>2 DEF Added, One, Holds, Captures
<1>3. Top' = b
  BY <1>1 DEF Top, Depth
<1>4. Added(Top, Sizes)'
  BY <1>3 DEF Added, One, Holds, Captures
<1>5. \A i \in 1..Depth' : WellFormed(stack'[i])
  BY <1>1 DEF Balanced, WellFormed, Depth
<1> QED BY <1>2, <1>4, <1>5 DEF Balanced, WellFormed

-----------------------------------------------------------------------------
(* The shape of what the actions build *)

LEMMA NoneTyped == None \in Signals
BY DEF None, Signal, Signals

\* A signal that is about nobody, about a piece of code, or about an operation.
LEMMA SignalTyped ==
    ASSUME NEW kind \in Failures \cup {"none", "return"},
           NEW about \in Names \cup {<<"", o>> : o \in Ops} \cup {Nobody}
    PROVE  Signal(kind, about) \in Signals
BY DEF Signal, Signals

LEMMA LensTyped ==
    ASSUME TypeOK
    PROVE  /\ frames \in Nat /\ olds \in Nat /\ inContract \in Nat
           /\ Len(rows) \in Nat /\ Len(insideHandler) \in Nat
           /\ Len(entryStates) \in Nat /\ Len(handlers) \in Nat
<1>1. \A S, s : s \in Seq(S) => Len(s) \in Nat
  OBVIOUS
<1> QED BY <1>1 DEF TypeOK

Instances == [handler: Handlers, state: Values, cleaned: Nat]

LEMMA HandlersTyped ==
    ASSUME TypeOK
    PROVE  /\ handlers \in Seq(Instances)
           /\ \A i \in 1..Len(handlers) : handlers[i] \in Instances
           /\ \A i \in 1..Len(handlers) : handlers[i].handler \in Handlers
<1>1. handlers \in Seq(Instances)
  BY DEF TypeOK, Instances
<1>2. \A i \in 1..Len(handlers) : handlers[i] \in Instances
  BY <1>1
<1> QED BY <1>1, <1>2 DEF Instances

Kinds == {"test", "call", "closure", "with", "finally", "refuses"}
Phases == {"enter", "where", "old", "body", "ensures", "install", "finally"}

LEMMA ActivationTyped ==
    ASSUME TypeOK, NEW kind \in Kinds, NEW name \in Names, NEW phase \in Phases,
           NEW may \in Rows
    PROVE  /\ Activation(kind, name, phase, may) \in Activations
           /\ Activation(kind, name, phase, may).kind = kind
           /\ Activation(kind, name, phase, may).name = name
           /\ Activation(kind, name, phase, may).phase = phase
           /\ Activation(kind, name, phase, may).at = Sizes
           /\ Activation(kind, name, phase, may).base = Len(handlers)
<1>1. Len(handlers) \in Nat /\ None \in Signals /\ Sizes \in SizeRecords
      /\ <<>> \in Seq(Handlers)
  BY LensTyped, NoneTyped, SizesTyped
<1> QED BY <1>1 DEF Activation, Activations, Kinds, Phases

StepOK == (TypeOK /\ Balanced)' /\ (Depth' < Depth => Sizes' = Top.at)

LEMMA AppendLength ==
    ASSUME NEW S, NEW s \in Seq(S), NEW e
    PROVE  Len(Append(s, e)) = Len(s) + 1
OBVIOUS

\* What Added says of a call that has just begun.
LEMMA AddedToCall ==
    ASSUME TypeOK, NEW a \in Activations, a.kind = "call", a.at = Sizes,
           frames' = frames + 1, Len(rows') = Len(rows) + 1,
           Len(insideHandler') = Len(insideHandler) + One(a.handler # 0),
           olds' = olds, entryStates' = entryStates, handlers' = handlers,
           inContract' = inContract + One(a.phase \in Contracts),
           a.phase # "old", ~Holds(a)
    PROVE  Added(a, Sizes')
<1>1. /\ Sizes'.frames = frames + 1 /\ Sizes'.rows = Len(rows) + 1
      /\ Sizes'.inside = Len(insideHandler) + One(a.handler # 0)
      /\ Sizes'.olds = olds /\ Sizes'.entered = Len(entryStates)
      /\ Sizes'.contract = inContract + One(a.phase \in Contracts)
      /\ Sizes'.handlers = Len(handlers)
  BY DEF Sizes
<1>2. /\ a.at.frames = frames /\ a.at.rows = Len(rows)
      /\ a.at.inside = Len(insideHandler)
      /\ a.at.olds = olds /\ a.at.entered = Len(entryStates)
      /\ a.at.contract = inContract /\ a.at.handlers = Len(handlers)
  BY DEF Sizes
<1> QED BY <1>1, <1>2, LensTyped DEF Added, One

-----------------------------------------------------------------------------
(* The four shapes of a step: the stack stays, grows, moves on or shrinks *)

LEMMA StayOK ==
    ASSUME TypeOK, Balanced, TypeOK', stack' = stack, Sizes' = Sizes
    PROVE  StepOK
<1>1. Depth' = Depth /\ Top' = Top /\ Depth \in Nat
  BY StackTyped DEF Depth, Top
<1>2. Balanced'
  BY <1>1 DEF Balanced, Added, One, Holds, Captures
<1> QED BY <1>1, <1>2 DEF StepOK

LEMMA PushOK ==
    ASSUME TypeOK, Balanced, TypeOK', NEW a \in Activations,
           stack' = Append(stack, a), a.at = Sizes, Added(a, Sizes'), WellFormed(a)
    PROVE  StepOK
<1>1. Len(stack') = Depth + 1 /\ Depth \in Nat /\ stack'[Depth + 1] = a
      /\ \A i \in 1..Depth : stack'[i] = stack[i]
  BY StackTyped, AppendFacts DEF Depth
<1>2. \A i \in 1..Depth : Alike(stack'[i], stack[i])
  BY <1>1 DEF Alike
<1>3. Balanced'
  BY <1>1, <1>2, PushBalanced
<1>4. Depth' = Depth + 1
  BY <1>1 DEF Depth
<1> QED BY <1>1, <1>3, <1>4 DEF StepOK

LEMMA MoveOK ==
    ASSUME TypeOK, Balanced, TypeOK', stack # <<>>, NEW b \in Activations,
           stack' = [stack EXCEPT ![Depth] = b],
           b.at = Top.at, Added(b, Sizes'), WellFormed(b)
    PROVE  StepOK
<1>1. Depth' = Depth /\ Depth \in Nat
  BY StackTyped, ReplaceFacts DEF Depth
<1>2. Balanced'
  BY MoveBalanced
<1> QED BY <1>1, <1>2 DEF StepOK

LEMMA PopOK ==
    ASSUME TypeOK, Balanced, TypeOK', stack # <<>>, stack' = Front(stack),
           Sizes' = Top.at
    PROVE  StepOK
<1>1. Len(stack') = Depth - 1 /\ stack' \in Seq(Activations)
      /\ \A i \in 1..Depth - 1 : stack'[i] = stack[i]
  BY StackTyped, FrontFacts
<1>2. \A i \in 1..Depth - 1 : Alike(stack'[i], stack[i])
  BY <1>1 DEF Alike
<1>3. Balanced'
  BY <1>1, <1>2, PopBalanced
<1> QED BY <1>3 DEF StepOK

\* What the innermost activation has added to what it found.
LEMMA TopFacts ==
    ASSUME TypeOK, Balanced, stack # <<>>
    PROVE  /\ Top \in Activations /\ Top.at \in SizeRecords /\ WellFormed(Top)
           /\ Added(Top, Sizes)
           /\ frames = Top.at.frames + One(Top.kind \in {"call", "closure", "finally"})
           /\ Len(rows) = Top.at.rows + One(Top.kind \in {"call", "finally"})
           /\ Len(insideHandler) = Top.at.inside
                 + One(Top.kind = "finally" \/ (Top.kind = "call" /\ Top.handler # 0))
           /\ olds = Top.at.olds
                 + One(Top.kind = "call" /\ (Top.phase = "old" \/ Holds(Top)))
           /\ Len(entryStates) = Top.at.entered + One(Holds(Top))
           /\ inContract = Top.at.contract
                 + One(Top.kind = "call" /\ Top.phase \in Contracts)
           /\ IF Top.kind = "with" THEN Len(handlers) >= Top.at.handlers
                                   ELSE Len(handlers) = Top.at.handlers
<1>1. Top \in Activations /\ Top.at \in SizeRecords
  BY StackTyped DEF Activations
<1>2. Added(Top, Sizes) /\ WellFormed(Top)
  BY StackTyped DEF Balanced, WellFormed, Top
<1>3. /\ Sizes.frames = frames /\ Sizes.rows = Len(rows)
      /\ Sizes.inside = Len(insideHandler) /\ Sizes.olds = olds
      /\ Sizes.entered = Len(entryStates) /\ Sizes.contract = inContract
      /\ Sizes.handlers = Len(handlers)
  BY DEF Sizes
<1> QED BY <1>1, <1>2, <1>3 DEF Added

\* Added after a step, from the sizes after it.
LEMMA AddedAfter ==
    ASSUME NEW a,
           frames' = a.at.frames + One(a.kind \in {"call", "closure", "finally"}),
           Len(rows') = a.at.rows + One(a.kind \in {"call", "finally"}),
           Len(insideHandler') = a.at.inside
              + One(a.kind = "finally" \/ (a.kind = "call" /\ a.handler # 0)),
           olds' = a.at.olds + One(a.kind = "call" /\ (a.phase = "old" \/ Holds(a))),
           Len(entryStates') = a.at.entered + One(Holds(a)),
           inContract' = a.at.contract + One(a.kind = "call" /\ a.phase \in Contracts),
           IF a.kind = "with" THEN Len(handlers') >= a.at.handlers
                              ELSE Len(handlers') = a.at.handlers
    PROVE  Added(a, Sizes')
<1>1. /\ Sizes'.frames = frames' /\ Sizes'.rows = Len(rows')
      /\ Sizes'.inside = Len(insideHandler') /\ Sizes'.olds = olds'
      /\ Sizes'.entered = Len(entryStates') /\ Sizes'.contract = inContract'
      /\ Sizes'.handlers = Len(handlers')
  BY DEF Sizes
<1> QED BY <1>1 DEF Added

LEMMA SizesAre ==
    ASSUME NEW s \in SizeRecords,
           frames' = s.frames, Len(rows') = s.rows, Len(insideHandler') = s.inside,
           olds' = s.olds, Len(entryStates') = s.entered, inContract' = s.contract,
           Len(handlers') = s.handlers
    PROVE  Sizes' = s
BY DEF Sizes, SizeRecords

-----------------------------------------------------------------------------
(* Calls *)

LEMMA EnterCallOK ==
    ASSUME TypeOK, Balanced, NEW name \in Names, NEW promise \in Rows,
           NEW handler \in Nat, NEW may \in Rows,
           EnterCall(name, promise, handler, may)
    PROVE  StepOK
<1> DEFINE deep == frames + 1 > MaxDepth
           fresh == Activation("call", name, IF deep THEN "enter" ELSE "where", may)
           a == [fresh EXCEPT !.handler = handler]
<1>1. fresh \in Activations /\ fresh.kind = "call" /\ fresh.name = name
      /\ fresh.phase = (IF deep THEN "enter" ELSE "where") /\ fresh.at = Sizes
  BY ActivationTyped DEF Kinds, Phases
<1>2. /\ a \in Activations /\ a.kind = "call" /\ a.handler = handler /\ a.at = Sizes
      /\ a.phase = (IF deep THEN "enter" ELSE "where") /\ a.name = name
  <2> HIDE DEF fresh, deep
  <2> QED BY <1>1 DEF Activations
<1>3. /\ stack' = Append(stack, a)
      /\ frames' = frames + 1
      /\ rows' = Append(rows, [handled |-> Len(handlers), handler |-> handler,
                               promise |-> promise])
      /\ insideHandler' = IF handler # 0 THEN Append(insideHandler, handler)
                                         ELSE insideHandler
      /\ inContract' = IF deep THEN inContract ELSE inContract + 1
      /\ signal' = IF deep THEN Signal("deep", Nobody) ELSE None
      /\ UNCHANGED <<handlers, olds, entryStates, entry, answer, abandoned>>
  BY DEF EnterCall
<1> HIDE DEF fresh, a
<1>4. TypeOK'
  <2>1. stack' \in Seq(Activations)
    BY <1>2, <1>3, AppendFacts, StackTyped
  <2>2. rows' \in Seq([handled: Nat, handler: Nat, promise: Rows])
        /\ insideHandler' \in Seq(Nat)
    BY <1>3, AppendFacts, LensTyped DEF TypeOK
  <2>3. signal' \in Signals
    BY <1>3, NoneTyped, SignalTyped DEF Failures
  <2>4. frames' \in Nat /\ inContract' \in Nat
    <3> HIDE DEF deep
    <3> QED BY <1>3, LensTyped
  <2> QED BY <2>1, <2>2, <2>3, <2>4, <1>3 DEF TypeOK
<1>5. Added(a, Sizes')
  <2>1. /\ Len(rows') = Len(rows) + 1
        /\ Len(insideHandler') = Len(insideHandler) + One(handler # 0)
    <3>1. rows \in Seq([handled: Nat, handler: Nat, promise: Rows])
          /\ insideHandler \in Seq(Nat)
      BY DEF TypeOK
    <3> QED BY <1>3, <3>1, AppendLength, LensTyped DEF One
  <2>2. ~Holds(a)
    BY <1>2 DEF Holds
  <2>3. inContract' = inContract + One(a.phase \in Contracts)
        /\ a.phase # "old"
    <3> HIDE DEF deep
    <3> QED BY <1>2, <1>3, LensTyped DEF One, Contracts
  <2> QED BY <2>1, <2>2, <2>3, <1>2, <1>3, LensTyped, AddedToCall
<1>6. WellFormed(a)
  BY <1>2 DEF WellFormed
<1> QED BY <1>2, <1>3, <1>4, <1>5, <1>6, PushOK

-----------------------------------------------------------------------------
(* Steps that leave the stack alone *)

LEMMA RaiseOK ==
    ASSUME TypeOK, Balanced, NEW s \in Signals, Raise(s), abandoned' \in BOOLEAN
    PROVE  StepOK
<1>1. TypeOK'
  BY DEF Raise, TypeOK
<1>2. stack' = stack /\ Sizes' = Sizes
  BY DEF Raise, Sizes
<1> QED BY <1>1, <1>2, StayOK

LEMMA NoHandlerOK ==
    ASSUME TypeOK, Balanced, NEW o \in Ops, NoHandler(o)
    PROVE  StepOK
<1> DEFINE s == Signal(IF o \in entry THEN "boundary" ELSE "nohandler", <<"", o>>)
<1>1. s \in Signals
  BY SignalTyped DEF Failures
<1>2. Raise(s) /\ abandoned' \in BOOLEAN
  BY DEF NoHandler, TypeOK
<1> HIDE DEF s
<1> QED BY <1>1, <1>2, RaiseOK

LEMMA RowNotKeptOK ==
    ASSUME TypeOK, Balanced, NEW o \in Ops, RowNotKept(o)
    PROVE  StepOK
<1>1. Signal("row", <<"", o>>) \in Signals
  BY SignalTyped DEF Failures
<1>2. Raise(Signal("row", <<"", o>>)) /\ abandoned' \in BOOLEAN
  BY DEF RowNotKept, TypeOK
<1> QED BY <1>1, <1>2, RaiseOK

LEMMA ReturnOK ==
    ASSUME TypeOK, Balanced, Return
    PROVE  StepOK
<1>1. Top.name \in Names
  BY StackTyped DEF Return, Evaluating, Activations
<1>2. Signal("return", Top.name) \in Signals
  BY <1>1, SignalTyped
<1>3. Raise(Signal("return", Top.name)) /\ abandoned' \in BOOLEAN
  BY DEF Return, TypeOK
<1> QED BY <1>2, <1>3, RaiseOK

LEMMA FailOK ==
    ASSUME TypeOK, Balanced, NEW kind \in Faults, Fail(kind)
    PROVE  StepOK
<1>1. kind \in Failures
  BY ProgramAssumption DEF Failures
<1>2. Signal(kind, Nobody) \in Signals
  BY <1>1, SignalTyped
<1>3. Raise(Signal(kind, Nobody)) /\ abandoned' \in BOOLEAN
  BY DEF Fail, TypeOK
<1> QED BY <1>2, <1>3, RaiseOK

LEMMA UnchangedOK ==
    ASSUME TypeOK, Balanced, Unchanged
    PROVE  StepOK
<1>1. answer' \in {"none", "nothing", "this call", "another call"}
  BY DEF Unchanged
<1>2. TypeOK'
  BY <1>1 DEF Unchanged, TypeOK
<1>3. stack' = stack /\ Sizes' = Sizes
  BY DEF Unchanged, Sizes
<1> QED BY <1>2, <1>3, StayOK

LEMMA AssignOK ==
    ASSUME TypeOK, Balanced, NEW value \in Values, Assign(value)
    PROVE  StepOK
<1> DEFINE i == Last(insideHandler)
<1>1. handlers' = [handlers EXCEPT ![i].state = value] /\ handlers \in Seq(Instances)
  BY HandlersTyped DEF Assign
<1>2. handlers' \in Seq(Instances) /\ Len(handlers') = Len(handlers)
  <2>1. CASE i \in 1..Len(handlers)
    <3>2. [handlers[i] EXCEPT !.state = value] \in Instances
      <4>1. handlers[i] \in Instances
        BY <2>1, HandlersTyped
      <4> QED BY <4>1 DEF Instances
    <3>3. handlers' = [handlers EXCEPT ![i] = [handlers[i] EXCEPT !.state = value]]
      BY <1>1
    <3> HIDE DEF i
    <3> QED BY <1>1, <2>1, <3>2, <3>3, ReplaceFacts
  <2>2. CASE i \notin 1..Len(handlers)
    <3>1. handlers' = handlers
      <4> HIDE DEF i
      <4> QED BY <1>1, <2>2
    <3> QED BY <1>1, <3>1
  <2> QED BY <2>1, <2>2
<1>3. TypeOK'
  BY <1>2 DEF Assign, TypeOK, Instances
<1>4. stack' = stack /\ Sizes' = Sizes
  BY <1>2 DEF Assign, Sizes
<1> QED BY <1>3, <1>4, StayOK

-----------------------------------------------------------------------------
(* The stages of a call *)

LEMMA CallOK ==
    ASSUME TypeOK, Balanced, NEW f \in Functions, NEW lent, Call(f, lent)
    PROVE  StepOK
<1>1. May \in Rows
  BY StackTyped DEF Call, Evaluating, May, Activations, Rows
<1>2. Uses[f] \cup lent \in Rows /\ PromiseOf(f) \in Rows
  BY <1>1, ProgramAssumption DEF Call, PromiseOf, Anything, Rows
<1>3. Fn(f) \in Names /\ 0 \in Nat
  BY DEF Names
<1>4. EnterCall(Fn(f), PromiseOf(f), 0, Uses[f] \cup lent)
  BY DEF Call
<1> QED BY <1>2, <1>3, <1>4, EnterCallOK

LEMMA DispatchOK ==
    ASSUME TypeOK, Balanced, NEW o \in Ops, NEW i \in 1..Len(handlers), Dispatch(o, i)
    PROVE  StepOK
<1> DEFINE h == handlers[i].handler
<1>1. h \in Handlers
  BY HandlersTyped
<1>2. EffectOf[o] = Implements[h]
  BY DEF Dispatch, Innermost, Installed
<1>3. EnterCall(<<h, o>>, OpUses[<<h, o>>], i, OpUses[<<h, o>>])
  BY DEF Dispatch
<1> HIDE DEF h
<1>4. <<h, o>> \in Operations
  BY <1>1, <1>2 DEF Operations
<1>5. <<h, o>> \in Names /\ OpUses[<<h, o>>] \in Rows /\ i \in Nat
  BY <1>4, LensTyped, ProgramAssumption DEF Names
<1> QED BY <1>3, <1>5, EnterCallOK

\* A call moves on to another phase.
LEMMA PhaseOK ==
    ASSUME TypeOK, Balanced, stack # <<>>, NEW phase \in Phases, Top.kind # "with",
           phase = "old" => Captures(Top),
           stack' = [stack EXCEPT ![Depth].phase = phase]
    PROVE  /\ [Top EXCEPT !.phase = phase] \in Activations
           /\ stack' = [stack EXCEPT ![Depth] = [Top EXCEPT !.phase = phase]]
           /\ stack' \in Seq(Activations)
           /\ [Top EXCEPT !.phase = phase].kind = Top.kind
           /\ [Top EXCEPT !.phase = phase].name = Top.name
           /\ [Top EXCEPT !.phase = phase].handler = Top.handler
           /\ [Top EXCEPT !.phase = phase].at = Top.at
           /\ [Top EXCEPT !.phase = phase].phase = phase
           /\ WellFormed([Top EXCEPT !.phase = phase])
<1>1. Top \in Activations /\ stack \in Seq(Activations) /\ Depth \in 1..Len(stack)
  BY StackTyped DEF Depth
<1>2. [Top EXCEPT !.phase = phase] \in Activations
  BY <1>1 DEF Activations, Phases
<1>3. stack' = [stack EXCEPT ![Depth] = [Top EXCEPT !.phase = phase]]
  BY DEF Top
<1>4. stack' \in Seq(Activations)
  BY <1>1, <1>2, <1>3, ReplaceFacts
<1> DEFINE b == [Top EXCEPT !.phase = phase]
<1>5. /\ b.kind = Top.kind /\ b.name = Top.name /\ b.handler = Top.handler
      /\ b.at = Top.at /\ b.phase = phase
  BY <1>1 DEF Activations
<1> HIDE DEF b
<1>6. WellFormed(b)
  BY <1>5 DEF WellFormed, Captures
<1> QED BY <1>1, <1>2, <1>3, <1>4, <1>5, <1>6 DEF b

LEMMA RequiresHoldOK ==
    ASSUME TypeOK, Balanced, RequiresHold
    PROVE  StepOK
<1> DEFINE phase == IF Captures(Top) THEN "old" ELSE "body"
           b == [Top EXCEPT !.phase = phase]
<1>1. stack # <<>> /\ Top.kind = "call" /\ Top.phase = "where"
  BY DEF RequiresHold, Evaluating
<1>2. phase \in Phases /\ stack' = [stack EXCEPT ![Depth].phase = phase]
      /\ (phase = "old" => Captures(Top))
  BY DEF RequiresHold, Phases
<1>3. /\ b \in Activations /\ stack' = [stack EXCEPT ![Depth] = b] /\ WellFormed(b)
      /\ stack' \in Seq(Activations) /\ b.kind = "call" /\ b.name = Top.name
      /\ b.handler = Top.handler /\ b.at = Top.at /\ b.phase = phase
  <2> HIDE DEF phase
  <2> QED BY <1>1, <1>2, PhaseOK
<1>4. inContract = Top.at.contract + 1 /\ olds = Top.at.olds
      /\ Len(entryStates) = Top.at.entered /\ Top.at \in SizeRecords
  <2>1. /\ One(Top.kind = "call" /\ (Top.phase = "old" \/ Holds(Top))) = 0
        /\ One(Holds(Top)) = 0
        /\ One(Top.kind = "call" /\ Top.phase \in Contracts) = 1
    BY <1>1 DEF One, Holds, Contracts
  <2>2. /\ olds = Top.at.olds + 0 /\ inContract = Top.at.contract + 1
        /\ Len(entryStates) = Top.at.entered + 0
    BY <1>1, <2>1, TopFacts
  <2>3. /\ Top.at \in SizeRecords /\ Top.at.olds \in Nat /\ Top.at.entered \in Nat
    BY <1>1, TopFacts DEF SizeRecords
  <2> QED BY <2>2, <2>3
<1>5. /\ olds' = olds + One(Captures(Top))
      /\ inContract' = (IF Captures(Top) THEN inContract ELSE inContract - 1)
      /\ UNCHANGED <<frames, rows, handlers, insideHandler, entryStates, entry,
                     signal, answer, abandoned>>
  BY LensTyped DEF RequiresHold, One
<1>6. TypeOK'
  <2>1. olds' \in Nat
    <3>1. olds' = olds + 0 \/ olds' = olds + 1
      BY <1>5 DEF One
    <3> QED BY <3>1, LensTyped
  <2>2. inContract' \in Nat
    <3>1. inContract' = inContract \/ inContract' = inContract - 1
      BY <1>5
    <3>2. Top.at.contract \in Nat /\ inContract = Top.at.contract + 1
      BY <1>4 DEF SizeRecords
    <3> QED BY <3>1, <3>2
  <2> QED BY <2>1, <2>2, <1>3, <1>5 DEF TypeOK
<1> HIDE DEF b
<1>7. Captures(b) <=> Captures(Top)
  BY <1>1, <1>3 DEF Captures
<1>8. /\ olds' = b.at.olds + One(b.kind = "call" /\ (b.phase = "old" \/ Holds(b)))
      /\ Len(entryStates') = b.at.entered + One(Holds(b))
      /\ inContract' = b.at.contract + One(b.kind = "call" /\ b.phase \in Contracts)
  <2>1. CASE Captures(Top)
    <3>1. b.phase = "old" /\ ~Holds(b) /\ b.phase \in Contracts /\ b.kind = "call"
      BY <2>1, <1>3 DEF Holds, Contracts
    <3>2. olds' = olds + 1 /\ inContract' = inContract /\ entryStates' = entryStates
      BY <2>1, <1>5 DEF One
    <3> QED BY <3>1, <3>2, <1>3, <1>4, LensTyped DEF One
  <2>2. CASE ~Captures(Top)
    <3>1. b.phase = "body" /\ ~Holds(b) /\ b.phase \notin Contracts /\ b.kind = "call"
      BY <2>2, <1>3, <1>7 DEF Holds, Contracts
    <3>2. olds' = olds + 0 /\ inContract' = inContract - 1 /\ entryStates' = entryStates
      BY <2>2, <1>5 DEF One
    <3>3. Top.at.contract \in Nat
      BY <1>4 DEF SizeRecords
    <3>4. olds' = Top.at.olds /\ Len(entryStates') = Top.at.entered
          /\ inContract' = Top.at.contract
      BY <3>2, <3>3, <1>4, LensTyped
    <3>5. /\ One(b.kind = "call" /\ (b.phase = "old" \/ Holds(b))) = 0
          /\ One(Holds(b)) = 0
          /\ One(b.kind = "call" /\ b.phase \in Contracts) = 0
      BY <3>1 DEF One
    <3>6. Top.at.olds \in Nat /\ Top.at.entered \in Nat
      BY <1>4 DEF SizeRecords
    <3> QED BY <3>3, <3>4, <3>5, <3>6, <1>3
  <2> QED BY <2>1, <2>2
<1>9. Added(b, Sizes')
  BY <1>1, <1>3, <1>5, <1>8, TopFacts, AddedAfter
<1> QED BY <1>1, <1>3, <1>6, <1>9, MoveOK

LEMMA CapturedOK ==
    ASSUME TypeOK, Balanced, Captured
    PROVE  StepOK
<1> DEFINE b == [Top EXCEPT !.phase = "body"]
           e == [owner |-> Depth, states |-> States]
<1>1. stack # <<>> /\ Top.kind = "call" /\ Top.phase = "old"
  BY DEF Captured, Evaluating
<1>2. /\ b \in Activations /\ stack' = [stack EXCEPT ![Depth] = b] /\ WellFormed(b)
      /\ stack' \in Seq(Activations) /\ b.kind = "call" /\ b.name = Top.name
      /\ b.handler = Top.handler /\ b.at = Top.at /\ b.phase = "body"
  BY <1>1, PhaseOK DEF Captured, Phases
<1>3. Captures(Top) /\ ~Holds(Top)
  BY <1>1, TopFacts DEF Holds, WellFormed
<1>4. /\ olds = Top.at.olds + 1 /\ inContract = Top.at.contract + 1
      /\ Len(entryStates) = Top.at.entered
  <2>1. One(Top.kind = "call" /\ (Top.phase = "old" \/ Holds(Top))) = 1
        /\ One(Holds(Top)) = 0
        /\ One(Top.kind = "call" /\ Top.phase \in Contracts) = 1
    BY <1>1, <1>3 DEF One, Contracts
  <2> QED BY <2>1, <1>1, TopFacts, LensTyped DEF SizeRecords
<1>5. /\ entryStates' = Append(entryStates, e) /\ inContract' = inContract - 1
      /\ UNCHANGED <<frames, rows, handlers, insideHandler, olds, entry, signal,
                     answer, abandoned>>
  BY DEF Captured
<1>6. e \in [owner: Nat, states: [Effects -> SUBSET Values]]
  <2>1. States \in [Effects -> SUBSET Values]
    BY HandlersTyped DEF States, Installed, Instances
  <2> QED BY <2>1, StackTyped
<1> HIDE DEF e, b
<1>7. /\ entryStates' \in Seq([owner: Nat, states: [Effects -> SUBSET Values]])
      /\ Len(entryStates') = Len(entryStates) + 1
  BY <1>5, <1>6, AppendFacts DEF TypeOK
<1>8. TypeOK'
  <2>1. inContract' \in Nat
    <3>1. Top.at.contract \in Nat
      BY <1>1, TopFacts DEF SizeRecords
    <3>2. inContract' = Top.at.contract
      BY <3>1, <1>4, <1>5
    <3> QED BY <3>1, <3>2
  <2> QED BY <2>1, <1>2, <1>5, <1>7 DEF TypeOK
<1>9. Added(b, Sizes')
  <2>1. Holds(b)
    BY <1>2, <1>3 DEF Holds, Captures
  <2>2. /\ One(b.kind = "call" /\ (b.phase = "old" \/ Holds(b))) = 1
        /\ One(Holds(b)) = 1
        /\ One(b.kind = "call" /\ b.phase \in Contracts) = 0
    BY <2>1, <1>2 DEF One, Contracts
  <2>3. Top.at.contract \in Nat
    BY <1>1, TopFacts DEF SizeRecords
  <2>4. /\ olds' = b.at.olds + One(b.kind = "call" /\ (b.phase = "old" \/ Holds(b)))
        /\ Len(entryStates') = b.at.entered + One(Holds(b))
        /\ inContract' = b.at.contract + One(b.kind = "call" /\ b.phase \in Contracts)
    <3>1. olds' = b.at.olds + 1
      <4>1. olds' = olds
        BY <1>5
      <4>2. olds = Top.at.olds + 1
        BY <1>4
      <4> QED BY <4>1, <4>2, <1>2
    <3>2. Len(entryStates') = b.at.entered + 1
      <4>1. Len(entryStates') = Len(entryStates) + 1
        BY <1>7
      <4>2. Len(entryStates) = Top.at.entered
        BY <1>4
      <4> QED BY <4>1, <4>2, <1>2
    <3>3. inContract' = b.at.contract + 0
      <4>1. inContract' = inContract - 1
        BY <1>5
      <4>2. inContract = Top.at.contract + 1
        BY <1>4
      <4>3. inContract' = Top.at.contract
        BY <4>1, <4>2, <2>3
      <4> QED BY <4>3, <2>3, <1>2
    <3> QED BY <3>1, <3>2, <3>3, <2>2
  <2> QED BY <2>4, <1>1, <1>2, <1>5, TopFacts, AddedAfter
<1> QED BY <1>1, <1>2, <1>8, <1>9, MoveOK

LEMMA CheckEnsuresOK ==
    ASSUME TypeOK, Balanced, stack # <<>>, Top.kind = "call", Top.phase = "body",
           Captures(Top), CheckEnsures
    PROVE  StepOK
<1> DEFINE b == [Top EXCEPT !.phase = "ensures"]
<1>2. /\ b \in Activations /\ stack' = [stack EXCEPT ![Depth] = b] /\ WellFormed(b)
      /\ stack' \in Seq(Activations) /\ b.kind = "call" /\ b.name = Top.name
      /\ b.handler = Top.handler /\ b.at = Top.at /\ b.phase = "ensures"
  BY PhaseOK DEF CheckEnsures, Phases
<1>3. /\ inContract' = inContract + 1 /\ signal' = None
      /\ UNCHANGED <<frames, rows, handlers, insideHandler, olds, entryStates,
                     entry, answer, abandoned>>
  BY DEF CheckEnsures
<1> HIDE DEF b
<1>4. TypeOK'
  <2>1. inContract' \in Nat
    BY <1>3, LensTyped
  <2> QED BY <2>1, <1>2, <1>3, NoneTyped DEF TypeOK
<1>5. Holds(b) /\ Holds(Top)
  BY <1>2 DEF Holds, Captures
<1>6. /\ One(b.kind = "call" /\ (b.phase = "old" \/ Holds(b))) = 1
      /\ One(Top.kind = "call" /\ (Top.phase = "old" \/ Holds(Top))) = 1
      /\ One(Holds(b)) = 1 /\ One(Holds(Top)) = 1
      /\ One(b.kind = "call" /\ b.phase \in Contracts) = 1
      /\ One(Top.kind = "call" /\ Top.phase \in Contracts) = 0
  BY <1>5, <1>2 DEF One, Contracts
<1>7. /\ olds' = b.at.olds + One(b.kind = "call" /\ (b.phase = "old" \/ Holds(b)))
      /\ Len(entryStates') = b.at.entered + One(Holds(b))
      /\ inContract' = b.at.contract + One(b.kind = "call" /\ b.phase \in Contracts)
  BY <1>2, <1>3, <1>6, TopFacts DEF SizeRecords
<1>8. Added(b, Sizes')
  BY <1>2, <1>3, <1>7, TopFacts, AddedAfter
<1> QED BY <1>2, <1>4, <1>8, MoveOK

LEMMA LeaveCallOK ==
    ASSUME TypeOK, Balanced, stack # <<>>, Top.kind = "call",
           NEW result \in Signals, LeaveCall(result)
    PROVE  StepOK
<1>1. /\ stack' = Front(stack) /\ frames' = frames - 1 /\ rows' = Front(rows)
      /\ insideHandler' = (IF Top.handler # 0 THEN Front(insideHandler)
                                              ELSE insideHandler)
      /\ olds' = (IF Holds(Top) \/ Top.phase = "old" THEN olds - 1 ELSE olds)
      /\ entryStates' = (IF Holds(Top) THEN Front(entryStates) ELSE entryStates)
      /\ inContract' = inContract - (IF Top.phase \in Contracts THEN 1 ELSE 0)
      /\ signal' = result
      /\ UNCHANGED <<handlers, entry, answer, abandoned>>
  BY DEF LeaveCall, PopCall, Holds
<1>2. /\ frames = Top.at.frames + 1
      /\ Len(rows) = Top.at.rows + 1
      /\ Len(insideHandler) = Top.at.inside + (IF Top.handler # 0 THEN 1 ELSE 0)
      /\ olds = Top.at.olds + (IF Holds(Top) \/ Top.phase = "old" THEN 1 ELSE 0)
      /\ Len(entryStates) = Top.at.entered + (IF Holds(Top) THEN 1 ELSE 0)
      /\ inContract = Top.at.contract + (IF Top.phase \in Contracts THEN 1 ELSE 0)
      /\ Len(handlers) = Top.at.handlers
  BY TopFacts DEF One
<1>3. /\ Top.at \in SizeRecords
      /\ Top.at.frames \in Nat /\ Top.at.rows \in Nat /\ Top.at.inside \in Nat
      /\ Top.at.olds \in Nat /\ Top.at.entered \in Nat /\ Top.at.contract \in Nat
  BY TopFacts DEF SizeRecords
<1>4. frames' = Top.at.frames /\ olds' = Top.at.olds /\ inContract' = Top.at.contract
  <2>1. frames' = Top.at.frames
    BY <1>1, <1>2, <1>3
  <2>2. olds' = Top.at.olds
    <3>1. CASE Holds(Top) \/ Top.phase = "old"
      BY <3>1, <1>1, <1>2, <1>3
    <3>2. CASE ~(Holds(Top) \/ Top.phase = "old")
      BY <3>2, <1>1, <1>2, <1>3
    <3> QED BY <3>1, <3>2
  <2>3. inContract' = Top.at.contract
    BY <1>1, <1>2, <1>3
  <2> QED BY <2>1, <2>2, <2>3
<1>5. Len(rows') = Top.at.rows
      /\ rows' \in Seq([handled: Nat, handler: Nat, promise: Rows])
  <2> DEFINE R == [handled: Nat, handler: Nat, promise: Rows]
  <2>1. rows \in Seq(R)
    BY DEF TypeOK
  <2> HIDE DEF R
  <2>2. Len(rows') = Top.at.rows /\ rows' \in Seq(R)
    BY <1>1, <1>2, <1>3, <2>1, DropFacts
  <2> QED BY <2>2 DEF R
<1>6. Len(insideHandler') = Top.at.inside /\ insideHandler' \in Seq(Nat)
  <2>0. insideHandler \in Seq(Nat)
    BY DEF TypeOK
  <2>1. CASE Top.handler # 0
    <3>1. Len(insideHandler) = Top.at.inside + 1 /\ insideHandler' = Front(insideHandler)
      BY <2>1, <1>1, <1>2
    <3> QED BY <2>0, <3>1, <1>3, DropFacts
  <2>2. CASE Top.handler = 0
    <3>1. Len(insideHandler) = Top.at.inside + 0 /\ insideHandler' = insideHandler
      BY <2>2, <1>1, <1>2
    <3> QED BY <2>0, <3>1, <1>3
  <2> QED BY <2>1, <2>2
<1>7. Len(entryStates') = Top.at.entered
      /\ entryStates' \in Seq([owner: Nat, states: [Effects -> SUBSET Values]])
  <2> DEFINE E == [owner: Nat, states: [Effects -> SUBSET Values]]
  <2>0. entryStates \in Seq(E)
    BY DEF TypeOK
  <2> HIDE DEF E
  <2>1. CASE Holds(Top)
    <3>1. Len(entryStates) = Top.at.entered + 1 /\ entryStates' = Front(entryStates)
      BY <2>1, <1>1, <1>2
    <3>2. entryStates' \in Seq(E) /\ Len(entryStates') = Top.at.entered
      BY <2>0, <3>1, <1>3, DropFacts
    <3> QED BY <3>2 DEF E
  <2>2. CASE ~Holds(Top)
    <3>1. Len(entryStates) = Top.at.entered + 0 /\ entryStates' = entryStates
      BY <2>2, <1>1, <1>2
    <3>2. entryStates' \in Seq(E) /\ Len(entryStates') = Top.at.entered
      BY <2>0, <3>1, <1>3
    <3> QED BY <3>2 DEF E
  <2> QED BY <2>1, <2>2
<1>8. stack' \in Seq(Activations)
  BY <1>1, FrontFacts, StackTyped
<1>9. TypeOK'
  BY <1>1, <1>3, <1>4, <1>5, <1>6, <1>7, <1>8 DEF TypeOK
<1>10. Sizes' = Top.at
  BY <1>1, <1>2, <1>3, <1>4, <1>5, <1>6, <1>7, SizesAre
<1> QED BY <1>1, <1>9, <1>10, PopOK

LEMMA BodyEndsOK ==
    ASSUME TypeOK, Balanced, BodyEnds
    PROVE  StepOK
<1>1. stack # <<>> /\ Top.kind = "call" /\ Top.phase = "body"
  BY DEF BodyEnds
<1>2. CASE Captures(Top) /\ CheckEnsures
  BY <1>1, <1>2, CheckEnsuresOK
<1>3. CASE LeaveCall(None)
  BY <1>1, <1>3, NoneTyped, LeaveCallOK
<1> QED BY <1>2, <1>3 DEF BodyEnds

LEMMA EnsuresHoldOK ==
    ASSUME TypeOK, Balanced, EnsuresHold
    PROVE  StepOK
<1>1. stack # <<>> /\ Top.kind = "call" /\ LeaveCall(None)
  BY DEF EnsuresHold, Evaluating
<1> QED BY <1>1, NoneTyped, LeaveCallOK

LEMMA CallUnwindsOK ==
    ASSUME TypeOK, Balanced, CallUnwinds
    PROVE  StepOK
<1>1. stack # <<>> /\ Top.kind = "call" /\ LeaveCall(signal) /\ signal \in Signals
  BY DEF CallUnwinds, TypeOK
<1> QED BY <1>1, LeaveCallOK

LEMMA RunClosureOK ==
    ASSUME TypeOK, Balanced, NEW home \in Functions, NEW row \in Rows, RunClosure(home, row)
    PROVE  StepOK
<1> DEFINE a == Activation("closure", Fn(home), "body", row)
<1>1. a \in Activations /\ a.kind = "closure" /\ a.phase = "body" /\ a.at = Sizes
  BY ActivationTyped DEF Kinds, Phases, Names
<1>2. /\ stack' = Append(stack, a) /\ frames' = frames + 1
      /\ signal' = (IF frames + 1 > MaxDepth THEN Signal("deep", Nobody) ELSE None)
      /\ UNCHANGED <<rows, handlers, insideHandler, olds, entryStates, inContract,
                     entry, answer, abandoned>>
  BY DEF RunClosure
<1> HIDE DEF a
<1>3. TypeOK'
  <2>1. signal' \in Signals
    BY <1>2, NoneTyped, SignalTyped DEF Failures
  <2>2. stack' \in Seq(Activations) /\ frames' \in Nat
    BY <1>1, <1>2, AppendFacts, StackTyped, LensTyped
  <2> QED BY <2>1, <2>2, <1>2 DEF TypeOK
<1>4. WellFormed(a) /\ ~Holds(a)
  BY <1>1 DEF WellFormed, Holds, Captures
<1>5. Added(a, Sizes')
  <2>1. /\ a.at.frames = frames /\ a.at.rows = Len(rows)
        /\ a.at.inside = Len(insideHandler) /\ a.at.olds = olds
        /\ a.at.entered = Len(entryStates) /\ a.at.contract = inContract
        /\ a.at.handlers = Len(handlers)
    BY <1>1 DEF Sizes
  <2>2. /\ One(a.kind \in {"call", "closure", "finally"}) = 1
        /\ One(a.kind \in {"call", "finally"}) = 0
        /\ One(a.kind = "finally" \/ (a.kind = "call" /\ a.handler # 0)) = 0
        /\ One(a.kind = "call" /\ (a.phase = "old" \/ Holds(a))) = 0
        /\ One(Holds(a)) = 0 /\ One(a.kind = "call" /\ a.phase \in Contracts) = 0
    BY <1>1, <1>4 DEF One
  <2>3. /\ frames' = a.at.frames + 1 /\ Len(rows') = a.at.rows + 0
        /\ Len(insideHandler') = a.at.inside + 0 /\ olds' = a.at.olds + 0
        /\ Len(entryStates') = a.at.entered + 0 /\ inContract' = a.at.contract + 0
        /\ Len(handlers') = a.at.handlers
    BY <1>2, <2>1, LensTyped
  <2>4. a.kind # "with"
    BY <1>1
  <2> QED BY <2>2, <2>3, <2>4, AddedAfter
<1> QED BY <1>1, <1>2, <1>3, <1>4, <1>5, PushOK

\* A closure, a test and an `assert refuses` add nothing but a frame.
LEMMA PlainTop ==
    ASSUME TypeOK, Balanced, stack # <<>>, Top.kind \in {"test", "closure", "refuses"}
    PROVE  /\ Top.at \in SizeRecords
           /\ Top.kind = "closure" => frames - 1 = Top.at.frames
           /\ Top.kind # "closure" => frames = Top.at.frames
           /\ Len(rows) = Top.at.rows /\ Len(insideHandler) = Top.at.inside
           /\ olds = Top.at.olds /\ Len(entryStates) = Top.at.entered
           /\ inContract = Top.at.contract /\ Len(handlers) = Top.at.handlers
<1>1. ~Holds(Top)
  BY DEF Holds, Captures
<1>2. /\ frames = Top.at.frames + (IF Top.kind = "closure" THEN 1 ELSE 0)
      /\ Len(rows) = Top.at.rows + 0
      /\ Len(insideHandler) = Top.at.inside + 0 /\ olds = Top.at.olds + 0
      /\ Len(entryStates) = Top.at.entered + 0
      /\ inContract = Top.at.contract + 0 /\ Len(handlers) = Top.at.handlers
  BY <1>1, TopFacts DEF One
<1>3. Top.at \in SizeRecords
      /\ Top.at.frames \in Nat /\ Top.at.rows \in Nat /\ Top.at.inside \in Nat
      /\ Top.at.olds \in Nat /\ Top.at.entered \in Nat /\ Top.at.contract \in Nat
  BY TopFacts DEF SizeRecords
<1>4. (Top.kind = "closure" => frames - 1 = Top.at.frames)
      /\ (Top.kind # "closure" => frames = Top.at.frames)
  BY <1>2, <1>3
<1>5. /\ Len(rows) = Top.at.rows /\ Len(insideHandler) = Top.at.inside
      /\ olds = Top.at.olds /\ Len(entryStates) = Top.at.entered
      /\ inContract = Top.at.contract
  BY <1>2, <1>3
<1> QED BY <1>2, <1>3, <1>4, <1>5

LEMMA ClosureEndsOK ==
    ASSUME TypeOK, Balanced, ClosureEnds
    PROVE  StepOK
<1>1. stack # <<>> /\ Top.kind = "closure" /\ stack' = Front(stack)
      /\ frames' = frames - 1
      /\ UNCHANGED <<rows, handlers, insideHandler, olds, entryStates, inContract,
                     entry, signal, answer, abandoned>>
  BY DEF ClosureEnds
<1>2. frames' = Top.at.frames /\ Top.at.frames \in Nat
  BY <1>1, PlainTop DEF SizeRecords
<1>5. Sizes' = Top.at
  BY <1>1, PlainTop, SizesAre
<1>6. TypeOK'
  <2>1. stack' \in Seq(Activations) /\ frames' \in Nat
    BY <1>1, <1>2, FrontFacts, StackTyped
  <2> QED BY <1>1, <2>1 DEF TypeOK
<1> QED BY <1>1, <1>5, <1>6, PopOK

-----------------------------------------------------------------------------
(* `with` and `assert refuses` *)

\* An activation that adds nothing of its own when it begins.
LEMMA PlainPushOK ==
    ASSUME TypeOK, Balanced, NEW a \in Activations, a.kind \in {"with", "refuses"},
           a.at = Sizes, WellFormed(a), stack' = Append(stack, a),
           UNCHANGED <<frames, rows, handlers, insideHandler, olds, entryStates,
                       inContract, entry, signal, answer, abandoned>>
    PROVE  StepOK
<1>1. stack' \in Seq(Activations)
  BY AppendFacts, StackTyped
<1>2. TypeOK'
  BY <1>1 DEF TypeOK
<1>3. ~Holds(a)
  BY DEF Holds, Captures
<1>4. Added(a, Sizes')
  BY <1>3, LensTyped DEF Added, One, Sizes
<1> QED BY <1>2, <1>4, PushOK

LEMMA EnterRefusesOK ==
    ASSUME TypeOK, Balanced, EnterRefuses
    PROVE  StepOK
<1> DEFINE fresh == Activation("refuses", Top.name, "body", May)
           a == [fresh EXCEPT !.handler = Top.handler]
<1>1. Top \in Activations
  BY StackTyped DEF EnterRefuses, Evaluating
<1>2. Top.name \in Names /\ Top.handler \in Nat /\ May \in Rows
  BY <1>1 DEF Activations, May, Rows
<1>3. fresh \in Activations /\ fresh.kind = "refuses" /\ fresh.phase = "body"
      /\ fresh.at = Sizes
  BY <1>2, ActivationTyped DEF Kinds, Phases
<1>4. stack' = Append(stack, a)
      /\ UNCHANGED <<frames, rows, handlers, insideHandler, olds, entryStates,
                     inContract, entry, signal, answer, abandoned>>
  BY DEF EnterRefuses
<1> HIDE DEF fresh
<1>5. a \in Activations /\ a.kind = "refuses" /\ a.phase = "body" /\ a.at = Sizes
  BY <1>2, <1>3 DEF Activations
<1> HIDE DEF a
<1>6. WellFormed(a)
  BY <1>5 DEF WellFormed
<1> QED BY <1>4, <1>5, <1>6, PlainPushOK

LEMMA EnterWithOK ==
    ASSUME TypeOK, Balanced, NEW list \in Lists, EnterWith(list)
    PROVE  StepOK
<1> DEFINE fresh == Activation("with", Top.name, "install", May)
           a == [fresh EXCEPT !.todo = list, !.handler = Top.handler,
                              !.cursor = Len(handlers)]
<1>1. Top \in Activations
  BY StackTyped DEF EnterWith, Evaluating
<1>2. /\ Top.name \in Names /\ Top.handler \in Nat /\ May \in Rows
      /\ list \in Seq(Handlers) /\ list # <<>> /\ Len(handlers) \in Nat
  BY <1>1, ProgramAssumption, LensTyped DEF Activations, May, Rows
<1>3. fresh \in Activations /\ fresh.kind = "with" /\ fresh.phase = "install"
      /\ fresh.at = Sizes /\ fresh.base = Len(handlers)
  BY <1>2, ActivationTyped DEF Kinds, Phases
<1>4. stack' = Append(stack, a)
      /\ UNCHANGED <<frames, rows, handlers, insideHandler, olds, entryStates,
                     inContract, entry, signal, answer, abandoned>>
  BY DEF EnterWith
<1> HIDE DEF fresh
<1>5. a \in Activations /\ a.kind = "with" /\ a.phase = "install" /\ a.at = Sizes
      /\ a.base = Len(handlers) /\ a.todo = list
  BY <1>2, <1>3 DEF Activations
<1> HIDE DEF a
<1>6. WellFormed(a)
  BY <1>2, <1>5 DEF WellFormed, Sizes
<1> QED BY <1>4, <1>5, <1>6, PlainPushOK

LEMMA RefusesEndsOK ==
    ASSUME TypeOK, Balanced, RefusesEnds
    PROVE  StepOK
<1>1. stack # <<>> /\ Top.kind = "refuses" /\ stack' = Front(stack)
      /\ signal' = Refused(signal)
      /\ UNCHANGED <<frames, rows, handlers, insideHandler, olds, entryStates,
                     inContract, entry, answer, abandoned>>
  BY DEF RefusesEnds
<1>5. Sizes' = Top.at
  BY <1>1, PlainTop, SizesAre
<1>6. TypeOK'
  <2>1. stack' \in Seq(Activations)
    BY <1>1, FrontFacts, StackTyped
  <2>2. signal' \in Signals
    <3>1. signal \in Signals /\ Signal("assert", Nobody) \in Signals
      BY SignalTyped DEF TypeOK, Failures
    <3> QED BY <1>1, <3>1, NoneTyped DEF Refused
  <2> QED BY <1>1, <2>1, <2>2 DEF TypeOK
<1> QED BY <1>1, <1>5, <1>6, PopOK

\* The root of a test is the whole stack when the test ends.
LEMMA TestEndsOK ==
    ASSUME TypeOK, Balanced, TestEnds
    PROVE  StepOK
<1>1. stack # <<>> /\ Top.kind = "test" /\ stack' = <<>>
      /\ UNCHANGED <<frames, rows, handlers, insideHandler, olds, entryStates,
                     inContract, entry, signal, answer, abandoned>>
  BY DEF TestEnds
<1>5. Sizes' = Top.at
  BY <1>1, PlainTop, SizesAre
<1>6. TypeOK'
  <2>1. <<>> \in Seq(Activations)
    OBVIOUS
  <2> QED BY <1>1, <2>1 DEF TypeOK
<1>7. Depth' = 0
  BY <1>1 DEF Depth
<1>8. \A i \in 1..Depth' : FALSE
  BY <1>7
<1>9. \A i \in 1..Depth' - 1 : FALSE
  BY <1>7
<1>10. Balanced'
  BY <1>1, <1>8, <1>9 DEF Balanced
<1> QED BY <1>5, <1>6, <1>10 DEF StepOK

\* A `with` adds nothing but handlers.
LEMMA WithTop ==
    ASSUME TypeOK, Balanced, stack # <<>>, Top.kind = "with"
    PROVE  /\ Top.at \in SizeRecords /\ Top.base = Top.at.handlers
           /\ frames = Top.at.frames /\ Len(rows) = Top.at.rows
           /\ Len(insideHandler) = Top.at.inside
           /\ olds = Top.at.olds /\ Len(entryStates) = Top.at.entered
           /\ inContract = Top.at.contract /\ Len(handlers) >= Top.at.handlers
<1>1. ~Holds(Top)
  BY DEF Holds, Captures
<1>2. /\ frames = Top.at.frames + 0 /\ Len(rows) = Top.at.rows + 0
      /\ Len(insideHandler) = Top.at.inside + 0 /\ olds = Top.at.olds + 0
      /\ Len(entryStates) = Top.at.entered + 0
      /\ inContract = Top.at.contract + 0 /\ Len(handlers) >= Top.at.handlers
  BY <1>1, TopFacts DEF One
<1>3. Top.at \in SizeRecords /\ Top.base = Top.at.handlers
      /\ Top.at.frames \in Nat /\ Top.at.rows \in Nat /\ Top.at.inside \in Nat
      /\ Top.at.olds \in Nat /\ Top.at.entered \in Nat /\ Top.at.contract \in Nat
  BY TopFacts DEF SizeRecords, WellFormed
<1> QED BY <1>2, <1>3

\* A `with` that moves on, and may have installed more handlers.
LEMMA WithMovesOK ==
    ASSUME TypeOK, Balanced, TypeOK', stack # <<>>, Top.kind = "with",
           NEW b \in Activations, stack' = [stack EXCEPT ![Depth] = b],
           b.kind = "with", b.at = Top.at, WellFormed(b),
           UNCHANGED <<frames, rows, insideHandler, olds, entryStates, inContract>>,
           Len(handlers') >= Len(handlers)
    PROVE  StepOK
<1>1. ~Holds(b)
  BY DEF Holds, Captures
<1>2. /\ One(b.kind \in {"call", "closure", "finally"}) = 0
      /\ One(b.kind \in {"call", "finally"}) = 0
      /\ One(b.kind = "finally" \/ (b.kind = "call" /\ b.handler # 0)) = 0
      /\ One(b.kind = "call" /\ (b.phase = "old" \/ Holds(b))) = 0
      /\ One(Holds(b)) = 0 /\ One(b.kind = "call" /\ b.phase \in Contracts) = 0
  BY <1>1 DEF One
<1>3. Len(handlers') \in Nat
  <2>1. handlers' \in Seq(Instances)
    BY DEF TypeOK, Instances
  <2> QED BY <2>1
<1>4. /\ frames' = b.at.frames + 0 /\ Len(rows') = b.at.rows + 0
      /\ Len(insideHandler') = b.at.inside + 0 /\ olds' = b.at.olds + 0
      /\ Len(entryStates') = b.at.entered + 0 /\ inContract' = b.at.contract + 0
  <2>1. /\ frames' = frames /\ Len(rows') = Len(rows)
        /\ Len(insideHandler') = Len(insideHandler) /\ olds' = olds
        /\ Len(entryStates') = Len(entryStates) /\ inContract' = inContract
    OBVIOUS
  <2>2. /\ frames' = b.at.frames /\ Len(rows') = b.at.rows
        /\ Len(insideHandler') = b.at.inside /\ olds' = b.at.olds
        /\ Len(entryStates') = b.at.entered /\ inContract' = b.at.contract
    BY <2>1, WithTop
  <2>3. /\ frames + 0 = frames /\ Len(rows) + 0 = Len(rows)
        /\ Len(insideHandler) + 0 = Len(insideHandler) /\ olds + 0 = olds
        /\ Len(entryStates) + 0 = Len(entryStates) /\ inContract + 0 = inContract
    BY LensTyped
  <2> QED BY <2>1, <2>2, <2>3
<1>5. Len(handlers') >= b.at.handlers
  <2>1. Top.at.handlers \in Nat
    BY WithTop DEF SizeRecords
  <2> QED BY <1>3, <2>1, WithTop, LensTyped
<1>6. Added(b, Sizes')
  BY <1>2, <1>4, <1>5, AddedAfter
<1> QED BY <1>6, MoveOK

LEMMA InstallOK ==
    ASSUME TypeOK, Balanced, Install
    PROVE  StepOK
<1> DEFINE last == Len(Top.todo) = 1
           phase == IF last THEN "body" ELSE "install"
           more == {o \in Ops : \E i \in Top.base + 1..Len(handlers') :
                                   Implements[handlers'[i].handler] = EffectOf[o]}
           may == IF last THEN Top.may \cup more ELSE Top.may
           b == [Top EXCEPT !.todo = Tail(Top.todo), !.cursor = Top.cursor + 1,
                            !.phase = phase, !.may = may]
           one == [handler |-> Head(Top.todo), state |-> 0, cleaned |-> 0]
<1>1. stack # <<>> /\ Top.kind = "with" /\ Top.phase = "install"
      /\ Top \in Activations /\ stack \in Seq(Activations) /\ Depth \in 1..Len(stack)
  BY StackTyped DEF Install, Evaluating, Depth
<1>2. Top.todo \in Seq(Handlers) /\ Top.todo # <<>> /\ Top.cursor \in Nat
      /\ Top.may \in Rows
  BY <1>1, TopFacts DEF Activations, WellFormed
<1>3. /\ Head(Top.todo) \in Handlers /\ Tail(Top.todo) \in Seq(Handlers)
      /\ ~last => Tail(Top.todo) # <<>>
  BY <1>2, TailFacts
<1>4. handlers' = Append(handlers, one)
      /\ UNCHANGED <<frames, rows, insideHandler, olds, entryStates, inContract,
                     entry, signal, answer, abandoned>>
  BY DEF Install
<1>5. stack' = [stack EXCEPT ![Depth] = b]
  BY DEF Install, Top
<1>6. phase \in Phases /\ may \in Rows
  BY <1>2 DEF Phases, Rows
<1>7. /\ b \in Activations /\ b.kind = "with" /\ b.at = Top.at /\ b.base = Top.base
      /\ b.phase = phase /\ b.todo = Tail(Top.todo)
  <2>1. Top.cursor + 1 \in Nat
    BY <1>2
  <2> DEFINE todo == Tail(Top.todo)
             cursor == Top.cursor + 1
  <2>2. b = [Top EXCEPT !.todo = todo, !.cursor = cursor, !.phase = phase, !.may = may]
    OBVIOUS
  <2>3. Top.kind = "with" /\ Top \in Activations /\ todo \in Seq(Handlers)
        /\ cursor \in Nat /\ phase \in Phases /\ may \in Rows
    BY <1>1, <1>3, <1>6, <2>1
  <2> HIDE DEF b, todo, cursor, phase, may
  <2>4. /\ b \in Activations /\ b.kind = Top.kind /\ b.at = Top.at
        /\ b.base = Top.base /\ b.phase = phase /\ b.todo = todo
    BY <2>2, <2>3 DEF Activations, Phases
  <2> QED BY <2>3, <2>4 DEF todo
<1> HIDE DEF b, more
<1>8. WellFormed(b)
  BY <1>1, <1>3, <1>7, WithTop DEF WellFormed
<1>9. handlers' \in Seq(Instances) /\ Len(handlers') = Len(handlers) + 1
  <2>1. one \in Instances
    BY <1>3, ProgramAssumption DEF Instances
  <2> QED BY <1>4, <2>1, AppendFacts, HandlersTyped
<1>10. TypeOK'
  <2>1. stack' \in Seq(Activations)
    BY <1>1, <1>5, <1>7, ReplaceFacts
  <2> QED BY <1>4, <1>9, <2>1 DEF TypeOK, Instances
<1>11. Len(handlers') >= Len(handlers)
  BY <1>9, LensTyped
<1> QED BY <1>1, <1>4, <1>5, <1>7, <1>8, <1>10, <1>11, WithMovesOK

LEMMA StartCleanupOK ==
    ASSUME TypeOK, Balanced, StartCleanup
    PROVE  StepOK
<1> DEFINE b == [Top EXCEPT !.phase = "finally", !.cursor = Len(handlers),
                            !.incoming = signal, !.outcome = signal]
<1>1. stack # <<>> /\ Top.kind = "with"
      /\ Top \in Activations /\ stack \in Seq(Activations) /\ Depth \in 1..Len(stack)
  BY StackTyped DEF StartCleanup, CleanUpFrom, Depth
<1>2. signal' = None
      /\ UNCHANGED <<frames, rows, handlers, insideHandler, olds, entryStates,
                     inContract, entry, answer, abandoned>>
  BY DEF StartCleanup, CleanUpFrom
<1>3. stack' = [stack EXCEPT ![Depth] = b]
  BY DEF StartCleanup, CleanUpFrom, Top
<1>4. /\ b \in Activations /\ b.kind = "with" /\ b.at = Top.at /\ b.base = Top.base
      /\ b.phase = "finally"
  <2>1. signal \in Signals /\ Len(handlers) \in Nat
    BY LensTyped DEF TypeOK
  <2> QED BY <1>1, <2>1 DEF Activations
<1> HIDE DEF b
<1>5. WellFormed(b)
  BY <1>1, <1>4, WithTop DEF WellFormed
<1>6. TypeOK'
  <2>1. stack' \in Seq(Activations)
    BY <1>1, <1>3, <1>4, ReplaceFacts
  <2> QED BY <1>2, <2>1, NoneTyped DEF TypeOK
<1>7. Len(handlers') >= Len(handlers)
  BY <1>2, LensTyped
<1> QED BY <1>1, <1>2, <1>3, <1>4, <1>5, <1>6, <1>7, WithMovesOK

LEMMA LeaveWithOK ==
    ASSUME TypeOK, Balanced, LeaveWith
    PROVE  StepOK
<1>1. stack # <<>> /\ Top.kind = "with" /\ Top \in Activations
  BY StackTyped DEF LeaveWith, CleaningUp
<1>2. /\ handlers' = SubSeq(handlers, 1, Top.base) /\ stack' = Front(stack)
      /\ signal' = Top.outcome
      /\ UNCHANGED <<frames, rows, insideHandler, olds, entryStates, inContract,
                     entry, answer, abandoned>>
  BY DEF LeaveWith
<1>3. Top.base = Top.at.handlers /\ Top.base \in Nat /\ Len(handlers) >= Top.base
  BY <1>1, WithTop DEF Activations
<1>4. handlers' \in Seq(Instances) /\ Len(handlers') = Top.base
  BY <1>2, <1>3, HandlersTyped
<1>5. Sizes' = Top.at
  BY <1>1, <1>2, <1>3, <1>4, WithTop, SizesAre
<1>6. TypeOK'
  <2>1. stack' \in Seq(Activations)
    BY <1>1, <1>2, FrontFacts, StackTyped
  <2>2. signal' \in Signals
    BY <1>1, <1>2 DEF Activations
  <2> QED BY <1>2, <1>4, <2>1, <2>2 DEF TypeOK, Instances
<1> QED BY <1>1, <1>2, <1>5, <1>6, PopOK

\* Changing one handler's count of cleanups, whichever it is.
LEMMA CleanedTyped ==
    ASSUME TypeOK, NEW i,
           handlers' = [handlers EXCEPT ![i].cleaned = @ + 1]
    PROVE  handlers' \in Seq(Instances) /\ Len(handlers') = Len(handlers)
<1>1. CASE i \in 1..Len(handlers)
  <2> DEFINE one == [handlers[i] EXCEPT !.cleaned = handlers[i].cleaned + 1]
  <2>1. one \in Instances
    <3>1. handlers[i] \in Instances
      BY <1>1, HandlersTyped
    <3> QED BY <3>1 DEF Instances
  <2>2. handlers' = [handlers EXCEPT ![i] = one]
    OBVIOUS
  <2> HIDE DEF one
  <2> QED BY <1>1, <2>1, <2>2, HandlersTyped, ReplaceFacts
<1>2. CASE i \notin 1..Len(handlers)
  <2>1. handlers' = handlers
    BY <1>2, HandlersTyped
  <2> QED BY <2>1, HandlersTyped
<1> QED BY <1>1, <1>2

\* A turn of the loop, with the activation it moves on from.
LEMMA TurnTyped ==
    ASSUME TypeOK, Balanced, RunFinally
    PROVE  LET b == [Top EXCEPT !.cursor = Top.cursor - 1] IN
           /\ stack # <<>> /\ Top.kind = "with" /\ Depth \in 1..Len(stack)
           /\ b \in Activations /\ b.kind = "with" /\ b.at = Top.at
           /\ WellFormed(b) /\ Alike(b, Top) /\ Top.cursor \in Nat
<1> DEFINE b == [Top EXCEPT !.cursor = Top.cursor - 1]
<1>1. stack # <<>> /\ Top.kind = "with" /\ Top \in Activations
      /\ Depth \in 1..Len(stack) /\ Top.cursor > Top.base
  BY StackTyped DEF RunFinally, CleaningUp, Depth
<1>2. Top.cursor \in Nat /\ Top.base \in Nat
  BY <1>1 DEF Activations
<1>3. Top.cursor - 1 \in Nat
  BY <1>1, <1>2
<1>4. b \in Activations /\ Alike(b, Top)
  BY <1>1, <1>3 DEF Activations, Alike
<1> HIDE DEF b
<1>5. WellFormed(b) /\ b.kind = "with" /\ b.at = Top.at
  <2>1. WellFormed(Top)
    BY <1>1, TopFacts
  <2> QED BY <1>1, <1>4, <2>1, AlikeFacts DEF Alike
<1> QED BY <1>1, <1>2, <1>4, <1>5 DEF b

LEMMA RunFinallyOK ==
    ASSUME TypeOK, Balanced, RunFinally
    PROVE  StepOK
<1> DEFINE i == Top.cursor
           h == handlers[i].handler
           b == [Top EXCEPT !.cursor = i - 1]
           moved == [stack EXCEPT ![Depth] = b]
           fresh == Activation("finally", Cleanup(h), "body", FinallyUses[h])
           a == [fresh EXCEPT !.handler = i]
           row == [handled |-> Len(handlers), handler |-> i, promise |-> Anything]
<1>1. /\ stack # <<>> /\ Top.kind = "with" /\ Depth \in 1..Len(stack)
      /\ b \in Activations /\ b.kind = "with" /\ b.at = Top.at
      /\ WellFormed(b) /\ Alike(b, Top) /\ i \in Nat
  BY TurnTyped
<1>2. /\ \/ /\ h \in Cleaning
            /\ stack' = Append(moved, a)
            /\ handlers' = [handlers EXCEPT ![i].cleaned = @ + 1]
            /\ frames' = frames + 1
            /\ rows' = Append(rows, row)
            /\ insideHandler' = Append(insideHandler, i)
         \/ /\ stack' = moved
            /\ UNCHANGED <<handlers, frames, rows, insideHandler>>
      /\ UNCHANGED <<olds, entryStates, inContract, entry, signal, answer, abandoned>>
  BY DEF RunFinally, Top
<1>3. CASE /\ stack' = moved
           /\ UNCHANGED <<handlers, frames, rows, insideHandler>>
  <2>1. TypeOK'
    <3> HIDE DEF b
    <3>1. stack' \in Seq(Activations)
      BY <1>1, <1>3, StackTyped, ReplaceFacts
    <3> QED BY <1>2, <1>3, <3>1 DEF TypeOK
  <2>2. Len(handlers') >= Len(handlers)
    BY <1>3, LensTyped
  <2> QED BY <1>1, <1>2, <1>3, <2>1, <2>2, WithMovesOK
<1>4. CASE /\ h \in Cleaning
           /\ stack' = Append(moved, a)
           /\ handlers' = [handlers EXCEPT ![i].cleaned = @ + 1]
           /\ frames' = frames + 1
           /\ rows' = Append(rows, row)
           /\ insideHandler' = Append(insideHandler, i)
  <2>1. h \in Handlers /\ Cleanup(h) \in Names /\ FinallyUses[h] \in Rows
    <3> HIDE DEF h
    <3> QED BY <1>4, ProgramAssumption DEF Names
  <2>2. fresh \in Activations /\ fresh.kind = "finally" /\ fresh.phase = "body"
        /\ fresh.at = Sizes
    <3> HIDE DEF h
    <3> QED BY <2>1, ActivationTyped DEF Kinds, Phases
  <2>3. a \in Activations /\ a.kind = "finally" /\ a.phase = "body" /\ a.at = Sizes
    <3> HIDE DEF fresh, i
    <3> QED BY <1>1, <2>2 DEF Activations
  <2>4. handlers' \in Seq(Instances) /\ Len(handlers') = Len(handlers)
    <3>1. handlers' = [handlers EXCEPT ![i].cleaned = @ + 1]
      BY <1>4
    <3> HIDE DEF i
    <3> QED BY <3>1, CleanedTyped
  <2> HIDE DEF a, b, fresh, h, i
  <2>5. moved \in Seq(Activations) /\ Len(moved) = Depth
        /\ moved[Depth] = b /\ \A k \in 1..Depth : k # Depth => moved[k] = stack[k]
    BY <1>1, StackTyped, ReplaceFacts
  <2> HIDE DEF moved
  <2>6. /\ stack' \in Seq(Activations) /\ Len(stack') = Depth + 1
        /\ stack'[Depth + 1] = a /\ \A k \in 1..Depth : stack'[k] = moved[k]
    BY <1>4, <2>3, <2>5, AppendFacts
  <2>7. ASSUME NEW k \in 1..Depth PROVE Alike(stack'[k], stack[k])
    <3>1. CASE k = Depth
      BY <1>1, <2>5, <2>6, <3>1 DEF Top
    <3>2. CASE k # Depth
      BY <2>5, <2>6, <3>2 DEF Alike
    <3> QED BY <3>1, <3>2
  <2>8. /\ rows' \in Seq([handled: Nat, handler: Nat, promise: Rows])
        /\ Len(rows') = Len(rows) + 1
        /\ insideHandler' \in Seq(Nat) /\ Len(insideHandler') = Len(insideHandler) + 1
    <3>1. row \in [handled: Nat, handler: Nat, promise: Rows]
      BY <1>1, LensTyped DEF Anything, Rows
    <3>2. rows \in Seq([handled: Nat, handler: Nat, promise: Rows])
          /\ insideHandler \in Seq(Nat)
      BY DEF TypeOK
    <3> HIDE DEF row
    <3> QED BY <1>1, <1>4, <3>1, <3>2, AppendFacts
  <2>9. TypeOK'
    <3>1. frames' \in Nat
      BY <1>4, LensTyped
    <3>2. handlers' \in Seq([handler: Handlers, state: Values, cleaned: Nat])
      BY <2>4 DEF Instances
    <3> QED BY <1>2, <2>6, <2>8, <3>1, <3>2 DEF TypeOK
  <2>10. WellFormed(a) /\ ~Holds(a)
    BY <2>3 DEF WellFormed, Holds, Captures
  <2>11. Added(a, Sizes')
    <3>1. /\ One(a.kind \in {"call", "closure", "finally"}) = 1
          /\ One(a.kind \in {"call", "finally"}) = 1
          /\ One(a.kind = "finally" \/ (a.kind = "call" /\ a.handler # 0)) = 1
          /\ One(a.kind = "call" /\ (a.phase = "old" \/ Holds(a))) = 0
          /\ One(Holds(a)) = 0 /\ One(a.kind = "call" /\ a.phase \in Contracts) = 0
      BY <2>3, <2>10 DEF One
    <3>2. /\ a.at.frames = frames /\ a.at.rows = Len(rows)
          /\ a.at.inside = Len(insideHandler) /\ a.at.olds = olds
          /\ a.at.entered = Len(entryStates) /\ a.at.contract = inContract
          /\ a.at.handlers = Len(handlers)
      BY <2>3 DEF Sizes
    <3>3. /\ frames' = a.at.frames + 1 /\ Len(rows') = a.at.rows + 1
          /\ Len(insideHandler') = a.at.inside + 1 /\ olds' = a.at.olds + 0
          /\ Len(entryStates') = a.at.entered + 0 /\ inContract' = a.at.contract + 0
          /\ Len(handlers') = a.at.handlers
      BY <1>2, <1>4, <2>4, <2>8, <3>2, LensTyped
    <3>4. a.kind # "with"
      BY <2>3
    <3> QED BY <3>1, <3>3, <3>4, AddedAfter
  <2>12. Balanced'
    BY <2>3, <2>6, <2>7, <2>10, <2>11, PushBalanced
  <2>13. Depth' = Depth + 1 /\ Depth \in Nat
    BY <2>6, StackTyped DEF Depth
  <2> QED BY <2>9, <2>12, <2>13 DEF StepOK
<1> QED BY <1>2, <1>3, <1>4

\* The end of a cleanup also tells the `with` below it what it came to.
LEMMA FinallyEndsOK ==
    ASSUME TypeOK, Balanced, FinallyEnds
    PROVE  StepOK
<1> DEFINE replaces == ~Failed(stack[Depth - 1].incoming)
           n == Depth - 1
           below == Front(stack)
           told == [[below[n] EXCEPT !.outcome =
                        IF replaces /\ signal # None THEN signal ELSE below[n].outcome]
                      EXCEPT !.spoiled = below[n].spoiled \/ Failed(signal)]
<1>1. stack # <<>> /\ Top.kind = "finally"
  BY DEF FinallyEnds, PopFinally
<1>2. /\ stack' = [below EXCEPT ![n] = told]
      /\ frames' = frames - 1 /\ rows' = Front(rows)
      /\ insideHandler' = Front(insideHandler) /\ signal' = None
      /\ UNCHANGED <<handlers, olds, entryStates, inContract, entry, answer, abandoned>>
  BY DEF FinallyEnds, PopFinally
<1>3. /\ below \in Seq(Activations) /\ Len(below) = n /\ n \in Nat
      /\ \A k \in 1..n : below[k] = stack[k] /\ below[k] \in Activations
  <2>1. /\ below \in Seq(Activations) /\ Len(below) = Depth - 1 /\ Depth \in Nat
        /\ Depth > 0 /\ \A k \in 1..Depth - 1 : below[k] = stack[k]
    BY <1>1, StackTyped, FrontFacts
  <2>2. \A k \in 1..Depth - 1 : k \in 1..Depth
    BY <2>1
  <2> QED BY <2>1, <2>2, StackTyped
<1>4. /\ stack' \in Seq(Activations) /\ Len(stack') = n
      /\ \A k \in 1..n : Alike(stack'[k], stack[k])
  <2>1. CASE n \in 1..n
    <3>1. told \in Activations /\ Alike(told, below[n])
      <4>1. below[n] \in Activations /\ signal \in Signals
        BY <1>3, <2>1 DEF TypeOK
      <4> HIDE DEF below, n, replaces
      <4>2. (IF replaces /\ signal # None THEN signal ELSE below[n].outcome) \in Signals
            /\ (below[n].spoiled \/ Failed(signal)) \in BOOLEAN
        BY <4>1 DEF Activations
      <4> QED BY <4>1, <4>2 DEF Activations, Alike
    <3> HIDE DEF told, below, n
    <3>2. /\ stack' \in Seq(Activations) /\ Len(stack') = n /\ stack'[n] = told
          /\ \A k \in 1..n : k # n => stack'[k] = below[k]
      BY <1>2, <1>3, <2>1, <3>1, ReplaceFacts
    <3> QED BY <1>3, <3>1, <3>2 DEF Alike
  <2>2. CASE n \notin 1..n
    <3> HIDE DEF told, below, n
    <3>1. stack' = below
      BY <1>2, <1>3, <2>2
    <3> QED BY <1>3, <3>1 DEF Alike
  <2> QED BY <2>1, <2>2
<1> HIDE DEF told, below, replaces
<1>5. ~Holds(Top)
  BY <1>1 DEF Holds, Captures
<1>6. /\ frames = Top.at.frames + 1 /\ Len(rows) = Top.at.rows + 1
      /\ Len(insideHandler) = Top.at.inside + 1 /\ olds = Top.at.olds + 0
      /\ Len(entryStates) = Top.at.entered + 0
      /\ inContract = Top.at.contract + 0 /\ Len(handlers) = Top.at.handlers
  BY <1>1, <1>5, TopFacts DEF One
<1>7. Top.at \in SizeRecords
      /\ Top.at.frames \in Nat /\ Top.at.rows \in Nat /\ Top.at.inside \in Nat
      /\ Top.at.olds \in Nat /\ Top.at.entered \in Nat /\ Top.at.contract \in Nat
  BY <1>1, TopFacts DEF SizeRecords
<1>8. rows' \in Seq([handled: Nat, handler: Nat, promise: Rows])
      /\ Len(rows') = Top.at.rows
      /\ insideHandler' \in Seq(Nat) /\ Len(insideHandler') = Top.at.inside
  <2>1. rows \in Seq([handled: Nat, handler: Nat, promise: Rows])
        /\ insideHandler \in Seq(Nat)
    BY DEF TypeOK
  <2> QED BY <1>2, <1>6, <1>7, <2>1, DropFacts
<1>9. /\ frames' = Top.at.frames /\ olds' = Top.at.olds
      /\ Len(entryStates') = Top.at.entered /\ inContract' = Top.at.contract
      /\ Len(handlers') = Top.at.handlers
  BY <1>2, <1>6, <1>7
<1>10. Sizes' = Top.at
  BY <1>7, <1>8, <1>9, SizesAre
<1>11. TypeOK'
  BY <1>2, <1>4, <1>7, <1>8, <1>9, NoneTyped DEF TypeOK
<1>12. Balanced'
  BY <1>1, <1>4, <1>10, PopBalanced
<1> QED BY <1>10, <1>11, <1>12 DEF StepOK

-----------------------------------------------------------------------------
(* The invariant *)

LEMMA InitOK == Init => TypeOK /\ Balanced
<1> SUFFICES ASSUME Init PROVE TypeOK /\ Balanced
  OBVIOUS
<1> DEFINE none == [frames |-> 1, rows |-> 0, inside |-> 0, olds |-> 0,
                    entered |-> 0, contract |-> 0, handlers |-> 0]
           root == [kind |-> "test", name |-> <<"test", "fn">>, phase |-> "body", may |-> {},
                    handler |-> 0, todo |-> <<>>, cursor |-> 0, base |-> 0,
                    incoming |-> None, outcome |-> None, spoiled |-> FALSE, at |-> none]
           call == [root EXCEPT !.kind = "call", !.name = Fn(Main), !.phase = "where",
                                !.may = Uses[Main]]
           row == [handled |-> 0, handler |-> 0, promise |-> PromiseOf(Main)]
<1>1. /\ handlers = <<>> /\ insideHandler = <<>>
      /\ olds = 0 /\ entryStates = <<>>
      /\ signal = None /\ answer = "none" /\ abandoned = FALSE
      /\ \/ /\ entry = {} /\ frames = 1 /\ rows = <<>> /\ inContract = 0
            /\ stack = <<root>>
         \/ /\ entry = Uses[Main] /\ frames = 2 /\ inContract = 1
            /\ rows = <<row>> /\ stack = <<call>>
  BY DEF Init
<1>2. Main \in Functions /\ Uses[Main] \in Rows /\ PromiseOf(Main) \in Rows
      /\ {} \in Rows /\ <<"test", "fn">> \in Names /\ Fn(Main) \in Names
  BY ProgramAssumption DEF PromiseOf, Anything, Rows, Names
<1>3. none \in SizeRecords /\ <<>> \in Seq(Handlers)
  BY DEF SizeRecords
<1>4. root \in Activations /\ root.kind = "test" /\ root.at = none /\ root.phase = "body"
  BY <1>2, <1>3, NoneTyped DEF Activations
<1>5. call \in Activations /\ call.kind = "call" /\ call.at = none
      /\ call.phase = "where" /\ call.handler = 0
  <2> HIDE DEF none
  <2> QED BY <1>2, <1>3, NoneTyped DEF Activations
<1>6. row \in [handled: Nat, handler: Nat, promise: Rows]
  BY <1>2
<1>7. /\ none.frames = 1 /\ none.rows = 0 /\ none.inside = 0 /\ none.olds = 0
      /\ none.entered = 0 /\ none.contract = 0 /\ none.handlers = 0
  OBVIOUS
<1>8. /\ Sizes.frames = frames /\ Sizes.rows = Len(rows)
      /\ Sizes.inside = Len(insideHandler) /\ Sizes.olds = olds
      /\ Sizes.entered = Len(entryStates) /\ Sizes.contract = inContract
      /\ Sizes.handlers = Len(handlers)
  BY DEF Sizes
<1> HIDE DEF none, root, call, row
<1>9. CASE /\ entry = {} /\ frames = 1 /\ rows = <<>> /\ inContract = 0
           /\ stack = <<root>>
  <2>1. TypeOK
    <3>1. stack \in Seq(Activations)
      BY <1>4, <1>9
    <3>2. rows \in Seq([handled: Nat, handler: Nat, promise: Rows])
      BY <1>9
    <3>3. /\ handlers \in Seq([handler: Handlers, state: Values, cleaned: Nat])
          /\ insideHandler \in Seq(Nat)
          /\ entryStates \in Seq([owner: Nat, states: [Effects -> SUBSET Values]])
      BY <1>1
    <3>4. frames \in Nat /\ olds \in Nat /\ inContract \in Nat /\ entry \in Rows
      BY <1>1, <1>2, <1>9
    <3> QED BY <1>1, <3>1, <3>2, <3>3, <3>4, NoneTyped DEF TypeOK
  <2>2. Depth = 1 /\ Top = root
    BY <1>9 DEF Depth, Top
  <2>3. WellFormed(root) /\ ~Holds(root)
    BY <1>4 DEF WellFormed, Holds, Captures
  <2>4. Added(root, Sizes)
    BY <1>1, <1>4, <1>7, <1>8, <1>9, <2>3 DEF Added, One
  <2>5. Balanced
    BY <1>9, <2>2, <2>3, <2>4 DEF Balanced
  <2> QED BY <2>1, <2>5
<1>10. CASE /\ entry = Uses[Main] /\ frames = 2 /\ inContract = 1
            /\ rows = <<row>> /\ stack = <<call>>
  <2>1. TypeOK
    <3>1. stack \in Seq(Activations)
      BY <1>5, <1>10
    <3>2. rows \in Seq([handled: Nat, handler: Nat, promise: Rows])
      BY <1>6, <1>10
    <3>3. /\ handlers \in Seq([handler: Handlers, state: Values, cleaned: Nat])
          /\ insideHandler \in Seq(Nat)
          /\ entryStates \in Seq([owner: Nat, states: [Effects -> SUBSET Values]])
      BY <1>1
    <3>4. frames \in Nat /\ olds \in Nat /\ inContract \in Nat /\ entry \in Rows
      BY <1>1, <1>2, <1>10
    <3> QED BY <1>1, <3>1, <3>2, <3>3, <3>4, NoneTyped DEF TypeOK
  <2>2. Depth = 1 /\ Top = call
    BY <1>10 DEF Depth, Top
  <2>3. WellFormed(call) /\ ~Holds(call)
    BY <1>5 DEF WellFormed, Holds, Captures
  <2>4. Added(call, Sizes)
    BY <1>1, <1>5, <1>7, <1>8, <1>10, <2>3 DEF Added, One, Contracts
  <2>5. Balanced
    BY <1>10, <2>2, <2>3, <2>4 DEF Balanced
  <2> QED BY <2>1, <2>5
<1> QED BY <1>1, <1>9, <1>10

LEMMA NextOK ==
    ASSUME TypeOK, Balanced, [Next]_vars
    PROVE  StepOK
<1>1. ASSUME NEW f \in Functions, NEW lent, Call(f, lent) PROVE StepOK
  BY <1>1, CallOK
<1>2. ASSUME NEW c \in Closures, RunClosure(c[1], c[2]) PROVE StepOK
  <2>1. c[1] \in Functions /\ c[2] \in Rows
    BY ProgramAssumption
  <2> QED BY <1>2, <2>1, RunClosureOK
<1>3. ASSUME NEW o \in Ops, NEW i \in 1..Len(handlers), Dispatch(o, i) PROVE StepOK
  BY <1>3, DispatchOK
<1>4. ASSUME NEW o \in Ops, NoHandler(o) \/ RowNotKept(o) PROVE StepOK
  BY <1>4, NoHandlerOK, RowNotKeptOK
<1>5. ASSUME NEW list \in Lists, EnterWith(list) PROVE StepOK
  BY <1>5, EnterWithOK
<1>6. ASSUME NEW value \in Values, Assign(value) PROVE StepOK
  BY <1>6, AssignOK
<1>7. ASSUME NEW kind \in Faults, Fail(kind) PROVE StepOK
  BY <1>7, FailOK
<1>8. CASE RequiresHold \/ Captured \/ BodyEnds \/ EnsuresHold \/ CallUnwinds
  BY <1>8, RequiresHoldOK, CapturedOK, BodyEndsOK, EnsuresHoldOK, CallUnwindsOK
<1>9. CASE ClosureEnds \/ Install \/ StartCleanup \/ RunFinally \/ FinallyEnds
  BY <1>9, ClosureEndsOK, InstallOK, StartCleanupOK, RunFinallyOK, FinallyEndsOK
<1>10. CASE LeaveWith \/ Return \/ EnterRefuses \/ RefusesEnds \/ Unchanged \/ TestEnds
  BY <1>10, LeaveWithOK, ReturnOK, EnterRefusesOK, RefusesEndsOK, UnchangedOK, TestEndsOK
<1>11. CASE UNCHANGED vars
  <2>1. TypeOK'
    BY <1>11 DEF vars, TypeOK
  <2>2. stack' = stack /\ Sizes' = Sizes
    BY <1>11 DEF vars, Sizes
  <2> QED BY <2>1, <2>2, StayOK
<1> QED BY <1>1, <1>2, <1>3, <1>4, <1>5, <1>6, <1>7, <1>8, <1>9, <1>10, <1>11
        DEF Next, Finished

\* The interpreter's state keeps its shape, and its counters do not go below
\* zero, whatever the program, its handlers and the depth it is held to.
THEOREM TypeCorrect == Spec => []TypeOK
<1>1. Init => TypeOK /\ Balanced
  BY InitOK
<1>2. TypeOK /\ Balanced /\ [Next]_vars => (TypeOK /\ Balanced)'
  BY NextOK DEF StepOK
<1> QED BY <1>1, <1>2, PTL DEF Spec

\* At every moment each activation has added to the interpreter's stacks and
\* counters exactly what its kind and its phase say.
THEOREM AlwaysBalanced == Spec => []Balanced
<1>1. Init => TypeOK /\ Balanced
  BY InitOK
<1>2. TypeOK /\ Balanced /\ [Next]_vars => (TypeOK /\ Balanced)'
  BY NextOK DEF StepOK
<1> QED BY <1>1, <1>2, PTL DEF Spec

\* Whatever ends a call, a closure, a `with`, a `finally` or an `assert
\* refuses`, everything is back where it was when it began (Interp::call,
\* call_closure, dispatch, run_finally_blocks and Stmt::Refuses).
THEOREM Restored == Spec => LeavesAsFound
<1>1. Init => TypeOK /\ Balanced
  BY InitOK
<1>2. TypeOK /\ Balanced /\ [Next]_vars => (TypeOK /\ Balanced)'
  BY NextOK DEF StepOK
<1>3. TypeOK /\ Balanced /\ [Next]_vars => [Depth' < Depth => Sizes' = Top.at]_vars
  BY NextOK DEF StepOK
<1> QED BY <1>1, <1>2, <1>3, PTL DEF Spec, LeavesAsFound

-----------------------------------------------------------------------------
(***************************************************************************)
(* What an accepted program may rely on, for every program: the code of a  *)
(* handler reads its own state, every handler is cleaned up after once and *)
(* the first failure wins, and nothing is performed that the rows of those *)
(* accountable for it do not say, or that nobody answers.                  *)
(*                                                                         *)
(* All of it is said level by level of the stack of activations, each with *)
(* the part of the interpreter's other stacks that was there while it was  *)
(* the innermost one.                                                      *)
(***************************************************************************)

\* How much there was of everything while an activation was the innermost.
SizesAt(i) == IF i = Depth THEN Sizes ELSE stack[i + 1].at

\* The sizes grow from the outermost activation to the innermost.
Within(s, t) == /\ s.rows <= t.rows /\ s.handlers <= t.handlers
                /\ s.inside <= t.inside /\ s.contract <= t.contract
Nested == \A i \in 1..Depth : \A j \in i..Depth : Within(SizesAt(i), SizesAt(j))

\* A program starts in a call or a test, so every `with` is inside something.
Rooted == stack # <<>> => stack[1].kind \in {"test", "call"}

\* The code of a handler runs for the instance inside_handler names.
OwnLevel(i) ==
    LET a == stack[i] inside == SizesAt(i).inside IN
    /\ a.kind \in {"test", "closure"} => a.handler = 0
    /\ InHandlerCode(a) =>
           /\ a.handler \in 1..a.at.handlers
           /\ inside > 0 /\ insideHandler[inside] = a.handler
           /\ handlers[a.handler].handler = a.name[1]

\* The handlers of a `with` that were cleaned up after are those above the one
\* its cleanup has come to, and the failure it began with is kept.
CleanLevel(i) ==
    LET a == stack[i] end == SizesAt(i).handlers IN
    a.kind = "with" =>
        /\ \A k \in a.base + 1..end :
               handlers[k].cleaned =
                   IF a.phase = "finally" /\ k > a.cursor /\ handlers[k].handler \in Cleaning
                   THEN 1 ELSE 0
        /\ a.phase = "install" => a.cursor = end
        /\ a.phase = "finally" =>
               /\ a.cursor \in a.base..end
               /\ Failed(a.incoming) => a.outcome = a.incoming

\* An operation is in a promise, or is discharged by a handler that was
\* installed since.
Discharged(o, mark, end) == \E k \in mark + 1..end : Implements[handlers[k].handler] = EffectOf[o]
Covered(o, promise, mark, end) == o \in promise \/ Discharged(o, mark, end)

\* check_row asks a row unless an operation further in is accounted for by a
\* row further out.
Asked(j, n) == \A k \in j + 1..n : rows[k].handler # 0 => rows[j].handled < rows[k].handler

Partly(a) == a.kind = "with" /\ a.todo # <<>> /\ (a.phase = "finally" \/ a.cursor > a.base)
Whole(i) == \A k \in 1..i : ~Partly(stack[k])
InClause(a) == a.kind = "call" /\ a.phase \in Contracts
NoClause(i) == \A k \in 1..i : ~InClause(stack[k])

\* A `with` installs nothing that its code does not discharge or may not cost.
Installing(a, end) == ToSet(a.todo) \cup {handlers[k].handler : k \in a.base + 1..end}
PaidLevel(i) ==
    LET a == stack[i] list == Installing(a, SizesAt(i).handlers) IN
    a.kind = "with" /\ a.phase = "install" =>
        \A h \in list : \A o \in HandlerRow(h) :
            o \in a.may \/ \E g \in list : Implements[g] = EffectOf[o]

\* Whatever the code of an activation may perform, and whatever operations and
\* cleanups of the handlers installed by then do, is answered by one of those
\* handlers or at the boundary.
Boundary == {o \in Ops : AtTheBoundary(o)}
AnsweredLevel(i) ==
    LET end == SizesAt(i).handlers IN
    /\ Whole(i - 1) => \A o \in stack[i].may : Covered(o, Boundary, 0, end)
    /\ Whole(i) => \A k \in 1..end : \A o \in HandlerRow(handlers[k].handler) :
                       Covered(o, Boundary, 0, end)

\* The same for each row that is asked, what it promised, and the handlers
\* installed since it began.
KeptLevel(i) ==
    LET n == SizesAt(i).rows end == SizesAt(i).handlers IN
    /\ \A j \in 1..n : rows[j].handled <= end
    /\ \A j \in 1..n : Asked(j, n) /\ NoClause(i - 1) =>
        /\ Whole(i - 1) => \A o \in stack[i].may :
                               Covered(o, rows[j].promise, rows[j].handled, end)
        /\ Whole(i) => \A k \in rows[j].handled + 1..end :
                           \A o \in HandlerRow(handlers[k].handler) :
                               Covered(o, rows[j].promise, rows[j].handled, end)

Level(i) == OwnLevel(i) /\ CleanLevel(i) /\ PaidLevel(i) /\ AnsweredLevel(i) /\ KeptLevel(i)
Levels == \A i \in 1..Depth : Level(i)
EInv == TypeOK /\ Balanced /\ Nested /\ Rooted /\ Levels

-----------------------------------------------------------------------------
(* Levels a step leaves as they were *)

\* The parts of the interpreter's stacks that an activation of these sizes has.
SameUpTo(s) ==
    /\ \A k \in 1..s.rows : rows'[k] = rows[k]
    /\ \A k \in 1..s.inside : insideHandler'[k] = insideHandler[k]
    /\ \A k \in 1..s.handlers : /\ handlers'[k].handler = handlers[k].handler
                                /\ handlers'[k].cleaned = handlers[k].cleaned

Same(n) ==
    /\ n \in Nat /\ n <= Depth /\ n <= Depth' /\ entry' = entry
    /\ \A i \in 1..n : stack'[i] = stack[i] /\ SizesAt(i)' = SizesAt(i)
                       /\ SameUpTo(SizesAt(i))

LEMMA SizesAtTyped ==
    ASSUME TypeOK, NEW i \in 1..Depth
    PROVE  /\ SizesAt(i) \in SizeRecords /\ stack[i] \in Activations
           /\ stack[i].at \in SizeRecords /\ Depth \in Nat
<1>1. Depth \in Nat /\ \A j \in 1..Depth : stack[j] \in Activations
  BY StackTyped
<1>2. CASE i = Depth
  BY <1>1, <1>2, SizesTyped DEF SizesAt, Activations
<1>3. CASE i # Depth
  <2>1. i + 1 \in 1..Depth
    BY <1>1, <1>3
  <2> QED BY <1>1, <1>3, <2>1 DEF SizesAt, Activations
<1> QED BY <1>2, <1>3

\* What Balanced says of a level.
LEMMA LevelFacts ==
    ASSUME TypeOK, Balanced, NEW i \in 1..Depth
    PROVE  /\ Added(stack[i], SizesAt(i)) /\ WellFormed(stack[i])
           /\ stack[i].at.handlers <= SizesAt(i).handlers
           /\ stack[i].at.rows <= SizesAt(i).rows
           /\ stack[i].at.inside <= SizesAt(i).inside
           /\ stack[i].at.contract <= SizesAt(i).contract
           /\ InClause(stack[i]) => SizesAt(i).contract > 0
           /\ stack[i].kind # "with" => SizesAt(i).handlers = stack[i].at.handlers
<1>1. Depth \in Nat /\ SizesAt(i) \in SizeRecords /\ stack[i].at \in SizeRecords
  BY SizesAtTyped
<1>2. Added(stack[i], SizesAt(i))
  <2>1. CASE i = Depth
    <3>1. stack # <<>> /\ Top = stack[i]
      BY <1>1, <2>1 DEF Top, Depth
    <3> QED BY <3>1, <2>1 DEF Balanced, SizesAt
  <2>2. CASE i # Depth
    <3>1. i \in 1..Depth - 1
      BY <1>1, <2>2
    <3> QED BY <3>1, <2>2 DEF Balanced, SizesAt
  <2> QED BY <2>1, <2>2
<1>3. WellFormed(stack[i])
  BY DEF Balanced
<1>4. /\ stack[i].at.handlers <= SizesAt(i).handlers
      /\ stack[i].at.rows <= SizesAt(i).rows
      /\ stack[i].at.inside <= SizesAt(i).inside
      /\ stack[i].at.contract <= SizesAt(i).contract
      /\ InClause(stack[i]) => SizesAt(i).contract > 0
      /\ stack[i].kind # "with" => SizesAt(i).handlers = stack[i].at.handlers
  BY <1>1, <1>2 DEF Added, One, SizeRecords, InClause
<1> QED BY <1>2, <1>3, <1>4

LEMMA DischargedSame ==
    ASSUME NEW end \in Nat, \A k \in 1..end : handlers'[k].handler = handlers[k].handler
    PROVE  \A o, promise : \A mark \in Nat :
               Covered(o, promise, mark, end)' = Covered(o, promise, mark, end)
<1> TAKE o, promise
<1> TAKE mark \in Nat
<1>1. \A k \in mark + 1..end : handlers'[k].handler = handlers[k].handler
  OBVIOUS
<1>2. Discharged(o, mark, end)' = Discharged(o, mark, end)
  BY <1>1, Zenon DEF Discharged
<1> QED BY <1>2, Zenon DEF Covered

LEMMA AskedSame ==
    ASSUME NEW n \in Nat, \A k \in 1..n : rows'[k] = rows[k]
    PROVE  \A j \in 1..n : Asked(j, n)' = Asked(j, n)
<1> TAKE j \in 1..n
<1>1. \A k \in j + 1..n : rows'[k] = rows[k]
  OBVIOUS
<1> QED BY <1>1 DEF Asked

LEMMA WholeSame ==
    ASSUME NEW i \in Nat, \A k \in 1..i : stack'[k] = stack[k]
    PROVE  Whole(i)' = Whole(i) /\ NoClause(i)' = NoClause(i)
BY DEF Whole, NoClause

RowRecords == [handled: Nat, handler: Nat, promise: Rows]

LEMMA RowsTyped ==
    ASSUME TypeOK
    PROVE  rows \in Seq(RowRecords) /\ \A j \in 1..Len(rows) : rows[j] \in RowRecords
<1>1. rows \in Seq(RowRecords)
  BY DEF TypeOK, RowRecords
<1> QED BY <1>1

\* The sizes of a level do not go beyond what there is.
LEMMA NestedFacts ==
    ASSUME TypeOK, Nested, NEW i \in 1..Depth
    PROVE  /\ SizesAt(i).rows \in 0..Len(rows) /\ SizesAt(i).handlers \in 0..Len(handlers)
           /\ SizesAt(i).inside \in 0..Len(insideHandler)
           /\ \A j \in 1..SizesAt(i).rows :
                  rows[j].handled \in Nat /\ rows[j].handler \in Nat /\ rows[j].promise \in Rows
           /\ \A k \in 1..SizesAt(i).handlers : handlers[k].handler \in Handlers
           /\ \A j \in 1..i : Within(SizesAt(j), SizesAt(i))
<1>1. Depth \in Nat /\ SizesAt(i) \in SizeRecords
  BY SizesAtTyped
<1>2. Within(SizesAt(i), Sizes)
  <2>1. Depth \in i..Depth /\ SizesAt(Depth) = Sizes
    BY <1>1 DEF SizesAt
  <2> QED BY <2>1 DEF Nested
<1>3. Sizes.rows = Len(rows) /\ Sizes.handlers = Len(handlers) /\ Sizes.inside = Len(insideHandler)
  BY DEF Sizes
<1>4. /\ SizesAt(i).rows \in 0..Len(rows) /\ SizesAt(i).handlers \in 0..Len(handlers)
      /\ SizesAt(i).inside \in 0..Len(insideHandler)
  BY <1>1, <1>2, <1>3, LensTyped DEF Within, SizeRecords
<1>5. \A j \in 1..Len(rows) :
          rows[j].handled \in Nat /\ rows[j].handler \in Nat /\ rows[j].promise \in Rows
  BY RowsTyped DEF RowRecords
<1>6. \A j \in 1..i : Within(SizesAt(j), SizesAt(i))
  BY <1>1 DEF Nested
<1>7. \A k \in 1..SizesAt(i).handlers : k \in 1..Len(handlers)
  BY <1>4, LensTyped
<1>8. \A j \in 1..SizesAt(i).rows : j \in 1..Len(rows)
  BY <1>4, LensTyped
<1> QED BY <1>4, <1>5, <1>6, <1>7, <1>8, HandlersTyped

LEMMA LevelSame ==
    ASSUME TypeOK, Balanced, Nested, NEW i \in 1..Depth, Level(i),
           SizesAt(i)' = SizesAt(i), SameUpTo(SizesAt(i)), entry' = entry,
           \A k \in 1..i : stack'[k] = stack[k]
    PROVE  Level(i)'
<1> DEFINE a == stack[i]  s == SizesAt(i)
<1>1. /\ i \in Nat /\ i \in 1..i /\ Depth \in Nat /\ stack'[i] = a /\ a \in Activations
      /\ s \in SizeRecords /\ a.at \in SizeRecords /\ Added(a, s) /\ WellFormed(a)
      /\ a.at.handlers <= s.handlers
  BY SizesAtTyped, LevelFacts
<1>2. /\ s.rows \in Nat /\ s.handlers \in Nat /\ s.inside \in Nat /\ a.at.handlers \in Nat
      /\ a.base \in Nat
  BY <1>1 DEF SizeRecords, Activations
<1>3. /\ \A k \in 1..s.rows : rows'[k] = rows[k]
      /\ \A k \in 1..s.inside : insideHandler'[k] = insideHandler[k]
      /\ \A k \in 1..s.handlers : handlers'[k].handler = handlers[k].handler
      /\ \A k \in 1..s.handlers : handlers'[k].cleaned = handlers[k].cleaned
  BY DEF SameUpTo
<1>4. /\ Whole(i)' = Whole(i) /\ Whole(i - 1)' = Whole(i - 1) /\ NoClause(i - 1)' = NoClause(i - 1)
  <2>1. i - 1 \in Nat /\ \A k \in 1..(i - 1) : stack'[k] = stack[k]
    BY <1>1
  <2>2. (i - 1)' = i - 1
    OBVIOUS
  <2>3. Whole(i)' = Whole(i)
    BY WholeSame, <1>1
  <2>4. Whole(i - 1)' = Whole(i - 1) /\ NoClause(i - 1)' = NoClause(i - 1)
    BY WholeSame, <2>1
  <2> QED BY <2>3, <2>4
<1>5. \A o, promise : \A mark \in Nat :
          Covered(o, promise, mark, s.handlers)' = Covered(o, promise, mark, s.handlers)
  BY <1>2, <1>3, DischargedSame
<1>6. \A j \in 1..s.rows : Asked(j, s.rows)' = Asked(j, s.rows)
  BY <1>2, <1>3, AskedSame
<1>7. /\ \A j \in 1..s.rows : rows[j].handled \in Nat
      /\ \A k \in 1..s.handlers : handlers[k].handler \in Handlers
  BY NestedFacts
<1>8. SizesAt(i)' = s
  OBVIOUS
<1> HIDE DEF a, s
<1>11. OwnLevel(i)'
  <2>1. OwnLevel(i)
    BY DEF Level
  <2>2. InHandlerCode(a) => a.handler \in 1..s.handlers /\ a.at.handlers \in Nat
    BY <2>1, <1>1, <1>2 DEF OwnLevel, a
  <2>3. InHandlerCode(a) => s.inside > 0 /\ s.inside \in 1..s.inside
    BY <2>1, <1>2 DEF OwnLevel, a, s
  <2> QED BY <2>1, <2>2, <2>3, <1>1, <1>3, <1>8 DEF OwnLevel, a, s
<1>12. CleanLevel(i)'
  <2>1. CleanLevel(i)
    BY DEF Level
  <2>2. \A k \in a.base + 1..s.handlers : k \in 1..s.handlers
    BY <1>2
  <2> QED BY <2>1, <2>2, <1>1, <1>3, <1>8 DEF CleanLevel, a, s
<1>13. PaidLevel(i)'
  <2>1. PaidLevel(i)
    BY DEF Level
  <2>2. Installing(a, s.handlers)' = Installing(a, s.handlers)
    <3>1. \A k \in a.base + 1..s.handlers : k \in 1..s.handlers
      BY <1>2
    <3>2. {handlers'[k].handler : k \in a.base + 1..s.handlers}
            = {handlers[k].handler : k \in a.base + 1..s.handlers}
      BY <3>1, <1>3
    <3> QED BY <3>2, <1>1, <1>8 DEF Installing, a, s
  <2> QED BY <2>1, <2>2, <1>1, <1>8 DEF PaidLevel, a, s
<1>14. AnsweredLevel(i)'
  <2>1. AnsweredLevel(i)
    BY DEF Level
  <2>2. Boundary' = Boundary
    BY DEF Boundary, AtTheBoundary
  <2>3. \A o : Covered(o, Boundary, 0, s.handlers)' = Covered(o, Boundary, 0, s.handlers)
    BY <1>5, <2>2 DEF Covered
  <2> QED BY <2>1, <2>3, <1>1, <1>3, <1>4, <1>8 DEF AnsweredLevel, a, s
<1>15. KeptLevel(i)'
  <2>1. KeptLevel(i)
    BY DEF Level
  <2>4. \A j \in 1..s.rows : rows'[j].handled <= s.handlers
    BY <2>1, <1>3 DEF KeptLevel, s
  <2> SUFFICES ASSUME NEW j \in 1..s.rows, Asked(j, s.rows), NoClause(i - 1)
               PROVE  /\ Whole(i - 1) => \A o \in a.may :
                             Covered(o, rows[j].promise, rows[j].handled, s.handlers)'
                      /\ Whole(i) => \A k \in rows[j].handled + 1..s.handlers :
                             \A o \in HandlerRow(handlers'[k].handler) :
                                 Covered(o, rows[j].promise, rows[j].handled, s.handlers)'
    BY <2>4, <1>1, <1>3, <1>4, <1>6, <1>8 DEF KeptLevel, a, s
  <2>2. \A k \in rows[j].handled + 1..s.handlers : k \in 1..s.handlers
    BY <1>2, <1>7
  <2>3. \A o : Covered(o, rows[j].promise, rows[j].handled, s.handlers)'
                  = Covered(o, rows[j].promise, rows[j].handled, s.handlers)
    BY <1>3, <1>5, <1>7 DEF Covered
  <2> QED BY <2>1, <2>2, <2>3, <1>3 DEF KeptLevel, a, s
<1> QED BY <1>11, <1>12, <1>13, <1>14, <1>15 DEF Level

-----------------------------------------------------------------------------
(* From the levels to the invariant *)

\* The sizes of a level are within those of the level above it.
NestedTo(m) == \A i \in 1..m : \A j \in i..m : Within(SizesAt(i), SizesAt(j))
NestedGrows == \A m \in Nat : m < Depth /\ NestedTo(m) => NestedTo(m + 1)

LEMMA NestedUp == TypeOK /\ Balanced => NestedGrows
<1> SUFFICES ASSUME TypeOK, Balanced, NEW m \in Nat, m < Depth, NestedTo(m),
                    NEW i \in 1..m + 1, NEW j \in i..m + 1
             PROVE  Within(SizesAt(i), SizesAt(j))
  BY DEF NestedGrows, NestedTo
<1>1. Depth \in Nat /\ m + 1 \in 1..Depth /\ i \in 1..Depth /\ j \in 1..Depth
  BY StackTyped
<1>2. SizesAt(i) \in SizeRecords /\ SizesAt(j) \in SizeRecords
  BY <1>1, SizesAtTyped
<1>3. CASE i = j
  BY <1>2, <1>3 DEF Within, SizeRecords
<1>4. CASE j # m + 1
  BY <1>1, <1>4 DEF NestedTo
<1>5. CASE i # j /\ j = m + 1
  <2>1. m \in 1..Depth /\ m # Depth /\ i \in 1..m /\ m \in i..m
    BY <1>1, <1>5
  <2>2. Within(SizesAt(i), SizesAt(m))
    BY <2>1 DEF NestedTo
  <2>3. SizesAt(m) = stack[j].at
    BY <2>1, <1>5 DEF SizesAt
  <2>4. /\ stack[j].at.handlers <= SizesAt(j).handlers /\ stack[j].at.rows <= SizesAt(j).rows
        /\ stack[j].at.inside <= SizesAt(j).inside
        /\ stack[j].at.contract <= SizesAt(j).contract
    BY <1>1, LevelFacts
  <2>5. stack[j].at \in SizeRecords
    BY <1>1, SizesAtTyped
  <2> QED BY <1>2, <2>2, <2>3, <2>4, <2>5 DEF Within, SizeRecords
<1> QED BY <1>3, <1>4, <1>5

LEMMA LevelsBelow ==
    ASSUME TypeOK, Balanced, Nested, Levels, NEW n, Same(n)
    PROVE  \A i \in 1..n : Level(i)'
<1> TAKE i \in 1..n
<1>1. n \in Nat /\ Depth \in Nat /\ i \in 1..Depth /\ \A k \in 1..i : k \in 1..n
  BY StackTyped DEF Same
<1>2. /\ SizesAt(i)' = SizesAt(i) /\ SameUpTo(SizesAt(i)) /\ entry' = entry
      /\ \A k \in 1..i : stack'[k] = stack[k]
  BY <1>1 DEF Same
<1>3. Level(i)
  BY <1>1 DEF Levels
<1> QED BY <1>1, <1>2, <1>3, LevelSame

Good == Nested /\ Rooted /\ Levels

\* A step that leaves the levels up to n, with the levels above them as they
\* should be, at most two of them.
LEMMA GoodAfter ==
    ASSUME TypeOK, Balanced, Good, TypeOK', Balanced', NEW n, Same(n), Depth' \in n..n + 2,
           \A i \in n + 1..Depth' : Level(i)',
           n = 0 => Rooted'
    PROVE  Good'
<1>0. n \in Nat /\ Depth \in Nat /\ n <= Depth /\ n <= Depth'
  BY StackTyped DEF Same
<1>1. Depth' \in Nat
  BY <1>0
<1>2. Levels'
  <2>1. \A i \in 1..n : Level(i)'
    BY LevelsBelow DEF Good
  <2>2. ASSUME NEW i \in 1..Depth' PROVE Level(i)'
    <3>1. i \in 1..n \/ i \in n + 1..Depth'
      BY <1>0, <1>1
    <3> QED BY <2>1, <3>1
  <2> QED BY <2>2 DEF Levels
<1>3. Nested'
  <2>1. NestedGrows'
    BY NestedUp, PTL
  <2>2. NestedTo(n)'
    <3> SUFFICES ASSUME NEW i \in 1..n, NEW j \in i..n
                 PROVE  Within(SizesAt(i)', SizesAt(j)')
      BY DEF NestedTo, Within
    <3>1. i \in 1..Depth /\ j \in i..Depth /\ j \in 1..n
      BY <1>0
    <3>2. SizesAt(i)' = SizesAt(i) /\ SizesAt(j)' = SizesAt(j)
      BY <3>1 DEF Same
    <3> QED BY <3>1, <3>2 DEF Good, Nested
  <2>3. n < Depth' => NestedTo(n + 1)'
    BY <1>0, <1>1, <2>1, <2>2 DEF NestedGrows
  <2>4. n + 1 < Depth' => NestedTo(n + 1 + 1)'
    <3>1. n + 1 \in Nat
      BY <1>0
    <3> QED BY <1>0, <1>1, <2>1, <2>3, <3>1 DEF NestedGrows
  <2>5. NestedTo(Depth)'
    <3>1. Depth' = n \/ Depth' = n + 1 \/ Depth' = n + 1 + 1
      BY <1>0, <1>1
    <3>2. CASE Depth' = n
      BY <2>2, <3>2 DEF NestedTo
    <3>3. CASE Depth' = n + 1
      <4>1. NestedTo(n + 1)'
        BY <2>3, <3>3, <1>0
      <4> QED BY <4>1, <3>3 DEF NestedTo
    <3>4. CASE Depth' = n + 1 + 1
      <4>1. NestedTo(n + 1 + 1)'
        BY <2>4, <3>4, <1>0
      <4> QED BY <4>1, <3>4 DEF NestedTo
    <3> QED BY <3>1, <3>2, <3>3, <3>4
  <2> QED BY <2>5 DEF NestedTo, Nested
<1>4. Rooted'
  <2>1. CASE n # 0
    <3>1. 1 \in 1..n /\ stack # <<>>
      BY <1>0, <2>1 DEF Depth
    <3>2. stack'[1] = stack[1]
      BY <3>1 DEF Same
    <3> QED BY <3>1, <3>2 DEF Rooted, Good
  <2> QED BY <2>1
<1> QED BY <1>2, <1>3, <1>4 DEF Good

-----------------------------------------------------------------------------
(* The shapes of a step *)

Shaped == TypeOK /\ Balanced /\ Good /\ TypeOK' /\ Balanced'

\* The stack stays, and so does what a level looks at.
LEMMA StaysGood ==
    ASSUME Shaped, stack' = stack, Sizes' = Sizes, entry' = entry, SameUpTo(Sizes)
    PROVE  Good'
<1>1. Depth' = Depth /\ Depth \in Nat /\ Sizes \in SizeRecords
  BY StackTyped, SizesTyped DEF Depth, Shaped
<1>2. Same(Depth)
  <2>1. ASSUME NEW i \in 1..Depth
        PROVE  SizesAt(i)' = SizesAt(i) /\ SameUpTo(SizesAt(i))
    <3>1. SizesAt(i)' = SizesAt(i)
      BY <1>1 DEF SizesAt
    <3>2. SizesAt(i).rows \in 0..Len(rows) /\ SizesAt(i).handlers \in 0..Len(handlers)
          /\ SizesAt(i).inside \in 0..Len(insideHandler)
      BY NestedFacts DEF Shaped, Good
    <3>3. Sizes.rows = Len(rows) /\ Sizes.handlers = Len(handlers)
          /\ Sizes.inside = Len(insideHandler)
      BY DEF Sizes
    <3>4. /\ \A k \in 1..SizesAt(i).rows : k \in 1..Len(rows)
          /\ \A k \in 1..SizesAt(i).inside : k \in 1..Len(insideHandler)
          /\ \A k \in 1..SizesAt(i).handlers : k \in 1..Len(handlers)
      BY <3>2, LensTyped DEF Shaped
    <3>5. SameUpTo(SizesAt(i))
      BY <3>3, <3>4 DEF SameUpTo
    <3> QED BY <3>1, <3>5
  <2> QED BY <1>1, <2>1 DEF Same
<1>3. Depth' \in Depth..Depth + 2 /\ \A i \in Depth + 1..Depth' : FALSE
  BY <1>1
<1>4. Rooted'
  BY DEF Rooted, Shaped, Good
<1> QED BY <1>2, <1>3, <1>4, GoodAfter DEF Shaped

\* The levels below the innermost one, when what they have is as it was.
LEMMA SameLevels ==
    ASSUME TypeOK, Nested, NEW n \in Nat, n <= Depth, n <= Depth', entry' = entry,
           \A i \in 1..n : stack'[i] = stack[i],
           \A i \in 1..n : SizesAt(i)' = SizesAt(i),
           n > 0 => SameUpTo(SizesAt(n))
    PROVE  Same(n)
<1>1. ASSUME NEW i \in 1..n
      PROVE  SameUpTo(SizesAt(i))
  <2>1. Depth \in Nat /\ n \in 1..Depth /\ i \in 1..Depth /\ n > 0
    BY StackTyped
  <2>2. SizesAt(i) \in SizeRecords /\ SizesAt(n) \in SizeRecords
    BY <2>1, SizesAtTyped
  <2>3. Within(SizesAt(i), SizesAt(n))
    BY <2>1 DEF Nested
  <2>4. /\ \A k \in 1..SizesAt(i).rows : k \in 1..SizesAt(n).rows
        /\ \A k \in 1..SizesAt(i).inside : k \in 1..SizesAt(n).inside
        /\ \A k \in 1..SizesAt(i).handlers : k \in 1..SizesAt(n).handlers
    BY <2>2, <2>3 DEF Within, SizeRecords
  <2>5. SameUpTo(SizesAt(n))
    BY <2>1
  <2> QED BY <2>4, <2>5 DEF SameUpTo
<1> QED BY <1>1 DEF Same

DepthIsNat == Depth \in Nat
LEMMA DepthTyped == TypeOK => DepthIsNat
BY StackTyped DEF DepthIsNat

LEMMA DepthAfter ==
    ASSUME TypeOK' PROVE Depth' \in Nat
<1>1. DepthIsNat'
  BY DepthTyped, PTL
<1> QED BY <1>1 DEF DepthIsNat

\* The levels under an activation that was not touched and is still there, or
\* that has just gone.
LEMMA SameUnder ==
    ASSUME Shaped, NEW n \in Nat, n < Depth, entry' = entry,
           \A i \in 1..n : stack'[i] = stack[i],
           n < Depth' => stack'[n + 1].at = stack[n + 1].at,
           n <= Depth', n = Depth' => Sizes' = stack[n + 1].at,
           SameUpTo(stack[n + 1].at)
    PROVE  Same(n)
<1>1. Depth \in Nat /\ Depth' \in Nat
  BY StackTyped, DepthAfter DEF Shaped
<1>2. ASSUME NEW i \in 1..n
      PROVE  SizesAt(i)' = SizesAt(i)
  <2>1. SizesAt(i) = stack[i + 1].at
    BY <1>1 DEF SizesAt
  <2>2. CASE i = n
    <3>1. i = Depth' \/ i < Depth'
      BY <1>1, <2>2
    <3> QED BY <2>1, <2>2, <3>1 DEF SizesAt
  <2>3. CASE i # n
    <3>1. i + 1 \in 1..n /\ i # Depth'
      BY <2>3
    <3> QED BY <2>1, <3>1 DEF SizesAt
  <2> QED BY <2>2, <2>3
<1>3. n > 0 => SizesAt(n) = stack[n + 1].at
  BY <1>1 DEF SizesAt
<1> QED BY <1>1, <1>2, <1>3, SameLevels DEF Shaped, Good

LEMMA PopShape ==
    ASSUME Shaped, stack # <<>>, stack' = Front(stack), Sizes' = Top.at, entry' = entry,
           SameUpTo(Top.at), NEW n, n = Depth - 1
    PROVE  n \in Nat /\ n < Depth /\ Depth' = n /\ Same(n) /\ (n = 0 => stack' = <<>>)
<1>1. /\ n \in Nat /\ n < Depth /\ n + 1 = Depth /\ Len(stack') = n /\ Depth' = n
      /\ \A i \in 1..n : stack'[i] = stack[i]
  BY StackTyped, FrontFacts DEF Depth, Shaped
<1>2. stack[n + 1].at = Top.at
  BY <1>1 DEF Top
<1>3. Same(n)
  BY <1>1, <1>2, SameUnder
<1>4. TypeOK' => stack' \in Seq(Activations)
  BY DEF TypeOK
<1> QED BY <1>1, <1>3, <1>4 DEF Shaped

\* The innermost activation is over.
LEMMA PopsGood ==
    ASSUME Shaped, stack # <<>>, stack' = Front(stack), Sizes' = Top.at, entry' = entry,
           SameUpTo(Top.at)
    PROVE  Good'
<1>1. PICK n : n = Depth - 1
  OBVIOUS
<1>2. n \in Nat /\ n < Depth /\ Depth' = n /\ Same(n) /\ (n = 0 => stack' = <<>>)
  BY <1>1, PopShape
<1>3. n = 0 => Rooted'
  BY <1>2 DEF Rooted
<1>4. Depth' \in n..n + 2 /\ \A i \in n + 1..Depth' : FALSE
  BY <1>2
<1> QED BY <1>2, <1>3, <1>4, GoodAfter DEF Shaped

LEMMA MoveShape ==
    ASSUME Shaped, stack # <<>>, NEW b, stack' = [stack EXCEPT ![Depth] = b],
           b.at = Top.at, entry' = entry, SameUpTo(Top.at), NEW n, n = Depth
    PROVE  /\ n \in Nat /\ n > 0 /\ Depth' = n /\ stack'[n] = b /\ stack[n] = Top
           /\ Same(n - 1)
           /\ SizesAt(n)' = Sizes' /\ SizesAt(n) = Sizes
           /\ Whole(n - 1)' = Whole(n - 1) /\ NoClause(n - 1)' = NoClause(n - 1)
<1>1. /\ n \in Nat /\ n > 0 /\ stack'[n] = b /\ Depth' = n
      /\ \A i \in 1..n - 1 : stack'[i] = stack[i]
  BY StackTyped DEF Depth, Shaped
<1>2. SizesAt(n)' = Sizes' /\ SizesAt(n) = Sizes
  BY <1>1 DEF SizesAt
<1>3. Same(n - 1)
  <2>1. n - 1 \in Nat /\ n - 1 < Depth /\ n - 1 < Depth' /\ n - 1 + 1 = n /\ n - 1 <= Depth'
        /\ n - 1 # Depth'
    BY <1>1
  <2>2. stack[n - 1 + 1].at = Top.at /\ stack'[n - 1 + 1].at = Top.at
    BY <1>1, <2>1 DEF Top
  <2> QED BY <1>1, <2>1, <2>2, SameUnder
<1>4. Whole(n - 1)' = Whole(n - 1) /\ NoClause(n - 1)' = NoClause(n - 1)
  BY <1>1 DEF Whole, NoClause
<1> QED BY <1>1, <1>2, <1>3, <1>4 DEF Top

\* The innermost activation moves on.
LEMMA MovesGood ==
    ASSUME Shaped, stack # <<>>, NEW b, stack' = [stack EXCEPT ![Depth] = b],
           b.at = Top.at, b.kind = Top.kind, entry' = entry, SameUpTo(Top.at),
           NEW n, n = Depth, Level(n)'
    PROVE  Good'
<1>1. /\ n \in Nat /\ n > 0 /\ Depth' = n /\ stack'[n] = b /\ stack[n] = Top /\ Same(n - 1)
  BY MoveShape
<1>2. n - 1 \in Nat /\ Depth' \in n - 1..n - 1 + 2 /\ \A i \in n - 1 + 1..Depth' : i = n
  BY <1>1
<1>3. \A i \in n - 1 + 1..Depth' : Level(i)'
  BY <1>2
<1>4. n - 1 = 0 => Rooted'
  BY <1>1 DEF Rooted, Shaped, Good
<1> QED BY <1>1, <1>2, <1>3, <1>4, GoodAfter DEF Shaped

LEMMA PushShape ==
    ASSUME Shaped, NEW a, stack' = Append(stack, a), a.at = Sizes, entry' = entry,
           SameUpTo(Sizes), NEW n, n = Depth + 1
    PROVE  /\ n \in Nat /\ n > 0 /\ Depth = n - 1 /\ Depth' = n /\ stack'[n] = a
           /\ Same(n - 1) /\ SizesAt(n)' = Sizes'
           /\ Whole(n - 1)' = Whole(n - 1) /\ NoClause(n - 1)' = NoClause(n - 1)
<1>1. /\ n \in Nat /\ n > 0 /\ Depth = n - 1 /\ Depth' = n /\ stack'[n] = a
      /\ \A i \in 1..n - 1 : stack'[i] = stack[i]
  BY StackTyped DEF Depth, Shaped
<1>2. SizesAt(n)' = Sizes'
  BY <1>1 DEF SizesAt
<1>3. Same(n - 1)
  <2>1. ASSUME NEW i \in 1..n - 1 PROVE SizesAt(i)' = SizesAt(i)
    <3>1. i # Depth' /\ (i # Depth => i + 1 \in 1..n - 1) /\ (i = Depth => i + 1 = n)
      BY <1>1
    <3>2. SizesAt(i)' = stack'[i + 1].at
      BY <3>1 DEF SizesAt
    <3> QED BY <1>1, <3>1, <3>2 DEF SizesAt
  <2>2. SizesAt(n - 1) = Sizes
    BY <1>1 DEF SizesAt
  <2>3. n - 1 \in Nat /\ n - 1 <= Depth /\ n - 1 <= Depth'
    BY <1>1
  <2> QED BY <1>1, <2>1, <2>2, <2>3, SameLevels DEF Shaped, Good
<1>4. Whole(n - 1)' = Whole(n - 1) /\ NoClause(n - 1)' = NoClause(n - 1)
  BY <1>1 DEF Whole, NoClause
<1> QED BY <1>1, <1>2, <1>3, <1>4

\* A new activation begins.
LEMMA PushesGood ==
    ASSUME Shaped, stack # <<>>, NEW a, stack' = Append(stack, a), a.at = Sizes,
           entry' = entry, SameUpTo(Sizes), NEW n, n = Depth + 1, Level(n)'
    PROVE  Good'
<1>1. n \in Nat /\ Depth = n - 1 /\ Depth > 0 /\ Depth' = n /\ Same(n - 1)
  BY PushShape, StackTyped DEF Shaped
<1>2. n - 1 # 0 /\ Depth' \in n - 1..n - 1 + 2 /\ \A i \in n - 1 + 1..Depth' : i = n
  BY <1>1
<1>3. \A i \in n - 1 + 1..Depth' : Level(i)'
  BY <1>2
<1> QED BY <1>1, <1>2, <1>3, GoodAfter DEF Shaped

-----------------------------------------------------------------------------
(* What the innermost level knows *)

LEMMA TopLevel ==
    ASSUME TypeOK, Balanced, Good, stack # <<>>, NEW n, n = Depth
    PROVE  /\ n \in 1..Depth /\ n \in Nat /\ Top = stack[n] /\ SizesAt(n) = Sizes
           /\ Sizes.handlers = Len(handlers) /\ Sizes.rows = Len(rows)
           /\ Sizes.inside = Len(insideHandler)
           /\ Top \in Activations /\ Level(n)
BY StackTyped DEF SizesAt, Sizes, Good, Levels, Top

\* The code of a handler, and the instance it is running for.
LEMMA TopOwn ==
    ASSUME TypeOK, Balanced, Good, stack # <<>>
    PROVE  /\ Top.kind \in {"test", "closure"} => Top.handler = 0
           /\ InHandlerCode(Top) =>
                 /\ Top.handler \in 1..Top.at.handlers /\ Top.handler \in 1..Len(handlers)
                 /\ Len(insideHandler) > 0 /\ insideHandler[Len(insideHandler)] = Top.handler
                 /\ handlers[Top.handler].handler = Top.name[1]
<1>1. PICK n : n = Depth
  OBVIOUS
<1>2. Level(n) /\ Top = stack[n] /\ SizesAt(n) = Sizes /\ Sizes.inside = Len(insideHandler)
  BY <1>1, TopLevel
<1>3. Top.at.handlers \in Nat /\ Top.at.handlers <= Len(handlers) /\ Len(handlers) \in Nat
  BY TopFacts, LensTyped DEF SizeRecords
<1> QED BY <1>2, <1>3 DEF Level, OwnLevel

\* What a clause may perform besides is of the same effects.
LEMMA MayTyped ==
    ASSUME TypeOK, stack # <<>>
    PROVE  /\ Top.may \in Rows /\ May \in Rows /\ Top.may \subseteq May
           /\ \A o \in May : \E p \in Top.may : EffectOf[p] = EffectOf[o]
           /\ ~InClause(Top) => May = Top.may
<1>1. Top.may \in Rows
  BY StackTyped DEF Activations
<1> QED BY <1>1 DEF May, Rows, InClause

LEMMA WholeDown ==
    ASSUME NEW n \in Nat, n > 0
    PROVE  /\ Whole(n) <=> Whole(n - 1) /\ ~Partly(stack[n])
           /\ NoClause(n) <=> NoClause(n - 1) /\ ~InClause(stack[n])
<1>1. 1..n = 1..n - 1 \cup {n}
  OBVIOUS
<1> QED BY <1>1 DEF Whole, NoClause

\* Whatever the code that is running may perform is answered.
LEMMA TopAnswered ==
    ASSUME TypeOK, Balanced, Good, stack # <<>>, NEW n, n = Depth
    PROVE  /\ Whole(n - 1) => \A o \in May : Covered(o, Boundary, 0, Len(handlers))
           /\ Whole(n) => \A k \in 1..Len(handlers) : \A o \in HandlerRow(handlers[k].handler) :
                              Covered(o, Boundary, 0, Len(handlers))
<1>1. Level(n) /\ Top = stack[n] /\ SizesAt(n) = Sizes /\ Sizes.handlers = Len(handlers)
  BY TopLevel
<1>2. /\ Whole(n - 1) => \A o \in Top.may : Covered(o, Boundary, 0, Len(handlers))
      /\ Whole(n) => \A k \in 1..Len(handlers) : \A o \in HandlerRow(handlers[k].handler) :
                         Covered(o, Boundary, 0, Len(handlers))
  BY <1>1 DEF Level, AnsweredLevel
<1>3. ASSUME Whole(n - 1), NEW o \in May PROVE Covered(o, Boundary, 0, Len(handlers))
  <2>1. o \in Ops /\ \E p \in Top.may : EffectOf[p] = EffectOf[o]
    BY MayTyped DEF Rows
  <2>2. PICK p \in Top.may : EffectOf[p] = EffectOf[o]
    BY <2>1
  <2>3. Covered(p, Boundary, 0, Len(handlers))
    BY <1>2, <1>3
  <2>4. p \in Boundary => o \in Boundary
    BY <2>1, <2>2 DEF Boundary, AtTheBoundary
  <2> QED BY <2>2, <2>3, <2>4 DEF Covered, Discharged
<1> QED BY <1>2, <1>3

\* Every row that is asked covers it, or it is discharged since.
LEMMA TopKept ==
    ASSUME TypeOK, Balanced, Good, stack # <<>>, NEW n, n = Depth,
           NEW j \in 1..Len(rows), Asked(j, Len(rows)), NoClause(n - 1)
    PROVE  /\ Whole(n - 1) => \A o \in Top.may :
                  Covered(o, rows[j].promise, rows[j].handled, Len(handlers))
           /\ Whole(n) => \A k \in rows[j].handled + 1..Len(handlers) :
                  \A o \in HandlerRow(handlers[k].handler) :
                      Covered(o, rows[j].promise, rows[j].handled, Len(handlers))
<1>1. /\ Level(n) /\ Top = stack[n] /\ SizesAt(n) = Sizes /\ Sizes.handlers = Len(handlers)
      /\ Sizes.rows = Len(rows)
  BY TopLevel
<1> QED BY <1>1 DEF Level, KeptLevel

-----------------------------------------------------------------------------
(* The level of an activation that has just begun *)

\* What an activation finds when it begins: a step that pushes it, and leaves
\* the handlers installed as they were.
NewTop(a, n) ==
    /\ n = Depth + 1 /\ stack # <<>> /\ stack'[n] = a /\ SizesAt(n)' = Sizes'
    /\ Whole(n - 1)' => Whole(n - 1)
    /\ NoClause(n - 1)' => NoClause(n - 1)
    /\ entry' = entry
    /\ Len(handlers') = Len(handlers)
    /\ \A k \in 1..Len(handlers) : handlers'[k].handler = handlers[k].handler

\* Its row, if it has one, is kept by what it may perform, and that is what
\* the code that began it may perform, or what the operation or the cleanup of
\* an installed handler does.
Lawful(a) ==
    \/ rows' = rows /\ a.may \subseteq May
    \/ \E r \in RowRecords :
          /\ rows' = Append(rows, r) /\ r.handled = Len(handlers) /\ a.may \subseteq r.promise
          /\ \/ r.handler = 0 /\ a.may \subseteq May
             \/ r.handler \in 1..Len(handlers)
                /\ a.may \subseteq HandlerRow(handlers[r.handler].handler)

LEMMA NewAnswered ==
    ASSUME TypeOK, Balanced, Good, NEW a, NEW n, NewTop(a, n), Lawful(a)
    PROVE  AnsweredLevel(n)'
<1>1. PICK m : m = Depth
  OBVIOUS
<1>2. m \in Nat /\ m > 0 /\ n - 1 = m /\ n \in Nat /\ n > 0 /\ Len(handlers) \in Nat
  BY <1>1, StackTyped, LensTyped DEF NewTop
<1>3. /\ Whole(m - 1) => \A o \in May : Covered(o, Boundary, 0, Len(handlers))
      /\ Whole(m) => \A k \in 1..Len(handlers) : \A o \in HandlerRow(handlers[k].handler) :
                         Covered(o, Boundary, 0, Len(handlers))
  BY <1>1, TopAnswered DEF NewTop
<1>4. Whole(m) => Whole(m - 1)
  BY <1>2, WholeDown
<1>5. Whole(n)' => Whole(n - 1)'
  BY <1>2 DEF Whole
<1>6. Whole(n - 1)' => Whole(m)
  BY <1>2 DEF NewTop
<1>7. \A o : Covered(o, Boundary, 0, Len(handlers))' = Covered(o, Boundary, 0, Len(handlers))
  <2> DEFINE end == Len(handlers)
  <2>1. end' = end /\ Boundary' = Boundary /\ end \in Nat
        /\ \A k \in 1..end : handlers'[k].handler = handlers[k].handler
    BY <1>2 DEF NewTop, Boundary, AtTheBoundary
  <2> HIDE DEF end
  <2>2. \A o : Covered(o, Boundary, 0, end)' = Covered(o, Boundary, 0, end)
    BY <2>1 DEF Covered, Discharged
  <2> QED BY <2>2 DEF end
<1>8. a.may \subseteq May
      \/ \E k \in 1..Len(handlers) : a.may \subseteq HandlerRow(handlers[k].handler)
  BY DEF Lawful
<1>9. SizesAt(n)'.handlers = Len(handlers') /\ stack'[n] = a /\ Len(handlers') = Len(handlers)
      /\ \A k \in 1..Len(handlers) : handlers'[k].handler = handlers[k].handler
  BY DEF NewTop, Sizes
<1>10. ASSUME Whole(n - 1)', NEW o \in a.may
       PROVE  Covered(o, Boundary, 0, Len(handlers))'
  BY <1>3, <1>4, <1>6, <1>7, <1>8, <1>10
<1>11. ASSUME Whole(n)', NEW k \in 1..Len(handlers), NEW o \in HandlerRow(handlers'[k].handler)
       PROVE  Covered(o, Boundary, 0, Len(handlers))'
  BY <1>3, <1>5, <1>6, <1>7, <1>9, <1>11
<1> QED BY <1>9, <1>10, <1>11 DEF AnsweredLevel

\* Rows that are there already are asked after a call as before it, unless the
\* code that begins belongs to a handler that was installed before them.
LEMMA AskedUnder ==
    ASSUME TypeOK, NEW r \in RowRecords, rows' = Append(rows, r), NEW w, w = Len(rows),
           NEW j \in 1..w, Asked(j, w + 1)'
    PROVE  Asked(j, w) /\ (r.handler # 0 => rows[j].handled < r.handler)
<1>1. /\ w \in Nat /\ rows'[w + 1] = r /\ w + 1 \in j + 1..w + 1
      /\ \A k \in 1..w : rows'[k] = rows[k]
      /\ \A k \in j + 1..w : k \in 1..w /\ k \in j + 1..w + 1
  BY RowsTyped, AppendFacts
<1>2. \A k \in j + 1..w + 1 : rows'[k].handler # 0 => rows'[j].handled < rows'[k].handler
  BY DEF Asked
<1> QED BY <1>1, <1>2 DEF Asked

LEMMA NewKept ==
    ASSUME TypeOK, Balanced, Good, NEW a, NEW n, NewTop(a, n), Lawful(a)
    PROVE  KeptLevel(n)'
<1>1. PICK m : m = Depth
  OBVIOUS
<1>2. m \in Nat /\ m > 0 /\ n - 1 = m /\ n \in Nat /\ n > 0 /\ Len(handlers) \in Nat
      /\ stack # <<>> /\ Top = stack[m] /\ Len(rows) \in Nat
  BY <1>1, StackTyped, LensTyped DEF NewTop, Top
<1>3. Whole(m) => Whole(m - 1)
  BY <1>2, WholeDown
<1>4. NoClause(m) => NoClause(m - 1) /\ May = Top.may
  BY <1>2, WholeDown, MayTyped
<1>5. Whole(n)' => Whole(n - 1)'
  BY <1>2 DEF Whole
<1>6. (Whole(n - 1)' => Whole(m)) /\ (NoClause(n - 1)' => NoClause(m))
  BY <1>2 DEF NewTop
<1>7. /\ SizesAt(n)'.handlers = Len(handlers) /\ SizesAt(n)'.rows = Len(rows')
      /\ stack'[n] = a
      /\ \A k \in 1..Len(handlers) : handlers'[k].handler = handlers[k].handler
  BY DEF NewTop, Sizes
<1>8. \A j \in 1..Len(rows) : rows[j].handled \in Nat /\ rows[j].handler \in Nat
  BY RowsTyped DEF RowRecords
\* A row that was there when the activation began, and is asked still.
<1>9. ASSUME NEW j \in 1..Len(rows), Asked(j, Len(rows)), NoClause(n - 1)',
             a.may \subseteq May
             \/ \E k \in rows[j].handled + 1..Len(handlers) :
                    a.may \subseteq HandlerRow(handlers[k].handler)
      PROVE  /\ Whole(n - 1)' => \A o \in a.may :
                    Covered(o, rows[j].promise, rows[j].handled, Len(handlers))
             /\ Whole(n)' => \A k \in rows[j].handled + 1..Len(handlers) :
                    \A o \in HandlerRow(handlers[k].handler) :
                        Covered(o, rows[j].promise, rows[j].handled, Len(handlers))
  <2>1. /\ Whole(m - 1) => \A o \in Top.may :
                Covered(o, rows[j].promise, rows[j].handled, Len(handlers))
        /\ Whole(m) => \A k \in rows[j].handled + 1..Len(handlers) :
                \A o \in HandlerRow(handlers[k].handler) :
                    Covered(o, rows[j].promise, rows[j].handled, Len(handlers))
    BY <1>1, <1>2, <1>4, <1>6, <1>9, TopKept
  <2>2. Whole(n - 1)' => \A o \in a.may :
            Covered(o, rows[j].promise, rows[j].handled, Len(handlers))
    BY <2>1, <1>3, <1>4, <1>6, <1>9
  <2> QED BY <2>1, <2>2, <1>5, <1>6
<1>10. PICK e, w : e = Len(handlers) /\ w = Len(rows')
  OBVIOUS
<1>11. \A o, promise : \A mark \in Nat :
           Covered(o, promise, mark, e)' = Covered(o, promise, mark, e)
  <2>1. e \in Nat /\ \A k \in 1..e : handlers'[k].handler = handlers[k].handler
    BY <1>2, <1>7, <1>10
  <2> QED BY <2>1, DischargedSame
<1>16. \A j \in 1..w : rows'[j].handled <= e
  <2>1. \A j \in 1..Len(rows) : rows[j].handled <= e
    <3>1. Level(m) /\ SizesAt(m) = Sizes /\ Sizes.rows = Len(rows)
          /\ Sizes.handlers = Len(handlers)
      BY <1>1, <1>2, TopLevel
    <3> QED BY <3>1, <1>10 DEF Level, KeptLevel
  <2>2. CASE rows' = rows
    BY <2>1, <2>2, <1>10
  <2>3. ASSUME NEW r \in RowRecords, rows' = Append(rows, r), r.handled = Len(handlers)
        PROVE  \A j \in 1..w : rows'[j].handled <= e
    <3>1. /\ w = Len(rows) + 1 /\ rows'[w] = r
          /\ \A i \in 1..Len(rows) : rows'[i] = rows[i]
      BY <2>3, <1>10, RowsTyped, AppendFacts
    <3>2. \A j \in 1..w : j = w \/ j \in 1..Len(rows)
      BY <3>1, <1>2
    <3> QED BY <3>1, <3>2, <2>1, <2>3, <1>2, <1>10
  <2> QED BY <2>2, <2>3 DEF Lawful
<1>12. SUFFICES ASSUME NEW j \in 1..w, Asked(j, w)', NoClause(n - 1)', NEW p, NEW mark,
                       p = rows'[j].promise, mark = rows'[j].handled
                PROVE  /\ Whole(n - 1)' => \A o \in a.may : Covered(o, p, mark, e)'
                       /\ Whole(n)' => \A k \in mark + 1..e :
                              \A o \in HandlerRow(handlers'[k].handler) : Covered(o, p, mark, e)'
  BY <1>7, <1>10, <1>16 DEF KeptLevel, Asked, Covered, Discharged
<1>13. CASE \E i \in 1..Len(rows) :
                /\ i = j /\ rows'[j] = rows[j] /\ Asked(j, Len(rows))
                /\ a.may \subseteq May
                   \/ \E k \in rows[j].handled + 1..Len(handlers) :
                          a.may \subseteq HandlerRow(handlers[k].handler)
  <2>1. j \in 1..Len(rows) /\ p = rows[j].promise /\ mark = rows[j].handled /\ mark \in Nat
    BY <1>8, <1>12, <1>13
  <2>2. \A k \in mark + 1..e : k \in 1..Len(handlers)
    BY <2>1, <1>2, <1>10
  <2>3. /\ Whole(n - 1)' => \A o \in a.may : Covered(o, p, mark, e)
        /\ Whole(n)' => \A k \in mark + 1..e :
               \A o \in HandlerRow(handlers[k].handler) : Covered(o, p, mark, e)
    BY <2>1, <1>9, <1>10, <1>12, <1>13
  <2> QED BY <2>1, <2>2, <2>3, <1>7, <1>11
<1>14. CASE rows' = rows /\ a.may \subseteq May
  BY <1>10, <1>12, <1>13, <1>14 DEF Asked
<1>15. CASE \E r \in RowRecords :
          /\ rows' = Append(rows, r) /\ r.handled = Len(handlers) /\ a.may \subseteq r.promise
          /\ \/ r.handler = 0 /\ a.may \subseteq May
             \/ r.handler \in 1..Len(handlers)
                /\ a.may \subseteq HandlerRow(handlers[r.handler].handler)
  <2>1. PICK r \in RowRecords :
          /\ rows' = Append(rows, r) /\ r.handled = Len(handlers) /\ a.may \subseteq r.promise
          /\ \/ r.handler = 0 /\ a.may \subseteq May
             \/ r.handler \in 1..Len(handlers)
                /\ a.may \subseteq HandlerRow(handlers[r.handler].handler)
    BY <1>15
  <2>2. /\ w = Len(rows) + 1 /\ rows'[w] = r
        /\ \A i \in 1..Len(rows) : rows'[i] = rows[i]
    BY <2>1, <1>10, RowsTyped, AppendFacts
  <2>3. CASE j = w
    <3>1. p = r.promise /\ mark = e
      BY <2>1, <2>2, <2>3, <1>10, <1>12
    <3>2. mark + 1..e = {}
      BY <3>1, <1>2, <1>10
    <3>3. \A o \in a.may : Covered(o, p, mark, e)'
      BY <3>1, <2>1 DEF Covered
    <3> QED BY <3>2, <3>3
  <2>4. CASE j # w
    <3>1. j \in 1..Len(rows)
      BY <2>2, <2>4, <1>2
    <3>2. \A v : v = Len(rows) => Asked(j, v + 1)'
      BY <1>12, <2>2
    <3>3. Asked(j, Len(rows)) /\ (r.handler # 0 => rows[j].handled < r.handler)
      BY <3>1, <3>2, <2>1, AskedUnder
    <3>4. r.handler \in 1..Len(handlers) => r.handler \in rows[j].handled + 1..Len(handlers)
      BY <3>1, <3>3, <1>2, <1>8
    <3> QED BY <3>1, <3>3, <3>4, <2>1, <2>2, <1>13
  <2> QED BY <2>3, <2>4
<1> QED BY <1>14, <1>15 DEF Lawful

-----------------------------------------------------------------------------
(* What is shown of every step *)

CleanedOnce ==
    /\ \A i \in Len(handlers') + 1..Len(handlers) :
           handlers[i].cleaned = IF handlers[i].handler \in Cleaning THEN 1 ELSE 0
    /\ \A i \in 1..Len(handlers') : i <= Len(handlers) =>
           (handlers'[i].cleaned > handlers[i].cleaned =>
              \A j \in i + 1..Len(handlers) :
                  handlers[j].handler \in Cleaning => handlers[j].cleaned = 1)
FirstFailure ==
    CleaningUp /\ Depth' < Depth /\ Failed(Top.incoming) => signal' = Top.incoming
RowKept == stack' = stack /\ signal'.kind = "row" => PartlyInstalled
EffectAnswered ==
    stack' = stack /\ signal'.kind = "nohandler"
        => AtTheBoundary(signal'.about[2]) \/ PartlyInstalled
StepGood == Good' /\ CleanedOnce /\ FirstFailure /\ RowKept /\ EffectAnswered

\* A step that cleans up nothing, ends no `with` and raises neither of the two
\* failures has only the levels to keep.
LEMMA Otherwise ==
    ASSUME Shaped, Good', Len(handlers') = Len(handlers),
           \A k \in 1..Len(handlers) : handlers'[k].cleaned = handlers[k].cleaned,
           Depth' < Depth => Top.kind # "with",
           stack' = stack => signal'.kind \notin {"row", "nohandler"}
    PROVE  StepGood
<1>1. \A k \in 1..Len(handlers) : handlers[k].cleaned \in Nat
  BY HandlersTyped DEF Shaped, Instances
<1>2. Len(handlers) \in Nat
  BY LensTyped DEF Shaped
<1>3. CleanedOnce
  BY <1>1, <1>2 DEF CleanedOnce
<1>4. FirstFailure /\ RowKept /\ EffectAnswered
  BY DEF FirstFailure, CleaningUp, RowKept, EffectAnswered
<1> QED BY <1>3, <1>4 DEF StepGood

\* Nothing an activation looks at has changed.
LEMMA Unmoved ==
    ASSUME NEW s, rows' = rows, insideHandler' = insideHandler, handlers' = handlers
    PROVE  SameUpTo(s)
BY DEF SameUpTo

LEMMA SignalKinds ==
    /\ None.kind = "none"
    /\ \A kind, about : Signal(kind, about).kind = kind /\ Signal(kind, about).about = about
BY DEF None, Signal

\* The stack stays and no row is broken: assigning, returning, failing, asking
\* what is unchanged, and doing nothing.
LEMMA StayStep ==
    ASSUME Shaped, stack' = stack, Sizes' = Sizes, entry' = entry, rows' = rows,
           insideHandler' = insideHandler,
           Len(handlers') = Len(handlers),
           \A k \in 1..Len(handlers) : handlers'[k].handler = handlers[k].handler
                                       /\ handlers'[k].cleaned = handlers[k].cleaned,
           signal'.kind \notin {"row", "nohandler"}
    PROVE  StepGood
<1>1. Depth' = Depth /\ Depth \in Nat /\ Sizes.handlers = Len(handlers)
  BY StackTyped DEF Shaped, Depth, Sizes
<1>2. SameUpTo(Sizes)
  BY <1>1 DEF SameUpTo
<1>3. Good'
  BY <1>2, StaysGood
<1> QED BY <1>1, <1>3, Otherwise

LEMMA AssignStep ==
    ASSUME Shaped, NEW value \in Values, Assign(value) PROVE StepGood
<1>1. /\ stack' = stack /\ entry' = entry /\ rows' = rows /\ insideHandler' = insideHandler
      /\ frames' = frames /\ olds' = olds /\ entryStates' = entryStates
      /\ inContract' = inContract /\ signal' = signal /\ signal = None
      /\ handlers' = [handlers EXCEPT ![Last(insideHandler)].state = value]
  BY DEF Assign, Evaluating
<1>2. /\ Len(handlers') = Len(handlers)
      /\ \A k \in 1..Len(handlers) : handlers'[k].handler = handlers[k].handler
                                     /\ handlers'[k].cleaned = handlers[k].cleaned
  BY <1>1, HandlersTyped DEF Shaped, Instances
<1>3. Sizes' = Sizes
  BY <1>1, <1>2 DEF Sizes
<1> QED BY <1>1, <1>2, <1>3, StayStep, SignalKinds

LEMMA PlainStep ==
    ASSUME Shaped, stack' = stack, entry' = entry, rows' = rows,
           insideHandler' = insideHandler, handlers' = handlers, frames' = frames,
           olds' = olds, entryStates' = entryStates, inContract' = inContract,
           signal'.kind \notin {"row", "nohandler"}
    PROVE  StepGood
<1>1. Sizes' = Sizes
  BY DEF Sizes
<1> QED BY <1>1, StayStep

LEMMA PlainSteps ==
    ASSUME Shaped, Return \/ Unchanged \/ \E kind \in Faults : Fail(kind)
    PROVE  StepGood
<1>1. CASE Return
  BY <1>1, PlainStep, SignalKinds DEF Return, Raise
<1>2. CASE Unchanged
  BY <1>2, PlainStep, SignalKinds DEF Unchanged, Evaluating
<1>3. ASSUME NEW kind \in Faults, Fail(kind) PROVE StepGood
  <2>1. kind \in {"contract", "assert", "abandoned"}
    BY ProgramAssumption
  <2> QED BY <1>3, <2>1, PlainStep, SignalKinds DEF Fail, Raise
<1> QED BY <1>1, <1>2, <1>3

\* A failure goes past: nothing changes but the signal.
LEMMA RaisedGood ==
    ASSUME Shaped, NEW s, Raise(s)
    PROVE  Good'
<1>1. Sizes' = Sizes /\ stack' = stack /\ entry' = entry
  BY DEF Sizes, Raise
<1>2. SameUpTo(Sizes)
  BY Unmoved DEF Raise
<1> QED BY <1>1, <1>2, StaysGood

-----------------------------------------------------------------------------
(* The two failures nothing accepted should meet *)

\* Outside every contract no activation is in a clause.
LEMMA OutsideClauses ==
    ASSUME TypeOK, Balanced, Nested, inContract = 0, NEW n, n = Depth
    PROVE  NoClause(n)
<1> SUFFICES ASSUME NEW i \in 1..n, InClause(stack[i]) PROVE FALSE
  BY DEF NoClause
<1>1. n \in Nat /\ i \in 1..Depth /\ Depth \in i..Depth
  BY StackTyped
<1>2. SizesAt(i).contract > 0 /\ SizesAt(i).contract \in Nat
  BY <1>1, LevelFacts, SizesAtTyped DEF SizeRecords
<1>3. SizesAt(Depth) = Sizes /\ Sizes.contract = 0
  BY DEF SizesAt, Sizes
<1>4. Within(SizesAt(i), SizesAt(Depth))
  BY <1>1 DEF Nested
<1> QED BY <1>2, <1>3, <1>4 DEF Within

LEMMA WholeOrPartly ==
    ASSUME NEW n, n = Depth PROVE Whole(n) \/ PartlyInstalled
BY DEF Whole, Partly, PartlyInstalled

LEMMA Pairs == \A x, y : <<x, y>>[1] = x /\ <<x, y>>[2] = y
OBVIOUS

LEMMA StackStays ==
    ASSUME TypeOK, stack' = stack PROVE ~(Depth' < Depth)
<1>1. Depth' = Depth /\ Depth \in Nat
  BY StackTyped DEF Depth
<1> QED BY <1>1

LEMMA NothingCleaned ==
    ASSUME Shaped, handlers' = handlers PROVE CleanedOnce
<1>1. \A k \in 1..Len(handlers) : handlers[k].cleaned \in Nat
  BY HandlersTyped DEF Shaped, Instances
<1>2. Len(handlers) \in Nat
  BY LensTyped DEF Shaped
<1> QED BY <1>1, <1>2 DEF CleanedOnce

LEMMA NoHandlerStep ==
    ASSUME Shaped, NEW o \in Ops, NoHandler(o) PROVE StepGood
<1>1. PICK n : n = Depth
  OBVIOUS
<1>2. /\ stack # <<>> /\ o \in May /\ Installed(EffectOf[o]) = {}
      /\ Raise(Signal(IF o \in entry THEN "boundary" ELSE "nohandler", <<"", o>>))
  BY DEF NoHandler, Evaluating
<1>3. /\ stack' = stack /\ handlers' = handlers /\ signal'.about = <<"", o>>
      /\ signal'.kind \in {"boundary", "nohandler"}
  BY <1>2, SignalKinds DEF Raise
<1>4. Good'
  BY <1>2, RaisedGood
<1>5. ~(Depth' < Depth)
  BY <1>3, StackStays DEF Shaped
<1>6. CleanedOnce /\ FirstFailure
  <2>1. CleanedOnce
    BY <1>3, NothingCleaned
  <2>2. FirstFailure
    BY <1>5 DEF FirstFailure
  <2> QED BY <2>1, <2>2
<1>7. AtTheBoundary(o) \/ PartlyInstalled
  <2>1. CASE Whole(n)
    <3>1. n \in Nat /\ n > 0
      BY <1>1, <1>2, StackTyped DEF Shaped
    <3>2. Whole(n - 1)
      BY <3>1, <2>1, WholeDown
    <3>3. Covered(o, Boundary, 0, Len(handlers))
      BY <3>2, <1>1, <1>2, TopAnswered DEF Shaped
    <3>4. ~Discharged(o, 0, Len(handlers))
      <4>1. \A k \in 0 + 1..Len(handlers) : k \in 1..Len(handlers)
        OBVIOUS
      <4>2. \A k \in 1..Len(handlers) : Implements[handlers[k].handler] # EffectOf[o]
        BY <1>2 DEF Installed
      <4> QED BY <4>1, <4>2 DEF Discharged
    <3> QED BY <3>3, <3>4 DEF Covered, Boundary
  <2>2. Whole(n) \/ PartlyInstalled
    BY <1>1, WholeOrPartly
  <2> QED BY <2>1, <2>2
<1>8. signal'.about[2] = o
  <2>1. PICK about : about = signal'.about
    OBVIOUS
  <2>2. about = <<"", o>>
    BY <2>1, <1>3
  <2>3. about[2] = o
    BY <2>2
  <2> QED BY <2>1, <2>3
<1>9. RowKept /\ EffectAnswered
  <2>1. RowKept
    BY <1>3 DEF RowKept
  <2>2. AtTheBoundary(signal'.about[2]) \/ PartlyInstalled
    BY <1>7, <1>8 DEF AtTheBoundary
  <2>3. EffectAnswered
    BY <2>2 DEF EffectAnswered
  <2> QED BY <2>1, <2>3
<1> QED BY <1>4, <1>6, <1>9 DEF StepGood

\* What is performed where every row that is asked covers it, or has its
\* handler installed further in, breaks no row.
LEMMA NoRowBroken ==
    ASSUME TypeOK, Balanced, Good, stack # <<>>, NEW o \in May, NEW by \in Nat,
           \A k \in 1..Len(handlers) : Implements[handlers[k].handler] = EffectOf[o] => k <= by,
           ~HoldToRow(o, by)
    PROVE  PartlyInstalled
<1>1. PICK n : n = Depth
  OBVIOUS
<1>2. inContract = 0 /\ BreaksRow(o, by)
  BY LensTyped DEF HoldToRow
<1>3. n \in Nat /\ n > 0 /\ Top = stack[n]
  BY <1>1, StackTyped DEF Top
<1>4. NoClause(n - 1) /\ May = Top.may
  <2>1. NoClause(n)
    BY <1>1, <1>2, OutsideClauses DEF Good
  <2> QED BY <2>1, <1>3, WholeDown, MayTyped
<1>5. PICK j \in 1..Len(rows) :
        /\ \A k \in j..Len(rows) : rows[k].handled >= by
        /\ \A k \in j + 1..Len(rows) : rows[k].handler # 0 => rows[j].handled < rows[k].handler
        /\ ~Kept(rows[j], o)
  BY <1>2 DEF BreaksRow
<1>6. Asked(j, Len(rows)) /\ o \notin rows[j].promise
  BY <1>5 DEF Asked, Kept
<1>7. rows[j].handled >= by /\ rows[j].handled \in Nat /\ Len(handlers) \in Nat
  BY <1>5, RowsTyped, LensTyped DEF RowRecords
<1>8. CASE Whole(n)
  <2>1. Whole(n - 1)
    BY <1>3, <1>8, WholeDown
  <2>2. Covered(o, rows[j].promise, rows[j].handled, Len(handlers))
    BY <2>1, <1>1, <1>4, <1>6, TopKept
  <2>3. PICK k \in rows[j].handled + 1..Len(handlers) :
            Implements[handlers[k].handler] = EffectOf[o]
    BY <2>2, <1>6 DEF Covered, Discharged
  <2>4. k \in 1..Len(handlers) /\ ~(k <= by) /\ k \in Nat
    BY <2>3, <1>7
  <2> QED BY <2>3, <2>4
<1> QED BY <1>1, <1>8, WholeOrPartly

LEMMA RowNotKeptStep ==
    ASSUME Shaped, NEW o \in Ops, RowNotKept(o) PROVE StepGood
<1>1. /\ stack # <<>> /\ o \in May /\ Raise(Signal("row", <<"", o>>))
      /\ \/ o \in HostOps /\ ~HoldToRow(o, 0)
         \/ \E i \in Installed(EffectOf[o]) : Innermost(i, EffectOf[o]) /\ ~HoldToRow(o, i)
  BY DEF RowNotKept, Evaluating
<1>2. /\ stack' = stack /\ handlers' = handlers /\ signal'.kind = "row"
  BY <1>1, SignalKinds DEF Raise
<1>3. Good'
  BY <1>1, RaisedGood
<1>4. CleanedOnce /\ FirstFailure
  <2>1. Depth' = Depth /\ Depth \in Nat
    BY <1>2, StackTyped DEF Depth, Shaped
  <2> QED BY <2>1, <1>2, NothingCleaned DEF FirstFailure
<1>5. PartlyInstalled
  <2>1. CASE o \in HostOps /\ ~HoldToRow(o, 0)
    <3>1. \A k \in 1..Len(handlers) : Implements[handlers[k].handler] # EffectOf[o]
      BY <2>1, HandlersTyped, ProgramAssumption DEF Shaped
    <3> QED BY <3>1, <2>1, <1>1, NoRowBroken DEF Shaped
  <2>2. ASSUME NEW i \in Installed(EffectOf[o]), Innermost(i, EffectOf[o]), ~HoldToRow(o, i)
        PROVE  PartlyInstalled
    <3>1. i \in Nat
      BY <2>2 DEF Installed
    <3>2. \A k \in 1..Len(handlers) : Implements[handlers[k].handler] = EffectOf[o] => k <= i
      BY <2>2 DEF Innermost, Installed
    <3> QED BY <3>1, <3>2, <2>2, <1>1, NoRowBroken DEF Shaped
  <2> QED BY <2>1, <2>2, <1>1
<1> QED BY <1>2, <1>3, <1>4, <1>5 DEF StepGood, RowKept, EffectAnswered

-----------------------------------------------------------------------------
(* Activations that begin *)

\* A step that pushes an activation and leaves the rest under it.
LEMMA PushStep ==
    ASSUME Shaped, stack # <<>>, NEW a \in Activations, stack' = Append(stack, a), a.at = Sizes,
           entry' = entry, SameUpTo(Sizes), handlers' = handlers,
           Lawful(a), a.kind # "with" \/ (a.phase = "install" /\ a.base = Len(handlers)
                                          /\ a.cursor = Len(handlers)
                                          /\ \A h \in ToSet(a.todo) : \A o \in HandlerRow(h) :
                                                o \in a.may
                                                \/ \E g \in ToSet(a.todo) : Implements[g] = EffectOf[o]),
           a.kind \in {"test", "closure"} => a.handler = 0,
           InHandlerCode(a) =>
               /\ a.handler \in 1..Len(handlers)
               /\ Len(insideHandler') > 0 /\ insideHandler'[Len(insideHandler')] = a.handler
               /\ handlers[a.handler].handler = a.name[1]
    PROVE  StepGood
<1>1. PICK n : n = Depth + 1
  OBVIOUS
<1>2. /\ n \in Nat /\ n > 0 /\ Depth = n - 1 /\ Depth' = n /\ stack'[n] = a
      /\ Same(n - 1) /\ SizesAt(n)' = Sizes'
      /\ Whole(n - 1)' = Whole(n - 1) /\ NoClause(n - 1)' = NoClause(n - 1)
  BY <1>1, PushShape
<1>3. NewTop(a, n)
  BY <1>1, <1>2 DEF NewTop
<1>4. AnsweredLevel(n)' /\ KeptLevel(n)'
  BY <1>3, NewAnswered, NewKept DEF Shaped
<1>5. /\ SizesAt(n)'.handlers = Len(handlers) /\ a.at.handlers = Len(handlers)
      /\ SizesAt(n)'.inside = Len(insideHandler') /\ Len(handlers) \in Nat
  BY <1>2, LensTyped DEF Sizes, Shaped
<1>6. OwnLevel(n)'
  BY <1>2, <1>5 DEF OwnLevel
<1>7. a.kind = "with" => a.base + 1..SizesAt(n)'.handlers = {}
  BY <1>5
<1>8. CleanLevel(n)'
  BY <1>2, <1>5, <1>7 DEF CleanLevel
<1>9. PaidLevel(n)'
  <2> SUFFICES ASSUME a.kind = "with",
                      NEW h \in Installing(a, SizesAt(n).handlers)', NEW o \in HandlerRow(h)
               PROVE  o \in a.may \/ \E g \in Installing(a, SizesAt(n).handlers)' :
                                         Implements[g] = EffectOf[o]
    BY <1>2 DEF PaidLevel
  <2>1. Installing(a, SizesAt(n).handlers)' = ToSet(a.todo)
    BY <1>7 DEF Installing
  <2> QED BY <2>1
<1>10. Good'
  BY <1>1, <1>4, <1>6, <1>8, <1>9, PushesGood DEF Level
<1>11. stack' # stack /\ ~(Depth' < Depth)
  BY <1>2, StackTyped DEF Depth, Shaped
<1> QED BY <1>10, <1>11, Otherwise

\* What code of the innermost activation begins inherits from it.
LEMMA InheritsOwn ==
    ASSUME Shaped, stack # <<>>, NEW a, a.handler = Top.handler, a.name = Top.name,
           insideHandler' = insideHandler
    PROVE  a.handler # 0 =>
               /\ a.handler \in 1..Len(handlers)
               /\ Len(insideHandler') > 0 /\ insideHandler'[Len(insideHandler')] = a.handler
               /\ handlers[a.handler].handler = a.name[1]
<1>1. Top.kind \in Kinds
  BY StackTyped DEF Shaped, Activations, Kinds
<1>2. a.handler # 0 => InHandlerCode(Top)
  BY <1>1, TopOwn DEF InHandlerCode, Kinds, Shaped
<1> QED BY <1>2, TopOwn DEF Shaped

LEMMA EnterCallStep ==
    ASSUME Shaped, stack # <<>>, NEW name \in Names, NEW promise \in Rows, NEW handler \in Nat,
           NEW may \in Rows, may \subseteq promise, EnterCall(name, promise, handler, may),
           \/ handler = 0 /\ may \subseteq May
           \/ /\ handler \in 1..Len(handlers) /\ name[1] = handlers[handler].handler
              /\ may \subseteq HandlerRow(handlers[handler].handler)
    PROVE  StepGood
<1> DEFINE deep == frames + 1 > MaxDepth
           fresh == Activation("call", name, IF deep THEN "enter" ELSE "where", may)
           a == [fresh EXCEPT !.handler = handler]
           r == [handled |-> Len(handlers), handler |-> handler, promise |-> promise]
<1>1. fresh \in Activations /\ fresh.kind = "call" /\ fresh.name = name
      /\ fresh.at = Sizes /\ fresh.may = may
  <2>1. fresh.may = may
    BY DEF Activation
  <2> QED BY <2>1, ActivationTyped DEF Kinds, Phases, Shaped
<1>2. /\ a \in Activations /\ a.kind = "call" /\ a.handler = handler /\ a.at = Sizes
      /\ a.name = name /\ a.may = may
  <2> HIDE DEF fresh, deep
  <2> QED BY <1>1 DEF Activations
<1>3. /\ stack' = Append(stack, a) /\ rows' = Append(rows, r)
      /\ insideHandler' = IF handler # 0 THEN Append(insideHandler, handler) ELSE insideHandler
      /\ handlers' = handlers /\ entry' = entry
  BY DEF EnterCall
<1>4. r \in RowRecords /\ r.handled = Len(handlers) /\ r.handler = handler /\ r.promise = promise
  BY LensTyped DEF RowRecords, Shaped
<1> HIDE DEF fresh, a, r, deep
<1>5. Lawful(a)
  BY <1>2, <1>3, <1>4 DEF Lawful
<1>6. SameUpTo(Sizes)
  <2>1. \A k \in 1..Len(rows) : rows'[k] = rows[k]
    BY <1>3, <1>4, RowsTyped, AppendFacts DEF Shaped
  <2>2. \A k \in 1..Len(insideHandler) : insideHandler'[k] = insideHandler[k]
    <3>1. insideHandler \in Seq(Nat)
      BY DEF Shaped, TypeOK
    <3>2. \A k \in 1..Len(insideHandler) : Append(insideHandler, handler)[k] = insideHandler[k]
      BY <3>1, AppendFacts
    <3> QED BY <1>3, <3>2
  <2> QED BY <2>1, <2>2, <1>3 DEF SameUpTo, Sizes
<1>7. InHandlerCode(a) =>
          /\ a.handler \in 1..Len(handlers)
          /\ Len(insideHandler') > 0 /\ insideHandler'[Len(insideHandler')] = a.handler
          /\ handlers[a.handler].handler = a.name[1]
  <2> SUFFICES ASSUME handler # 0
               PROVE  Len(insideHandler') > 0 /\ insideHandler'[Len(insideHandler')] = handler
    BY <1>2 DEF InHandlerCode
  <2>1. insideHandler \in Seq(Nat)
    BY DEF Shaped, TypeOK
  <2>2. /\ Len(Append(insideHandler, handler)) = Len(insideHandler) + 1
        /\ Append(insideHandler, handler)[Len(insideHandler) + 1] = handler
        /\ Len(insideHandler) \in Nat
    BY <2>1, AppendFacts
  <2> QED BY <1>3, <2>2
<1> QED BY <1>2, <1>3, <1>5, <1>6, <1>7, PushStep

LEMMA CallStep ==
    ASSUME Shaped, NEW f \in Functions, NEW lent, Call(f, lent) PROVE StepGood
<1>1. stack # <<>> /\ May \in Rows
  BY MayTyped DEF Call, Evaluating, Shaped
<1>2. Uses[f] \cup lent \in Rows /\ PromiseOf(f) \in Rows /\ Uses[f] \cup lent \subseteq May
      /\ Uses[f] \cup lent \subseteq PromiseOf(f)
  BY <1>1, ProgramAssumption DEF Call, PromiseOf, Anything, Rows
<1>3. Fn(f) \in Names /\ 0 \in Nat
  BY DEF Names
<1>4. EnterCall(Fn(f), PromiseOf(f), 0, Uses[f] \cup lent)
  BY DEF Call
<1> QED BY <1>1, <1>2, <1>3, <1>4, EnterCallStep

LEMMA DispatchStep ==
    ASSUME Shaped, NEW o \in Ops, NEW i \in 1..Len(handlers), Dispatch(o, i) PROVE StepGood
<1> DEFINE h == handlers[i].handler
<1>1. h \in Handlers /\ stack # <<>>
  BY HandlersTyped DEF Dispatch, Evaluating, Shaped
<1>2. EffectOf[o] = Implements[h]
  BY DEF Dispatch, Innermost, Installed
<1>3. EnterCall(<<h, o>>, OpUses[<<h, o>>], i, OpUses[<<h, o>>])
  BY DEF Dispatch
<1> HIDE DEF h
<1>4. <<h, o>> \in Operations
  BY <1>1, <1>2 DEF Operations
<1>5. <<h, o>> \in Names /\ OpUses[<<h, o>>] \in Rows /\ i \in Nat /\ <<h, o>>[1] = h
  BY <1>4, LensTyped, ProgramAssumption DEF Names, Shaped
<1>6. OpUses[<<h, o>>] \subseteq HandlerRow(h)
  BY <1>4 DEF HandlerRow
<1>7. i \in 1..Len(handlers) /\ <<h, o>>[1] = handlers[i].handler
      /\ OpUses[<<h, o>>] \subseteq HandlerRow(handlers[i].handler)
  BY <1>5, <1>6 DEF h
<1> QED BY <1>1, <1>3, <1>5, <1>7, EnterCallStep

LEMMA RunClosureStep ==
    ASSUME Shaped, NEW home \in Functions, NEW row \in Rows, RunClosure(home, row)
    PROVE  StepGood
<1> DEFINE a == Activation("closure", Fn(home), "body", row)
<1>1. a \in Activations /\ a.kind = "closure" /\ a.at = Sizes /\ a.may = row /\ a.handler = 0
  <2>1. a.may = row /\ a.handler = 0
    BY DEF Activation
  <2>2. Fn(home) \in Names
    BY DEF Names
  <2> HIDE DEF a
  <2>3. a \in Activations /\ a.kind = "closure" /\ a.at = Sizes
    BY <2>2, ActivationTyped DEF Kinds, Phases, Shaped, a
  <2> QED BY <2>1, <2>3
<1>2. /\ stack' = Append(stack, a) /\ row \subseteq May /\ stack # <<>>
      /\ rows' = rows /\ handlers' = handlers /\ insideHandler' = insideHandler /\ entry' = entry
  BY DEF RunClosure, Evaluating
<1> HIDE DEF a
<1>3. Lawful(a) /\ SameUpTo(Sizes)
  BY <1>1, <1>2, Unmoved DEF Lawful
<1>4. ~InHandlerCode(a)
  BY <1>1 DEF InHandlerCode
<1> QED BY <1>1, <1>2, <1>3, <1>4, PushStep

LEMMA EnterRefusesStep ==
    ASSUME Shaped, EnterRefuses PROVE StepGood
<1> DEFINE fresh == Activation("refuses", Top.name, "body", May)
           a == [fresh EXCEPT !.handler = Top.handler]
<1>1. stack # <<>> /\ Top \in Activations
  BY StackTyped DEF EnterRefuses, Evaluating, Shaped
<1>2. Top.name \in Names /\ Top.handler \in Nat /\ May \in Rows
  BY <1>1, MayTyped DEF Activations, Shaped
<1>3. fresh \in Activations /\ fresh.kind = "refuses" /\ fresh.at = Sizes /\ fresh.may = May
      /\ fresh.name = Top.name
  <2>1. fresh.may = May
    BY DEF Activation
  <2> QED BY <2>1, <1>2, ActivationTyped DEF Kinds, Phases, Shaped
<1>4. stack' = Append(stack, a) /\ rows' = rows /\ handlers' = handlers
      /\ insideHandler' = insideHandler /\ entry' = entry
  BY DEF EnterRefuses
<1> HIDE DEF fresh
<1>5. a \in Activations /\ a.kind = "refuses" /\ a.at = Sizes /\ a.may = May
      /\ a.handler = Top.handler /\ a.name = Top.name
  BY <1>2, <1>3 DEF Activations
<1> HIDE DEF a
<1>6. Lawful(a) /\ SameUpTo(Sizes)
  BY <1>4, <1>5, Unmoved DEF Lawful
<1>7. InHandlerCode(a) =>
          /\ a.handler \in 1..Len(handlers)
          /\ Len(insideHandler') > 0 /\ insideHandler'[Len(insideHandler')] = a.handler
          /\ handlers[a.handler].handler = a.name[1]
  BY <1>1, <1>4, <1>5, InheritsOwn DEF InHandlerCode
<1> QED BY <1>1, <1>4, <1>5, <1>6, <1>7, PushStep

LEMMA EnterWithStep ==
    ASSUME Shaped, NEW list \in Lists, EnterWith(list) PROVE StepGood
<1> DEFINE fresh == Activation("with", Top.name, "install", May)
           a == [fresh EXCEPT !.todo = list, !.handler = Top.handler,
                              !.cursor = Len(handlers)]
<1>1. stack # <<>> /\ Top \in Activations
  BY StackTyped DEF EnterWith, Evaluating, Shaped
<1>2. /\ Top.name \in Names /\ Top.handler \in Nat /\ May \in Rows
      /\ list \in Seq(Handlers) /\ Len(handlers) \in Nat
  BY <1>1, MayTyped, ProgramAssumption, LensTyped DEF Activations, Shaped
<1>3. fresh \in Activations /\ fresh.kind = "with" /\ fresh.phase = "install"
      /\ fresh.at = Sizes /\ fresh.base = Len(handlers) /\ fresh.may = May
      /\ fresh.name = Top.name
  <2>1. fresh.may = May
    BY DEF Activation
  <2> QED BY <2>1, <1>2, ActivationTyped DEF Kinds, Phases, Shaped
<1>4. stack' = Append(stack, a) /\ rows' = rows /\ handlers' = handlers
      /\ insideHandler' = insideHandler /\ entry' = entry
      /\ UNION {HandlerRow(h) : h \in ToSet(list)} \subseteq May \cup Handled(list)
  BY DEF EnterWith
<1> HIDE DEF fresh
<1>5. a \in Activations /\ a.kind = "with" /\ a.phase = "install" /\ a.at = Sizes
      /\ a.base = Len(handlers) /\ a.todo = list /\ a.may = May /\ a.cursor = Len(handlers)
      /\ a.handler = Top.handler /\ a.name = Top.name
  BY <1>2, <1>3 DEF Activations
<1> HIDE DEF a
<1>6. Lawful(a) /\ SameUpTo(Sizes)
  BY <1>4, <1>5, Unmoved DEF Lawful
<1>7. InHandlerCode(a) =>
          /\ a.handler \in 1..Len(handlers)
          /\ Len(insideHandler') > 0 /\ insideHandler'[Len(insideHandler')] = a.handler
          /\ handlers[a.handler].handler = a.name[1]
  BY <1>1, <1>4, <1>5, InheritsOwn DEF InHandlerCode
<1>8. \A h \in ToSet(a.todo) : \A o \in HandlerRow(h) :
          o \in a.may \/ \E g \in ToSet(a.todo) : Implements[g] = EffectOf[o]
  <2>1. ASSUME NEW h \in ToSet(list), NEW o \in HandlerRow(h)
        PROVE  o \in May \/ \E g \in ToSet(list) : Implements[g] = EffectOf[o]
    <3>1. o \in May \cup Handled(list)
      BY <1>4
    <3> QED BY <3>1 DEF Handled
  <2> QED BY <2>1, <1>5
<1> QED BY <1>1, <1>4, <1>5, <1>6, <1>7, <1>8, PushStep

-----------------------------------------------------------------------------
(* Activations that move on *)

\* A level whose activation goes on as the same code, with as much below it.
LEMMA LevelTouched ==
    ASSUME TypeOK, Balanced, Nested, NEW n \in 1..Depth, Level(n), NEW b, stack'[n] = b,
           b.kind = stack[n].kind, b.name = stack[n].name, b.handler = stack[n].handler,
           b.at = stack[n].at, b.may = stack[n].may, Partly(stack[n]) => Partly(b),
           SizesAt(n)'.rows = SizesAt(n).rows, SizesAt(n)'.inside = SizesAt(n).inside,
           SizesAt(n)'.handlers = SizesAt(n).handlers, entry' = entry,
           \A k \in 1..SizesAt(n).rows : rows'[k] = rows[k],
           \A k \in 1..SizesAt(n).inside : insideHandler'[k] = insideHandler[k],
           \A k \in 1..SizesAt(n).handlers : handlers'[k].handler = handlers[k].handler,
           Whole(n - 1)' = Whole(n - 1), NoClause(n - 1)' = NoClause(n - 1)
    PROVE  OwnLevel(n)' /\ AnsweredLevel(n)' /\ KeptLevel(n)'
<1>1. PICK e, w, s : e = SizesAt(n).handlers /\ w = SizesAt(n).rows /\ s = SizesAt(n).inside
  OBVIOUS
<1>2. /\ n \in Nat /\ n > 0 /\ e \in Nat /\ w \in Nat /\ s \in Nat
      /\ stack[n].at.handlers \in Nat /\ stack[n].at.handlers <= e
  BY <1>1, SizesAtTyped, LevelFacts DEF SizeRecords
<1>3. /\ SizesAt(n)'.handlers = e /\ SizesAt(n)'.rows = w /\ SizesAt(n)'.inside = s
      /\ \A k \in 1..e : handlers'[k].handler = handlers[k].handler
      /\ \A k \in 1..w : rows'[k] = rows[k]
      /\ \A k \in 1..s : insideHandler'[k] = insideHandler[k]
      /\ \A j \in 1..w : rows[j].handled \in Nat
  BY <1>1, NestedFacts
<1>4. \A o, promise : \A mark \in Nat :
          Covered(o, promise, mark, e)' = Covered(o, promise, mark, e)
  BY <1>2, <1>3, DischargedSame
<1>5. \A j \in 1..w : Asked(j, w)' = Asked(j, w)
  BY <1>2, <1>3, AskedSame
<1>6. Whole(n)' => Whole(n)
  <2>1. Whole(n)' => Whole(n - 1)' /\ ~Partly(b)
    BY <1>2 DEF Whole, Partly
  <2> QED BY <2>1, <1>2, WholeDown
<1>7. OwnLevel(n)'
  <2>1. OwnLevel(n)
    BY DEF Level
  <2>2. InHandlerCode(b) <=> InHandlerCode(stack[n])
    BY DEF InHandlerCode
  <2>3. InHandlerCode(b) => b.handler \in 1..e
    BY <2>1, <2>2, <1>2 DEF OwnLevel
  <2>4. InHandlerCode(b) => s > 0 /\ s \in 1..s
    BY <2>1, <2>2, <1>1, <1>2 DEF OwnLevel
  <2> QED BY <2>1, <2>2, <2>3, <2>4, <1>1, <1>3 DEF OwnLevel
<1>8. AnsweredLevel(n)'
  <2>1. AnsweredLevel(n)
    BY DEF Level
  <2>2. Boundary' = Boundary
    BY DEF Boundary, AtTheBoundary
  <2>3. \A o : Covered(o, Boundary, 0, e)' = Covered(o, Boundary, 0, e)
    BY <1>4, <2>2 DEF Covered
  <2> QED BY <2>1, <2>3, <1>1, <1>3, <1>6 DEF AnsweredLevel
<1>9. KeptLevel(n)'
  <2>1. KeptLevel(n)
    BY DEF Level
  <2>5. \A j \in 1..w : rows'[j].handled <= e
    BY <2>1, <1>1, <1>3 DEF KeptLevel
  <2> SUFFICES ASSUME NEW j \in 1..w, Asked(j, w), NoClause(n - 1)
               PROVE  /\ Whole(n - 1) => \A o \in b.may :
                             Covered(o, rows[j].promise, rows[j].handled, e)'
                      /\ Whole(n) => \A k \in rows[j].handled + 1..e :
                             \A o \in HandlerRow(handlers'[k].handler) :
                                 Covered(o, rows[j].promise, rows[j].handled, e)'
    BY <2>5, <1>3, <1>5, <1>6 DEF KeptLevel
  <2>2. \A k \in rows[j].handled + 1..e : k \in 1..e
    BY <1>2, <1>3
  <2>3. \A o : Covered(o, rows[j].promise, rows[j].handled, e)'
                  = Covered(o, rows[j].promise, rows[j].handled, e)
    BY <1>3, <1>4 DEF Covered
  <2>4. rows'[j] = rows[j]
    BY <1>3
  <2> QED BY <2>1, <2>2, <2>3, <2>4, <1>1, <1>3 DEF KeptLevel
<1> QED BY <1>7, <1>8, <1>9

\* A call moves on to another of its phases.
LEMMA PhaseStep ==
    ASSUME Shaped, stack # <<>>, NEW phase \in Phases, Top.kind = "call",
           stack' = [stack EXCEPT ![Depth].phase = phase],
           rows' = rows, handlers' = handlers, insideHandler' = insideHandler, entry' = entry,
           signal' = None
    PROVE  StepGood
<1> DEFINE b == [Top EXCEPT !.phase = phase]
<1>1. Top \in Activations /\ stack' = [stack EXCEPT ![Depth] = b]
  BY StackTyped DEF Top, Shaped
<1>2. /\ b.kind = Top.kind /\ b.name = Top.name /\ b.handler = Top.handler
      /\ b.at = Top.at /\ b.may = Top.may
  BY <1>1 DEF Activations
<1> HIDE DEF b
<1>3. PICK n : n = Depth
  OBVIOUS
<1>4. SameUpTo(Top.at)
  BY Unmoved
<1>5. /\ n \in Nat /\ n > 0 /\ Depth' = n /\ stack'[n] = b /\ stack[n] = Top
      /\ SizesAt(n)' = Sizes' /\ SizesAt(n) = Sizes
      /\ Whole(n - 1)' = Whole(n - 1) /\ NoClause(n - 1)' = NoClause(n - 1)
  BY <1>1, <1>2, <1>3, <1>4, MoveShape
<1>6. Level(n) /\ n \in 1..Depth /\ ~Partly(Top)
  BY <1>3, TopLevel DEF Shaped, Partly
<1>7. /\ SizesAt(n)'.rows = SizesAt(n).rows /\ SizesAt(n)'.inside = SizesAt(n).inside
      /\ SizesAt(n)'.handlers = SizesAt(n).handlers
  BY <1>5 DEF Sizes
<1>8. OwnLevel(n)' /\ AnsweredLevel(n)' /\ KeptLevel(n)'
  BY <1>2, <1>5, <1>6, <1>7, LevelTouched DEF Shaped, Good
<1>9. CleanLevel(n)' /\ PaidLevel(n)'
  BY <1>2, <1>5 DEF CleanLevel, PaidLevel
<1>10. Good'
  BY <1>1, <1>2, <1>3, <1>4, <1>8, <1>9, MovesGood DEF Level
<1> QED BY <1>3, <1>5, <1>10, Otherwise, SignalKinds

LEMMA PhasesStep ==
    ASSUME Shaped, RequiresHold \/ Captured \/ (stack # <<>> /\ Top.kind = "call" /\ CheckEnsures)
    PROVE  StepGood
<1>1. CASE RequiresHold
  <2>1. PICK phase : phase = IF Captures(Top) THEN "old" ELSE "body"
    OBVIOUS
  <2>2. /\ stack # <<>> /\ Top.kind = "call" /\ phase \in Phases
        /\ stack' = [stack EXCEPT ![Depth].phase = phase]
        /\ rows' = rows /\ handlers' = handlers /\ insideHandler' = insideHandler
        /\ entry' = entry /\ signal' = None
    BY <1>1, <2>1 DEF RequiresHold, Evaluating, Phases
  <2> QED BY <2>2, PhaseStep
<1>2. CASE Captured
  <2>1. /\ stack # <<>> /\ Top.kind = "call" /\ "body" \in Phases
        /\ stack' = [stack EXCEPT ![Depth].phase = "body"]
        /\ rows' = rows /\ handlers' = handlers /\ insideHandler' = insideHandler
        /\ entry' = entry /\ signal' = None
    BY <1>2 DEF Captured, Evaluating, Phases
  <2> QED BY <2>1, PhaseStep
<1>3. CASE stack # <<>> /\ Top.kind = "call" /\ CheckEnsures
  <2>1. /\ stack # <<>> /\ Top.kind = "call" /\ "ensures" \in Phases
        /\ stack' = [stack EXCEPT ![Depth].phase = "ensures"]
        /\ rows' = rows /\ handlers' = handlers /\ insideHandler' = insideHandler
        /\ entry' = entry /\ signal' = None
    BY <1>3 DEF CheckEnsures, Phases
  <2> QED BY <2>1, PhaseStep
<1> QED BY <1>1, <1>2, <1>3

-----------------------------------------------------------------------------
(* Activations that are over *)

\* What is left of a sequence that is as long as it was to be.
LEMMA FrontSame ==
    ASSUME NEW S, NEW s \in Seq(S), NEW n \in Nat, Len(s) = n + 1
    PROVE  \A k \in 1..n : Front(s)[k] = s[k]
<1>1. s # <<>>
  OBVIOUS
<1>2. n = Len(s) - 1
  OBVIOUS
<1> QED BY <1>1, <1>2, FrontFacts

\* An activation that is not a `with` goes, and its row and its handler's name
\* with it.
LEMMA PopStep ==
    ASSUME Shaped, stack # <<>>, stack' = Front(stack), Sizes' = Top.at, entry' = entry,
           handlers' = handlers, Top.kind # "with",
           rows' = rows \/ (rows' = Front(rows) /\ Len(rows) = Top.at.rows + 1),
           insideHandler' = insideHandler
           \/ (insideHandler' = Front(insideHandler) /\ Len(insideHandler) = Top.at.inside + 1)
    PROVE  StepGood
<1>1. Top.at.rows \in Nat /\ Top.at.inside \in Nat
  BY TopFacts DEF Shaped, SizeRecords
<1>2. \A k \in 1..Top.at.rows : rows'[k] = rows[k]
  <2>1. rows \in Seq(RowRecords)
    BY RowsTyped DEF Shaped
  <2> QED BY <2>1, <1>1, FrontSame
<1>3. \A k \in 1..Top.at.inside : insideHandler'[k] = insideHandler[k]
  <2>1. insideHandler \in Seq(Nat)
    BY DEF Shaped, TypeOK
  <2> QED BY <2>1, <1>1, FrontSame
<1>4. SameUpTo(Top.at)
  BY <1>2, <1>3 DEF SameUpTo
<1>5. Good'
  BY <1>4, PopsGood
<1>6. stack' # stack
  BY FrontFacts, StackTyped DEF Shaped
<1> QED BY <1>5, <1>6, Otherwise

LEMMA LeaveCallStep ==
    ASSUME Shaped, stack # <<>>, Top.kind = "call", NEW result \in Signals, LeaveCall(result)
    PROVE  StepGood
<1>1. /\ stack' = Front(stack) /\ rows' = Front(rows) /\ handlers' = handlers /\ entry' = entry
      /\ insideHandler' = (IF Top.handler # 0 THEN Front(insideHandler) ELSE insideHandler)
  BY DEF LeaveCall, PopCall
<1>2. /\ Len(rows) = Top.at.rows + 1
      /\ Top.handler # 0 => Len(insideHandler) = Top.at.inside + 1
  BY TopFacts DEF One, Shaped
<1>3. Sizes' = Top.at
  <2>1. StepOK
    BY LeaveCallOK DEF Shaped
  <2>2. Depth' < Depth
    <3>1. Len(stack') = Depth - 1 /\ Depth \in Nat /\ Depth > 0
      BY <1>1, FrontFacts, StackTyped DEF Shaped
    <3> QED BY <3>1 DEF Depth
  <2> QED BY <2>1, <2>2 DEF StepOK
<1>4. rows' = rows \/ (rows' = Front(rows) /\ Len(rows) = Top.at.rows + 1)
  BY <1>1, <1>2
<1>5. insideHandler' = insideHandler
      \/ (insideHandler' = Front(insideHandler) /\ Len(insideHandler) = Top.at.inside + 1)
  BY <1>1, <1>2
<1>6. Top.kind # "with" /\ handlers' = handlers /\ stack' = Front(stack) /\ entry' = entry
  BY <1>1
<1> QED BY <1>3, <1>4, <1>5, <1>6, PopStep

LEMMA CallEndsStep ==
    ASSUME Shaped, BodyEnds \/ EnsuresHold \/ CallUnwinds
    PROVE  StepGood
<1>1. CASE BodyEnds
  BY <1>1, LeaveCallStep, PhasesStep, NoneTyped DEF BodyEnds
<1>2. CASE EnsuresHold
  BY <1>2, LeaveCallStep, NoneTyped DEF EnsuresHold, Evaluating
<1>3. CASE CallUnwinds
  <2>1. signal \in Signals
    BY DEF Shaped, TypeOK
  <2> QED BY <1>3, <2>1, LeaveCallStep DEF CallUnwinds
<1> QED BY <1>1, <1>2, <1>3

LEMMA PlainEndsStep ==
    ASSUME Shaped, ClosureEnds \/ RefusesEnds
    PROVE  StepGood
<1>1. /\ stack # <<>> /\ Top.kind # "with" /\ stack' = Front(stack) /\ entry' = entry
      /\ rows' = rows /\ insideHandler' = insideHandler /\ handlers' = handlers
  BY DEF ClosureEnds, RefusesEnds
<1>2. StepOK
  BY ClosureEndsOK, RefusesEndsOK DEF Shaped
<1>3. Depth' < Depth
  <2>1. Len(stack') = Depth - 1 /\ Depth \in Nat /\ Depth > 0
    BY <1>1, FrontFacts, StackTyped DEF Shaped
  <2> QED BY <2>1 DEF Depth
<1>4. Sizes' = Top.at
  BY <1>2, <1>3 DEF StepOK
<1>5. /\ rows' = rows \/ (rows' = Front(rows) /\ Len(rows) = Top.at.rows + 1)
      /\ insideHandler' = insideHandler
         \/ (insideHandler' = Front(insideHandler) /\ Len(insideHandler) = Top.at.inside + 1)
  BY <1>1
<1> QED BY <1>1, <1>4, <1>5, PopStep

LEMMA TestEndsStep ==
    ASSUME Shaped, TestEnds PROVE StepGood
<1>1. stack # <<>> /\ Top.kind = "test" /\ stack' = <<>> /\ handlers' = handlers
      /\ entry' = entry
  BY DEF TestEnds
<1>2. Depth' = 0 /\ \A i \in 1..Depth' : FALSE
  BY <1>1 DEF Depth
<1>3. Good'
  <2>1. Nested'
    BY <1>2 DEF Nested
  <2>2. Rooted' /\ Levels'
    BY <1>1, <1>2 DEF Rooted, Levels
  <2> QED BY <2>1, <2>2 DEF Good
<1> QED BY <1>1, <1>3, Otherwise

-----------------------------------------------------------------------------
(* `with` blocks *)

\* What the level of a `with` that is running knows.
LEMMA TopWith ==
    ASSUME TypeOK, Balanced, Good, stack # <<>>, Top.kind = "with", NEW n, n = Depth
    PROVE  /\ Top.base = Top.at.handlers /\ Top.base \in Nat /\ Top.cursor \in Nat
           /\ Top.base <= Len(handlers) /\ Len(handlers) \in Nat
           /\ Len(rows) = Top.at.rows /\ Len(insideHandler) = Top.at.inside
           /\ \A k \in Top.base + 1..Len(handlers) :
                  handlers[k].cleaned =
                      IF Top.phase = "finally" /\ k > Top.cursor /\ handlers[k].handler \in Cleaning
                      THEN 1 ELSE 0
           /\ Top.phase = "install" => Top.cursor = Len(handlers) /\ Top.todo # <<>>
           /\ Top.phase = "finally" =>
                  /\ Top.cursor \in Top.base..Len(handlers)
                  /\ Failed(Top.incoming) => Top.outcome = Top.incoming
           /\ Partly(Top) <=> Top.todo # <<>> /\ (Top.phase = "finally" \/ Top.cursor > Top.base)
<1>1. /\ n \in 1..Depth /\ Top = stack[n] /\ SizesAt(n) = Sizes
      /\ Sizes.handlers = Len(handlers) /\ Level(n) /\ Top \in Activations
  BY TopLevel
<1>2. CleanLevel(n)
  BY <1>1 DEF Level
<1>3. Top.base = Top.at.handlers /\ Len(handlers) >= Top.at.handlers /\ Top.base \in Nat
      /\ Len(rows) = Top.at.rows /\ Len(insideHandler) = Top.at.inside /\ Top.cursor \in Nat
  BY <1>1, WithTop DEF Activations
<1>4. WellFormed(Top)
  BY TopFacts
<1> QED BY <1>1, <1>2, <1>3, <1>4, LensTyped DEF CleanLevel, WellFormed, Partly

LEMMA LeaveWithStep ==
    ASSUME Shaped, LeaveWith PROVE StepGood
<1>1. /\ stack # <<>> /\ Top.kind = "with" /\ Top.phase = "finally" /\ Top.cursor = Top.base
      /\ handlers' = SubSeq(handlers, 1, Top.base) /\ stack' = Front(stack)
      /\ signal' = Top.outcome /\ rows' = rows /\ insideHandler' = insideHandler
      /\ entry' = entry
  BY DEF LeaveWith, CleaningUp
<1>2. PICK n : n = Depth
  OBVIOUS
<1>3. /\ Top.base = Top.at.handlers /\ Top.base \in Nat /\ Top.base <= Len(handlers)
      /\ Len(handlers) \in Nat
      /\ \A k \in Top.base + 1..Len(handlers) :
             handlers[k].cleaned = IF k > Top.cursor /\ handlers[k].handler \in Cleaning
                                   THEN 1 ELSE 0
      /\ Failed(Top.incoming) => Top.outcome = Top.incoming
  BY <1>1, <1>2, TopWith DEF Shaped
<1>4. Len(handlers') = Top.base /\ \A k \in 1..Top.base : handlers'[k] = handlers[k]
  <2>1. handlers \in Seq(Instances)
    BY HandlersTyped DEF Shaped
  <2>2. PICK base : base = Top.base
    OBVIOUS
  <2>3. base \in Nat /\ base <= Len(handlers) /\ handlers' = SubSeq(handlers, 1, base)
    BY <2>2, <1>1, <1>3
  <2>4. Len(SubSeq(handlers, 1, base)) = base
        /\ \A k \in 1..base : SubSeq(handlers, 1, base)[k] = handlers[k]
    BY <2>1, <2>3
  <2> QED BY <2>2, <2>3, <2>4
<1>5. Depth' < Depth
  <2>1. Len(stack') = Depth - 1 /\ Depth \in Nat /\ Depth > 0
    BY <1>1, FrontFacts, StackTyped DEF Shaped
  <2> QED BY <2>1 DEF Depth
<1>6. Good'
  <2>1. StepOK
    BY LeaveWithOK DEF Shaped
  <2>2. Sizes' = Top.at
    BY <2>1, <1>5 DEF StepOK
  <2>3. SameUpTo(Top.at)
    BY <1>1, <1>3, <1>4 DEF SameUpTo
  <2> QED BY <2>2, <2>3, <1>1, PopsGood
<1>7. CleanedOnce
  <2>1. \A i \in Len(handlers') + 1..Len(handlers) :
            handlers[i].cleaned = IF handlers[i].handler \in Cleaning THEN 1 ELSE 0
    BY <1>1, <1>3, <1>4
  <2>2. \A i \in 1..Len(handlers') : ~(handlers'[i].cleaned > handlers[i].cleaned)
    <3>1. \A k \in 1..Len(handlers) : handlers[k].cleaned \in Nat
      BY HandlersTyped DEF Shaped, Instances
    <3> QED BY <3>1, <1>3, <1>4
  <2> QED BY <2>1, <2>2 DEF CleanedOnce
<1>8. FirstFailure
  BY <1>1, <1>3 DEF FirstFailure
<1>9. RowKept /\ EffectAnswered
  <2>1. Depth \in Nat
    BY StackTyped DEF Shaped
  <2>2. stack' # stack
    BY <2>1, <1>5 DEF Depth
  <2> QED BY <2>2 DEF RowKept, EffectAnswered
<1> QED BY <1>6, <1>7, <1>8, <1>9 DEF StepGood

\* A `with` turns to its cleanup, or comes to the next handler of it, without
\* a cleanup of its own to run.
LEMMA CleanupMoves ==
    ASSUME Shaped, stack # <<>>, Top.kind = "with", NEW b,
           stack' = [stack EXCEPT ![Depth] = b],
           b.kind = "with", b.name = Top.name, b.handler = Top.handler, b.at = Top.at,
           b.may = Top.may, b.base = Top.base, b.todo = Top.todo, b.phase = "finally",
           b.cursor \in Top.base..Len(handlers),
           Failed(b.incoming) => b.outcome = b.incoming,
           \A k \in Top.base + 1..Len(handlers) :
               handlers[k].cleaned = IF k > b.cursor /\ handlers[k].handler \in Cleaning
                                     THEN 1 ELSE 0,
           rows' = rows, handlers' = handlers, insideHandler' = insideHandler, entry' = entry
    PROVE  Good'
<1>1. PICK n : n = Depth
  OBVIOUS
<1>2. SameUpTo(Top.at)
  BY Unmoved
<1>3. /\ n \in Nat /\ n > 0 /\ Depth' = n /\ stack'[n] = b /\ stack[n] = Top
      /\ SizesAt(n)' = Sizes' /\ SizesAt(n) = Sizes
      /\ Whole(n - 1)' = Whole(n - 1) /\ NoClause(n - 1)' = NoClause(n - 1)
  BY <1>1, <1>2, MoveShape, ZenonT(40)
<1>4. Level(n) /\ n \in 1..Depth
  BY <1>1, TopLevel DEF Shaped
<1>5. Partly(Top) => Partly(b)
  BY DEF Partly
<1>6. /\ SizesAt(n)'.rows = SizesAt(n).rows /\ SizesAt(n)'.inside = SizesAt(n).inside
      /\ SizesAt(n)'.handlers = SizesAt(n).handlers /\ SizesAt(n).handlers = Len(handlers)
  BY <1>3 DEF Sizes
<1>7. OwnLevel(n)' /\ AnsweredLevel(n)' /\ KeptLevel(n)'
  BY <1>3, <1>4, <1>5, <1>6, LevelTouched DEF Shaped, Good
<1>8. CleanLevel(n)' /\ PaidLevel(n)'
  BY <1>3, <1>6 DEF CleanLevel, PaidLevel
<1> QED BY <1>1, <1>2, <1>7, <1>8, MovesGood DEF Level

LEMMA StartCleanupStep ==
    ASSUME Shaped, StartCleanup PROVE StepGood
<1> DEFINE b == [Top EXCEPT !.phase = "finally", !.cursor = Len(handlers),
                            !.incoming = signal, !.outcome = signal]
<1>1. /\ stack # <<>> /\ Top.kind = "with" /\ Top \in Activations
      /\ Top.phase = "body" \/ Top.phase = "install"
      /\ stack' = [stack EXCEPT ![Depth] = b]
      /\ rows' = rows /\ handlers' = handlers /\ insideHandler' = insideHandler /\ entry' = entry
      /\ signal' = None
  BY StackTyped DEF StartCleanup, CleanUpFrom, Top, Shaped
<1>2. /\ b.kind = "with" /\ b.name = Top.name /\ b.handler = Top.handler /\ b.at = Top.at
      /\ b.may = Top.may /\ b.base = Top.base /\ b.todo = Top.todo /\ b.phase = "finally"
      /\ b.cursor = Len(handlers) /\ b.incoming = signal /\ b.outcome = signal
  BY <1>1 DEF Activations
<1> HIDE DEF b
<1>3. PICK n : n = Depth
  OBVIOUS
<1>4. /\ Top.base \in Nat /\ Top.base <= Len(handlers) /\ Len(handlers) \in Nat
      /\ \A k \in Top.base + 1..Len(handlers) : handlers[k].cleaned = 0
  BY <1>1, <1>3, TopWith DEF Shaped
<1>5. /\ b.cursor \in Top.base..Len(handlers)
      /\ \A k \in Top.base + 1..Len(handlers) :
             handlers[k].cleaned = IF k > b.cursor /\ handlers[k].handler \in Cleaning
                                   THEN 1 ELSE 0
  BY <1>2, <1>4
<1>6. Good'
  BY <1>1, <1>2, <1>5, CleanupMoves
<1>7. ~(Depth' < Depth)
  <2>1. Len(stack') = Len(stack) /\ Depth \in Nat
    BY <1>1, StackTyped DEF Shaped
  <2> QED BY <2>1 DEF Depth
<1> QED BY <1>1, <1>6, <1>7, Otherwise, SignalKinds

\* The handler a cleanup has come to is counted, and no other.
LEMMA CountedOnce ==
    ASSUME Shaped, NEW i \in 1..Len(handlers), handlers' = [handlers EXCEPT ![i].cleaned = @ + 1]
    PROVE  /\ Len(handlers') = Len(handlers)
           /\ \A k \in 1..Len(handlers) :
                  /\ handlers'[k].handler = handlers[k].handler
                  /\ handlers'[k].cleaned = IF k = i THEN handlers[k].cleaned + 1
                                                     ELSE handlers[k].cleaned
<1>1. /\ handlers \in Seq(Instances)
      /\ \A k \in 1..Len(handlers) : handlers[k] \in Instances
  BY HandlersTyped DEF Shaped
<1>2. PICK one : one = [handlers[i] EXCEPT !.cleaned = handlers[i].cleaned + 1]
  OBVIOUS
<1>3. one.handler = handlers[i].handler /\ one.cleaned = handlers[i].cleaned + 1
  BY <1>1, <1>2 DEF Instances
<1>4. handlers' = [handlers EXCEPT ![i] = one]
  BY <1>2
<1>5. /\ Len(handlers') = Len(handlers) /\ handlers'[i] = one
      /\ \A k \in 1..Len(handlers) : k # i => handlers'[k] = handlers[k]
  BY <1>1, <1>4
<1> QED BY <1>3, <1>5

\* A turn that runs no `finally` block.
LEMMA SkipStep ==
    ASSUME Shaped, CleaningUp, Top.cursor > Top.base,
           handlers[Top.cursor].handler \notin Cleaning,
           stack' = [stack EXCEPT ![Depth].cursor = Top.cursor - 1],
           rows' = rows, handlers' = handlers, insideHandler' = insideHandler, entry' = entry
    PROVE  StepGood
<1> DEFINE b == [Top EXCEPT !.cursor = Top.cursor - 1]
<1>1. /\ stack # <<>> /\ Top.kind = "with" /\ Top.phase = "finally" /\ Top \in Activations
      /\ stack' = [stack EXCEPT ![Depth] = b]
  BY StackTyped DEF CleaningUp, Top, Shaped
<1>2. /\ b.kind = "with" /\ b.name = Top.name /\ b.handler = Top.handler /\ b.at = Top.at
      /\ b.may = Top.may /\ b.base = Top.base /\ b.todo = Top.todo /\ b.phase = "finally"
      /\ b.cursor = Top.cursor - 1 /\ b.incoming = Top.incoming /\ b.outcome = Top.outcome
  BY <1>1 DEF Activations
<1> HIDE DEF b
<1>3. PICK n : n = Depth
  OBVIOUS
<1>4. /\ Top.base \in Nat /\ Top.cursor \in Top.base..Len(handlers) /\ Len(handlers) \in Nat
      /\ \A k \in Top.base + 1..Len(handlers) :
             handlers[k].cleaned = IF k > Top.cursor /\ handlers[k].handler \in Cleaning
                                   THEN 1 ELSE 0
      /\ Failed(Top.incoming) => Top.outcome = Top.incoming
  BY <1>1, <1>3, TopWith DEF Shaped
<1>5. /\ b.cursor \in Top.base..Len(handlers) /\ b.cursor # Top.cursor
      /\ \A k \in Top.base + 1..Len(handlers) : k > b.cursor => k > Top.cursor \/ k = Top.cursor
      /\ \A k \in Top.base + 1..Len(handlers) : k > Top.cursor => k > b.cursor
  BY <1>2, <1>4
<1>6. \A k \in Top.base + 1..Len(handlers) :
          handlers[k].cleaned = IF k > b.cursor /\ handlers[k].handler \in Cleaning
                                THEN 1 ELSE 0
  BY <1>4, <1>5
<1>7. Good'
  BY <1>1, <1>2, <1>4, <1>5, <1>6, CleanupMoves
<1>8. ~(Depth' < Depth) /\ stack' # stack
  <2>1. Len(stack') = Len(stack) /\ Depth \in Nat /\ stack'[Depth] = b
    BY <1>1, StackTyped DEF Shaped
  <2>2. b # Top
    BY <1>5
  <2> QED BY <2>1, <2>2 DEF Depth, Top
<1> QED BY <1>7, <1>8, Otherwise

\* What a turn that runs a `finally` block makes of the two innermost levels.
TurnMade(a, b, i) ==
    /\ stack # <<>> /\ Top.kind = "with" /\ Top.phase = "finally"
    /\ i = Top.cursor /\ i > Top.base /\ handlers[i].handler \in Cleaning
    /\ b.kind = "with" /\ b.name = Top.name /\ b.handler = Top.handler /\ b.at = Top.at
    /\ b.may = Top.may /\ b.base = Top.base /\ b.todo = Top.todo /\ b.phase = "finally"
    /\ b.cursor = i - 1 /\ b.incoming = Top.incoming /\ b.outcome = Top.outcome
    /\ a.kind = "finally" /\ a.at = Sizes /\ a.handler = i
    /\ a.name = Cleanup(handlers[i].handler) /\ a.may = FinallyUses[handlers[i].handler]
    /\ Len(stack') = Depth + 1 /\ stack'[Depth] = b /\ stack'[Depth + 1] = a
    /\ \A k \in 1..Depth - 1 : stack'[k] = stack[k]
    /\ handlers' = [handlers EXCEPT ![i].cleaned = @ + 1]
    /\ rows' = Append(rows, [handled |-> Len(handlers), handler |-> i, promise |-> Anything])
    /\ insideHandler' = Append(insideHandler, i) /\ entry' = entry

LEMMA TurnIsMade ==
    ASSUME Shaped, RunFinally, handlers[Top.cursor].handler \in Cleaning
    PROVE  \E a, b : TurnMade(a, b, Top.cursor)
<1> DEFINE i == Top.cursor
           h == handlers[i].handler
           b == [Top EXCEPT !.cursor = i - 1]
           moved == [stack EXCEPT ![Depth] = b]
           fresh == Activation("finally", Cleanup(h), "body", FinallyUses[h])
           a == [fresh EXCEPT !.handler = i]
<1>1. /\ stack # <<>> /\ Top.kind = "with" /\ Depth \in 1..Len(stack)
      /\ b \in Activations /\ i \in Nat
  BY TurnTyped DEF Shaped
<1>2. /\ Top.phase = "finally" /\ i > Top.base
      /\ stack' = Append(moved, a)
      /\ handlers' = [handlers EXCEPT ![i].cleaned = @ + 1]
      /\ rows' = Append(rows, [handled |-> Len(handlers), handler |-> i, promise |-> Anything])
      /\ insideHandler' = Append(insideHandler, i) /\ entry' = entry
  BY DEF RunFinally, CleaningUp, Top
<1>3. h \in Handlers /\ Cleanup(h) \in Names /\ FinallyUses[h] \in Rows
  <2> HIDE DEF h
  <2>1. h \in Cleaning
    BY DEF h
  <2> QED BY <2>1, ProgramAssumption DEF Names
<1>4. fresh \in Activations /\ fresh.kind = "finally" /\ fresh.at = Sizes
      /\ fresh.name = Cleanup(h) /\ fresh.may = FinallyUses[h]
  <2> HIDE DEF h
  <2>1. fresh.may = FinallyUses[h] /\ fresh.name = Cleanup(h)
    BY DEF Activation
  <2> HIDE DEF fresh
  <2>2. fresh \in Activations /\ fresh.kind = "finally" /\ fresh.at = Sizes
    BY <1>3, ActivationTyped DEF Kinds, Phases, Shaped, fresh
  <2> QED BY <2>1, <2>2
<1>5. a \in Activations /\ a.kind = "finally" /\ a.at = Sizes /\ a.handler = i
      /\ a.name = Cleanup(h) /\ a.may = FinallyUses[h]
  <2> HIDE DEF fresh, i, h
  <2> QED BY <1>1, <1>4 DEF Activations
<1>6. /\ b.kind = "with" /\ b.name = Top.name /\ b.handler = Top.handler /\ b.at = Top.at
      /\ b.may = Top.may /\ b.base = Top.base /\ b.todo = Top.todo /\ b.phase = "finally"
      /\ b.cursor = i - 1 /\ b.incoming = Top.incoming /\ b.outcome = Top.outcome
  <2>1. Top \in Activations
    BY <1>1, StackTyped DEF Shaped
  <2> HIDE DEF i
  <2> QED BY <2>1, <1>1, <1>2 DEF Activations
<1> HIDE DEF a, b, fresh
<1>7. /\ Len(stack') = Depth + 1 /\ stack'[Depth] = b /\ stack'[Depth + 1] = a
      /\ \A k \in 1..Depth - 1 : stack'[k] = stack[k]
  <2>1. moved \in Seq(Activations) /\ Len(moved) = Depth
        /\ moved[Depth] = b /\ \A k \in 1..Depth : k # Depth => moved[k] = stack[k]
    BY <1>1, StackTyped, ReplaceFacts DEF Shaped
  <2> HIDE DEF moved
  <2>2. Depth \in Nat /\ Depth \in 1..Depth /\ \A k \in 1..Depth - 1 : k \in 1..Depth /\ k # Depth
    BY <1>1, StackTyped DEF Shaped
  <2> QED BY <1>2, <1>5, <2>1, <2>2, AppendFacts
<1>8. TurnMade(a, b, i)
  <2> HIDE DEF i
  <2>1. i = Top.cursor /\ handlers[i].handler \in Cleaning
    BY DEF i
  <2> QED BY <1>1, <1>2, <1>5, <1>6, <1>7, <2>1 DEF TurnMade, h
<1> QED BY <1>8

\* The levels under the `with` whose cleanup runs.
LEMMA TurnFacts ==
    ASSUME Shaped, NEW i, NEW a, NEW b, TurnMade(a, b, i), NEW n, n = Depth, NEW m, m = n + 1
    PROVE  /\ n \in Nat /\ n > 0 /\ m \in Nat /\ m - 1 = n /\ Depth' = m
           /\ stack'[n] = b /\ stack'[m] = a /\ stack[n] = Top /\ n \in 1..Depth
           /\ SizesAt(n)' = Sizes /\ SizesAt(n) = Sizes /\ SizesAt(m)' = Sizes'
           /\ Same(n - 1)
           /\ Whole(n - 1)' = Whole(n - 1) /\ NoClause(n - 1)' = NoClause(n - 1)
           /\ i \in Nat /\ i \in 1..Len(handlers) /\ Len(handlers) \in Nat
           /\ Top.base \in Nat /\ i > Top.base
           /\ Len(handlers') = Len(handlers)
           /\ \A k \in 1..Len(handlers) :
                  /\ handlers'[k].handler = handlers[k].handler
                  /\ handlers'[k].cleaned = IF k = i THEN handlers[k].cleaned + 1
                                                     ELSE handlers[k].cleaned
           /\ \A k \in 1..Len(rows) : rows'[k] = rows[k]
           /\ \A k \in 1..Len(insideHandler) : insideHandler'[k] = insideHandler[k]
           /\ Len(insideHandler') = Len(insideHandler) + 1
           /\ insideHandler'[Len(insideHandler')] = i
           /\ \A k \in Top.base + 1..Len(handlers) :
                  handlers[k].cleaned = IF k > i /\ handlers[k].handler \in Cleaning THEN 1 ELSE 0
           /\ Failed(Top.incoming) => Top.outcome = Top.incoming
<1>1. /\ n \in Nat /\ n > 0 /\ m \in Nat /\ m - 1 = n /\ Depth' = m /\ n \in 1..Depth
      /\ stack'[n] = b /\ stack'[m] = a /\ stack[n] = Top /\ Depth # m /\ n # Depth' /\ m = Depth'
      /\ \A k \in 1..n - 1 : stack'[k] = stack[k]
  BY StackTyped DEF TurnMade, Depth, Top, Shaped
<1>2. a.at = Sizes /\ b.at = Top.at
  BY DEF TurnMade
<1>3. SizesAt(n)' = Sizes /\ SizesAt(n) = Sizes /\ SizesAt(m)' = Sizes'
  <2>1. SizesAt(n)' = stack'[n + 1].at
    BY <1>1 DEF SizesAt
  <2> QED BY <2>1, <1>1, <1>2 DEF SizesAt
<1>4. /\ Top.base \in Nat /\ Top.base = Top.at.handlers /\ Len(handlers) \in Nat
      /\ Top.cursor \in Top.base..Len(handlers)
      /\ Len(rows) = Top.at.rows /\ Len(insideHandler) = Top.at.inside
      /\ \A k \in Top.base + 1..Len(handlers) :
             handlers[k].cleaned = IF k > Top.cursor /\ handlers[k].handler \in Cleaning
                                   THEN 1 ELSE 0
      /\ Failed(Top.incoming) => Top.outcome = Top.incoming
  <2>1. Top.kind = "with" /\ Top.phase = "finally" /\ stack # <<>>
    BY DEF TurnMade
  <2> QED BY <2>1, TopWith DEF Shaped
<1>5. i = Top.cursor /\ i \in Nat /\ i \in 1..Len(handlers) /\ i > Top.base
  BY <1>4 DEF TurnMade
<1>6. /\ Len(handlers') = Len(handlers)
      /\ \A k \in 1..Len(handlers) :
             /\ handlers'[k].handler = handlers[k].handler
             /\ handlers'[k].cleaned = IF k = i THEN handlers[k].cleaned + 1
                                                ELSE handlers[k].cleaned
  <2>1. handlers' = [handlers EXCEPT ![i].cleaned = @ + 1]
    BY DEF TurnMade
  <2> QED BY <2>1, <1>5, CountedOnce
<1>7. \A k \in 1..Len(rows) : rows'[k] = rows[k]
  <2>1. PICK r : r = [handled |-> Len(handlers), handler |-> i, promise |-> Anything]
    OBVIOUS
  <2>2. r \in RowRecords /\ rows' = Append(rows, r)
    BY <1>4, <1>5, <2>1 DEF TurnMade, RowRecords, Anything, Rows
  <2> QED BY <2>2, RowsTyped, AppendFacts DEF Shaped
<1>8. /\ \A k \in 1..Len(insideHandler) : insideHandler'[k] = insideHandler[k]
      /\ Len(insideHandler') = Len(insideHandler) + 1
      /\ insideHandler'[Len(insideHandler')] = i
  <2>1. insideHandler \in Seq(Nat) /\ insideHandler' = Append(insideHandler, i)
    BY DEF Shaped, TypeOK, TurnMade
  <2> QED BY <2>1, <1>5, AppendFacts
<1>9. Same(n - 1)
  <2>1. SameUpTo(Top.at)
    <3>1. \A k \in 1..Top.at.handlers : k \in 1..Len(handlers) /\ k # i
      BY <1>4, <1>5
    <3> QED BY <3>1, <1>4, <1>6, <1>7, <1>8 DEF SameUpTo
  <2>2. n - 1 \in Nat /\ n - 1 < Depth /\ n - 1 < Depth' /\ n - 1 + 1 = n /\ n - 1 <= Depth'
        /\ n - 1 # Depth'
    BY <1>1
  <2>3. stack[n - 1 + 1].at = Top.at /\ stack'[n - 1 + 1].at = Top.at
    BY <1>1, <1>2, <2>2
  <2>4. entry' = entry
    BY DEF TurnMade
  <2> QED BY <1>1, <2>1, <2>2, <2>3, <2>4, SameUnder
<1>10. Whole(n - 1)' = Whole(n - 1) /\ NoClause(n - 1)' = NoClause(n - 1)
  BY <1>1 DEF Whole, NoClause
<1> QED BY <1>1, <1>3, <1>4, <1>5, <1>6, <1>7, <1>8, <1>9, <1>10

\* The `with` whose cleanup runs.
LEMMA TurnUnder ==
    ASSUME Shaped, NEW i, NEW a, NEW b, TurnMade(a, b, i), NEW n, n = Depth
    PROVE  Level(n)'
<1>1. PICK m : m = n + 1
  OBVIOUS
<1>2. /\ n \in 1..Depth /\ stack'[n] = b /\ stack[n] = Top
      /\ SizesAt(n)' = Sizes /\ SizesAt(n) = Sizes
      /\ Whole(n - 1)' = Whole(n - 1) /\ NoClause(n - 1)' = NoClause(n - 1)
      /\ i \in Nat /\ i \in 1..Len(handlers) /\ Len(handlers) \in Nat
      /\ Top.base \in Nat /\ i > Top.base
      /\ \A k \in 1..Len(handlers) :
             /\ handlers'[k].handler = handlers[k].handler
             /\ handlers'[k].cleaned = IF k = i THEN handlers[k].cleaned + 1
                                                ELSE handlers[k].cleaned
      /\ \A k \in 1..Len(rows) : rows'[k] = rows[k]
      /\ \A k \in 1..Len(insideHandler) : insideHandler'[k] = insideHandler[k]
      /\ \A k \in Top.base + 1..Len(handlers) :
             handlers[k].cleaned = IF k > i /\ handlers[k].handler \in Cleaning THEN 1 ELSE 0
      /\ Failed(Top.incoming) => Top.outcome = Top.incoming
  BY <1>1, TurnFacts
<1>3. /\ b.kind = "with" /\ Top.kind = "with" /\ b.name = Top.name /\ b.handler = Top.handler
      /\ b.at = Top.at /\ b.may = Top.may /\ b.base = Top.base /\ b.todo = Top.todo
      /\ b.phase = "finally" /\ b.cursor = i - 1 /\ b.incoming = Top.incoming
      /\ b.outcome = Top.outcome /\ entry' = entry /\ handlers[i].handler \in Cleaning
  BY DEF TurnMade
<1>4. /\ Sizes.handlers = Len(handlers) /\ Sizes.rows = Len(rows)
      /\ Sizes.inside = Len(insideHandler)
  BY DEF Sizes
<1>5. Partly(Top) => Partly(b)
  BY <1>3 DEF Partly
<1>6. Level(n)
  BY <1>2 DEF Shaped, Good, Levels
<1>7. OwnLevel(n)' /\ AnsweredLevel(n)' /\ KeptLevel(n)'
  BY <1>2, <1>3, <1>4, <1>5, <1>6, LevelTouched DEF Shaped, Good
<1>8. CleanLevel(n)'
  <2>1. SizesAt(n)'.handlers = Len(handlers) /\ b.cursor \in b.base..Len(handlers)
    BY <1>2, <1>3, <1>4
  <2>2. ASSUME NEW k \in b.base + 1..Len(handlers)
        PROVE  handlers'[k].cleaned = IF k > b.cursor /\ handlers'[k].handler \in Cleaning
                                      THEN 1 ELSE 0
    <3>1. k \in 1..Len(handlers) /\ k \in Top.base + 1..Len(handlers)
          /\ (k > b.cursor <=> k > i \/ k = i) /\ ~(i > i)
      BY <1>2, <1>3
    <3>2. /\ handlers'[k].handler = handlers[k].handler
          /\ handlers'[k].cleaned = IF k = i THEN handlers[k].cleaned + 1
                                             ELSE handlers[k].cleaned
          /\ handlers[k].cleaned = IF k > i /\ handlers[k].handler \in Cleaning THEN 1 ELSE 0
      BY <3>1, <1>2
    <3>3. CASE k = i
      BY <3>1, <3>2, <3>3, <1>3
    <3>4. CASE k # i
      BY <3>1, <3>2, <3>4
    <3> QED BY <3>3, <3>4
  <2> QED BY <2>1, <2>2, <1>2, <1>3 DEF CleanLevel
<1>9. PaidLevel(n)'
  BY <1>2, <1>3 DEF PaidLevel
<1> QED BY <1>7, <1>8, <1>9 DEF Level

\* The `finally` block that begins.
LEMMA TurnTop ==
    ASSUME Shaped, NEW i, NEW a, NEW b, TurnMade(a, b, i), NEW n, n = Depth, NEW m, m = n + 1
    PROVE  Level(m)'
<1>1. /\ n \in Nat /\ n > 0 /\ m \in Nat /\ m - 1 = n
      /\ stack'[n] = b /\ stack'[m] = a /\ stack[n] = Top /\ SizesAt(m)' = Sizes'
      /\ Whole(n - 1)' = Whole(n - 1) /\ NoClause(n - 1)' = NoClause(n - 1)
      /\ i \in Nat /\ i \in 1..Len(handlers) /\ Len(handlers) \in Nat
      /\ Len(handlers') = Len(handlers)
      /\ \A k \in 1..Len(handlers) : handlers'[k].handler = handlers[k].handler
      /\ Len(insideHandler') = Len(insideHandler) + 1
      /\ insideHandler'[Len(insideHandler')] = i
  BY TurnFacts
<1>2. /\ b.kind = "with" /\ Top.kind = "with" /\ Top.phase = "finally" /\ stack # <<>>
      /\ b.phase = "finally" /\ b.todo = Top.todo
      /\ a.kind = "finally" /\ a.at = Sizes /\ a.handler = i
      /\ a.name = Cleanup(handlers[i].handler) /\ a.may = FinallyUses[handlers[i].handler]
      /\ rows' = Append(rows, [handled |-> Len(handlers), handler |-> i, promise |-> Anything])
      /\ handlers[i].handler \in Cleaning /\ entry' = entry
  BY DEF TurnMade
<1>3. Whole(n)' => Whole(n)
  <2>1. Whole(n)' => Whole(n - 1)' /\ ~Partly(b)
    BY <1>1 DEF Whole, Partly
  <2>2. Partly(Top) => Partly(b)
    BY <1>2 DEF Partly
  <2> QED BY <2>1, <2>2, <1>1, WholeDown
<1>4. NoClause(n)' => NoClause(n)
  <2>1. NoClause(n)' => NoClause(n - 1)'
    BY <1>1 DEF NoClause
  <2>2. ~InClause(Top)
    BY <1>2 DEF InClause
  <2> QED BY <2>1, <2>2, <1>1, WholeDown
<1>5. NewTop(a, m)
  <2>1. Whole(m - 1)' => Whole(m - 1)
    BY <1>1, <1>3
  <2>2. NoClause(m - 1)' => NoClause(m - 1)
    BY <1>1, <1>4
  <2> QED BY <2>1, <2>2, <1>1, <1>2 DEF NewTop
<1>6. Lawful(a)
  <2>1. PICK r : r = [handled |-> Len(handlers), handler |-> i, promise |-> Anything]
    OBVIOUS
  <2>2. r \in RowRecords /\ r.handled = Len(handlers) /\ r.handler = i /\ r.promise = Ops
    BY <2>1, <1>1 DEF RowRecords, Anything, Rows
  <2>3. rows' = Append(rows, r)
    BY <2>1, <1>2
  <2>4. a.may \subseteq Ops /\ a.may \subseteq HandlerRow(handlers[i].handler)
    <3>1. PICK h : h = handlers[i].handler
      OBVIOUS
    <3>2. h \in Handlers /\ a.may = FinallyUses[h]
      BY <3>1, <1>2, ProgramAssumption
    <3>3. FinallyUses[h] \in Rows
      BY <3>2, ProgramAssumption
    <3>4. FinallyUses[h] \subseteq HandlerRow(h)
      BY DEF HandlerRow
    <3>5. a.may \subseteq Ops
      BY <3>2, <3>3 DEF Rows
    <3>6. a.may \subseteq HandlerRow(h)
      BY <3>2, <3>4
    <3> QED BY <3>1, <3>5, <3>6
  <2> QED BY <2>2, <2>3, <2>4, <1>1 DEF Lawful
<1>7. AnsweredLevel(m)' /\ KeptLevel(m)'
  BY <1>5, <1>6, NewAnswered, NewKept DEF Shaped
<1>8. OwnLevel(m)'
  <2>1. a.at.handlers = Len(handlers) /\ SizesAt(m)'.inside = Len(insideHandler')
    BY <1>1, <1>2 DEF Sizes
  <2>2. Len(insideHandler') > 0
    BY <1>1, LensTyped DEF Shaped
  <2>3. a.name[1] = handlers[i].handler
    BY <1>2, Pairs DEF Cleanup
  <2> QED BY <2>1, <2>2, <2>3, <1>1, <1>2 DEF OwnLevel
<1>9. CleanLevel(m)' /\ PaidLevel(m)'
  BY <1>1, <1>2 DEF CleanLevel, PaidLevel
<1> QED BY <1>7, <1>8, <1>9 DEF Level

LEMMA RunFinallyStep ==
    ASSUME Shaped, RunFinally PROVE StepGood
<1>1. CASE handlers[Top.cursor].handler \notin Cleaning
  <2>1. /\ CleaningUp /\ Top.cursor > Top.base
        /\ stack' = [stack EXCEPT ![Depth].cursor = Top.cursor - 1]
        /\ rows' = rows /\ handlers' = handlers /\ insideHandler' = insideHandler
        /\ entry' = entry
    BY <1>1 DEF RunFinally
  <2> QED BY <2>1, <1>1, SkipStep
<1>2. CASE handlers[Top.cursor].handler \in Cleaning
  <2>1. PICK i, n, m : i = Top.cursor /\ n = Depth /\ m = n + 1
    OBVIOUS
  <2>2. PICK a, b : TurnMade(a, b, i)
    BY <1>2, <2>1, TurnIsMade
  <2>3. /\ n \in Nat /\ n > 0 /\ m \in Nat /\ m - 1 = n /\ Depth' = m /\ Same(n - 1)
        /\ i \in 1..Len(handlers) /\ Len(handlers) \in Nat /\ Top.base \in Nat /\ i > Top.base
        /\ Len(handlers') = Len(handlers) /\ stack'[n] = b /\ stack[n] = Top
        /\ \A k \in 1..Len(handlers) :
               handlers'[k].cleaned = IF k = i THEN handlers[k].cleaned + 1
                                               ELSE handlers[k].cleaned
        /\ \A k \in Top.base + 1..Len(handlers) :
               handlers[k].cleaned = IF k > i /\ handlers[k].handler \in Cleaning THEN 1 ELSE 0
    BY <2>1, <2>2, TurnFacts
  <2>4. Level(n)' /\ Level(m)'
    BY <2>1, <2>2, TurnUnder, TurnTop
  <2>5. Good'
    <3>1. /\ Depth' \in n - 1..n - 1 + 2
          /\ \A k \in n - 1 + 1..Depth' : k = n \/ k = m
      BY <2>3
    <3>2. \A k \in n - 1 + 1..Depth' : Level(k)'
      BY <3>1, <2>4
    <3>3. n - 1 = 0 => Rooted'
      <4>1. Top.kind = "with" /\ stack # <<>>
        BY <2>2 DEF TurnMade
      <4>2. n = 1 => FALSE
        BY <4>1, <2>3 DEF Rooted, Shaped, Good
      <4> QED BY <4>2, <2>3
    <3> QED BY <3>1, <3>2, <3>3, <2>3, GoodAfter DEF Shaped
  <2>6. CleanedOnce
    <3>1. \A k \in 1..Len(handlers) : handlers[k].cleaned \in Nat
      BY HandlersTyped DEF Shaped, Instances
    <3>2. \A k \in Len(handlers') + 1..Len(handlers) : FALSE
      BY <2>3
    <3>3. ASSUME NEW k \in 1..Len(handlers'), handlers'[k].cleaned > handlers[k].cleaned,
                 NEW j \in k + 1..Len(handlers), handlers[j].handler \in Cleaning
          PROVE  handlers[j].cleaned = 1
      <4>1. k = i
        BY <3>1, <3>3, <2>3
      <4>2. j \in Top.base + 1..Len(handlers) /\ j > i
        BY <4>1, <2>3
      <4> QED BY <4>2, <3>3, <2>3
    <3> QED BY <3>2, <3>3 DEF CleanedOnce
  <2>7. ~(Depth' < Depth) /\ stack' # stack
    <3>1. ~(Depth' < n) /\ Depth' # n
      BY <2>3
    <3> QED BY <3>1, <2>1 DEF Depth
  <2>8. FirstFailure /\ RowKept /\ EffectAnswered
    BY <2>7 DEF FirstFailure, RowKept, EffectAnswered
  <2> QED BY <2>5, <2>6, <2>8 DEF StepGood
<1> QED BY <1>1, <1>2

\* What is told to the `with` a `finally` block belongs to.
Told(c, d, s) ==
    /\ d.kind = c.kind /\ d.name = c.name /\ d.handler = c.handler /\ d.at = c.at
    /\ d.may = c.may /\ d.base = c.base /\ d.todo = c.todo /\ d.phase = c.phase
    /\ d.cursor = c.cursor /\ d.incoming = c.incoming
    /\ d.outcome = IF ~Failed(c.incoming) /\ s # None THEN s ELSE c.outcome

LEMMA FinallyTold ==
    ASSUME Shaped, FinallyEnds, NEW n, n = Depth - 1
    PROVE  /\ n \in Nat /\ n > 0 /\ Depth = n + 1 /\ Depth' = n
           /\ Told(stack[n], stack'[n], signal)
           /\ \A k \in 1..n - 1 : stack'[k] = stack[k]
<1> DEFINE below == Front(stack)
           outcome == IF ~Failed(stack[n].incoming) /\ signal # None
                      THEN signal ELSE below[n].outcome
           spoiled == below[n].spoiled \/ Failed(signal)
           told == [[below[n] EXCEPT !.outcome = outcome] EXCEPT !.spoiled = spoiled]
<1>1. stack # <<>> /\ Top.kind = "finally" /\ stack' = [below EXCEPT ![n] = told]
  BY DEF FinallyEnds, PopFinally
<1>2. /\ below \in Seq(Activations) /\ Len(below) = Depth - 1 /\ Depth \in Nat
      /\ Depth > 0 /\ \A k \in 1..Depth - 1 : below[k] = stack[k]
  BY <1>1, StackTyped, FrontFacts DEF Shaped
<1>3. n \in Nat /\ n > 0 /\ Depth = n + 1 /\ Len(below) = n
  <2>1. Depth # 1
    <3>1. Depth = 1 => Top = stack[1]
      BY DEF Top
    <3> QED BY <3>1, <1>1 DEF Rooted, Shaped, Good
  <2> QED BY <2>1, <1>2
<1>4. below[n] = stack[n] /\ below[n] \in Activations
  <2>1. n \in 1..n
    BY <1>3
  <2> QED BY <2>1, <1>2, <1>3, StackTyped
<1>5. told.kind = below[n].kind /\ Told(stack[n], told, signal)
  <2> DEFINE c == below[n]
  <2>1. c \in Activations
    BY <1>4
  <2>2. stack[n] = c
    BY <1>4
  <2> HIDE DEF c
  <2>3. told = [[c EXCEPT !.outcome = outcome] EXCEPT !.spoiled = spoiled]
        /\ outcome = IF ~Failed(c.incoming) /\ signal # None THEN signal ELSE c.outcome
    BY <2>2 DEF c
  <2> HIDE DEF told, outcome, spoiled, below
  <2>4. /\ told.kind = c.kind /\ told.name = c.name /\ told.handler = c.handler
        /\ told.at = c.at /\ told.may = c.may /\ told.base = c.base /\ told.todo = c.todo
        /\ told.phase = c.phase /\ told.cursor = c.cursor /\ told.incoming = c.incoming
        /\ told.outcome = outcome
    BY <2>1, <2>3 DEF Activations
  <2>5. Told(c, told, signal)
    BY <2>3, <2>4 DEF Told
  <2> QED BY <2>2, <2>4, <2>5 DEF c
<1> HIDE DEF told, below
<1>6. /\ Len(stack') = n /\ stack'[n] = told
      /\ \A k \in 1..n - 1 : stack'[k] = stack[k]
  BY <1>1, <1>2, <1>3
<1>7. Depth' = n
  BY <1>6 DEF Depth
<1> QED BY <1>3, <1>5, <1>6, <1>7

LEMMA FinallyEndsStep ==
    ASSUME Shaped, FinallyEnds PROVE StepGood
<1>1. PICK n : n = Depth - 1
  OBVIOUS
<1>2. PICK c, d : c = stack[n] /\ d = stack'[n]
  OBVIOUS
<1>3. /\ n \in Nat /\ n > 0 /\ Depth = n + 1 /\ Depth' = n /\ Told(c, d, signal)
      /\ \A k \in 1..n - 1 : stack'[k] = stack[k]
  BY <1>1, <1>2, FinallyTold
<1>4. /\ stack # <<>> /\ Top.kind = "finally" /\ rows' = Front(rows)
      /\ insideHandler' = Front(insideHandler) /\ handlers' = handlers /\ entry' = entry
  BY DEF FinallyEnds, PopFinally
<1>5. /\ Top = stack[n + 1] /\ SizesAt(n) = Top.at /\ n \in 1..Depth /\ n - 1 \in Nat
      /\ n - 1 < Depth /\ n - 1 < Depth' /\ n - 1 + 1 = n
      /\ n - 1 <= Depth' /\ n - 1 # Depth' /\ Depth' < Depth
  BY <1>3 DEF Top, SizesAt
<1>6. Sizes' = Top.at
  <2>1. StepOK
    BY FinallyEndsOK DEF Shaped
  <2> QED BY <2>1, <1>5 DEF StepOK
<1>7. SizesAt(n)' = Top.at
  BY <1>3, <1>6 DEF SizesAt
<1>8. /\ Top.at.rows \in Nat /\ Top.at.inside \in Nat
      /\ Len(rows) = Top.at.rows + 1 /\ Len(insideHandler) = Top.at.inside + 1
  BY <1>4, TopFacts DEF Shaped, SizeRecords, One
<1>9. /\ \A k \in 1..Top.at.rows : rows'[k] = rows[k]
      /\ \A k \in 1..Top.at.inside : insideHandler'[k] = insideHandler[k]
  <2>1. rows \in Seq(RowRecords)
    BY RowsTyped DEF Shaped
  <2>2. insideHandler \in Seq(Nat)
    BY DEF Shaped, TypeOK
  <2> QED BY <2>1, <2>2, <1>4, <1>8, FrontSame
<1>10. c.at \in SizeRecords /\ c.at.rows <= Top.at.rows /\ c.at.inside <= Top.at.inside
  BY <1>2, <1>5, SizesAtTyped, LevelFacts DEF Shaped
<1>11. SameUpTo(c.at)
  <2>1. c.at.rows \in Nat /\ c.at.inside \in Nat
    BY <1>10 DEF SizeRecords
  <2>2. /\ \A k \in 1..c.at.rows : k \in 1..Top.at.rows
        /\ \A k \in 1..c.at.inside : k \in 1..Top.at.inside
    BY <2>1, <1>8, <1>10
  <2> QED BY <2>2, <1>4, <1>9 DEF SameUpTo
<1>12. Same(n - 1)
  <2>1. stack'[n - 1 + 1].at = stack[n - 1 + 1].at /\ stack[n - 1 + 1].at = c.at
    BY <1>2, <1>3, <1>5 DEF Told
  <2>2. SameUpTo(stack[n - 1 + 1].at)
    BY <2>1, <1>11
  <2> QED BY <2>1, <2>2, <1>3, <1>4, <1>5, SameUnder
<1>13. Level(n)'
  <2>1. /\ d.kind = c.kind /\ d.name = c.name /\ d.handler = c.handler /\ d.at = c.at
        /\ d.may = c.may /\ d.base = c.base /\ d.todo = c.todo /\ d.phase = c.phase
        /\ d.cursor = c.cursor /\ d.incoming = c.incoming
        /\ d.outcome = IF ~Failed(c.incoming) /\ signal # None THEN signal ELSE c.outcome
    BY <1>3 DEF Told
  <2>2. Partly(c) => Partly(d)
    BY <2>1 DEF Partly
  <2>3. Level(n)
    BY <1>5 DEF Shaped, Good, Levels
  <2>4. Whole(n - 1)' = Whole(n - 1) /\ NoClause(n - 1)' = NoClause(n - 1)
    BY <1>3 DEF Whole, NoClause
  <2>5. OwnLevel(n)' /\ AnsweredLevel(n)' /\ KeptLevel(n)'
    <3>1. stack'[n] = d /\ stack[n] = c
      BY <1>2
    <3> QED BY <3>1, <2>1, <2>2, <2>3, <2>4, <1>4, <1>5, <1>7, <1>9, LevelTouched
            DEF Shaped, Good
  <2>6. CleanLevel(n)'
    <3>1. CleanLevel(n)
      BY <2>3 DEF Level
    <3> QED BY <3>1, <2>1, <1>2, <1>4, <1>5, <1>7 DEF CleanLevel
  <2>7. PaidLevel(n)'
    <3>1. PaidLevel(n)
      BY <2>3 DEF Level
    <3> QED BY <3>1, <2>1, <1>2, <1>4, <1>5, <1>7 DEF PaidLevel, Installing
  <2> QED BY <2>5, <2>6, <2>7 DEF Level
<1>14. Good'
  <2>1. Depth' \in n - 1..n - 1 + 2 /\ \A k \in n - 1 + 1..Depth' : k = n
    BY <1>3
  <2>2. \A k \in n - 1 + 1..Depth' : Level(k)'
    BY <2>1, <1>13
  <2>3. n - 1 = 0 => Rooted'
    <3>1. d.kind = c.kind
      BY <1>3 DEF Told
    <3>2. n = 1 => stack'[1].kind \in {"test", "call"}
      BY <3>1, <1>2, <1>4 DEF Rooted, Shaped, Good
    <3> QED BY <3>2, <1>3 DEF Rooted
  <2> QED BY <2>1, <2>2, <2>3, <1>3, <1>12, GoodAfter DEF Shaped
<1>15. stack' # stack
  BY <1>5 DEF Depth
<1> QED BY <1>4, <1>14, <1>15, Otherwise

\* What installing a handler makes of the `with` it is installed for.
InstallMade(b, e) ==
    /\ stack # <<>> /\ Top.kind = "with" /\ Top.phase = "install" /\ e = Len(handlers)
    /\ stack' = [stack EXCEPT ![Depth] = b]
    /\ b.kind = "with" /\ b.name = Top.name /\ b.handler = Top.handler /\ b.at = Top.at
    /\ b.base = Top.base /\ b.todo = Tail(Top.todo) /\ b.cursor = Top.cursor + 1
    /\ b.phase = IF Len(Top.todo) = 1 THEN "body" ELSE "install"
    /\ \A o \in b.may : \/ o \in Top.may
                        \/ /\ Len(Top.todo) = 1
                           /\ \E k \in Top.base + 1..e + 1 :
                                  Implements[handlers'[k].handler] = EffectOf[o]
    /\ Len(Top.todo) # 1 => b.may = Top.may
    /\ Len(handlers') = e + 1
    /\ \A k \in 1..e : handlers'[k] = handlers[k]
    /\ handlers'[e + 1].handler = Head(Top.todo) /\ handlers'[e + 1].cleaned = 0
    /\ rows' = rows /\ insideHandler' = insideHandler /\ entry' = entry

LEMMA InstallIsMade ==
    ASSUME Shaped, Install, NEW e, e = Len(handlers)
    PROVE  \E b : InstallMade(b, e)
<1> DEFINE last == Len(Top.todo) = 1
           phase == IF last THEN "body" ELSE "install"
           more == {o \in Ops : \E i \in Top.base + 1..Len(handlers') :
                                   Implements[handlers'[i].handler] = EffectOf[o]}
           may == IF last THEN Top.may \cup more ELSE Top.may
           todo == Tail(Top.todo)
           cursor == Top.cursor + 1
           b == [Top EXCEPT !.todo = todo, !.cursor = cursor, !.phase = phase, !.may = may]
           one == [handler |-> Head(Top.todo), state |-> 0, cleaned |-> 0]
<1>1. /\ stack # <<>> /\ Top.kind = "with" /\ Top.phase = "install" /\ Top \in Activations
      /\ handlers' = Append(handlers, one)
      /\ rows' = rows /\ insideHandler' = insideHandler /\ entry' = entry
  BY StackTyped DEF Install, Evaluating, Shaped
<1>2. stack' = [stack EXCEPT ![Depth] = b]
  BY DEF Install, Top
<1>3. Top.todo \in Seq(Handlers) /\ Top.todo # <<>>
  BY <1>1, TopFacts DEF Activations, WellFormed, Shaped
<1>4. /\ b.kind = Top.kind /\ b.name = Top.name /\ b.handler = Top.handler /\ b.at = Top.at
      /\ b.base = Top.base /\ b.todo = todo /\ b.cursor = cursor /\ b.phase = phase
      /\ b.may = may
  <2> HIDE DEF todo, cursor, phase, may
  <2> QED BY <1>1 DEF Activations
<1>5. /\ Len(handlers') = e + 1
      /\ \A k \in 1..e : handlers'[k] = handlers[k]
      /\ handlers'[e + 1].handler = Head(Top.todo) /\ handlers'[e + 1].cleaned = 0
  <2>1. one \in Instances
    BY <1>3, TailFacts, ProgramAssumption DEF Instances
  <2>2. one.handler = Head(Top.todo) /\ one.cleaned = 0
    OBVIOUS
  <2> HIDE DEF one
  <2>3. handlers \in Seq(Instances)
    BY HandlersTyped DEF Shaped
  <2> QED BY <2>1, <2>2, <2>3, <1>1, AppendFacts
<1> HIDE DEF b
<1>6. ASSUME NEW o \in b.may
      PROVE  \/ o \in Top.may
             \/ /\ Len(Top.todo) = 1
                /\ \E k \in Top.base + 1..e + 1 : Implements[handlers'[k].handler] = EffectOf[o]
  <2>1. o \in Top.may \/ (last /\ o \in more)
    BY <1>4, <1>6
  <2> QED BY <2>1, <1>5
<1>7. Len(Top.todo) # 1 => b.may = Top.may
  BY <1>4
<1> HIDE DEF more, may, one
<1>8. InstallMade(b, e)
  BY <1>1, <1>2, <1>4, <1>5, <1>6, <1>7 DEF InstallMade
<1> QED BY <1>8

\* What is installed or about to be, before and after.
LEMMA InstallList ==
    ASSUME Shaped, NEW e, NEW b, InstallMade(b, e)
    PROVE  /\ e \in Nat /\ Top.base \in Nat /\ Top.base <= e
           /\ ToSet(b.todo) \cup {handlers'[k].handler : k \in Top.base + 1..e + 1}
                = Installing(Top, e)
           /\ Len(Top.todo) = 1 =>
                 /\ b.todo = <<>>
                 /\ {handlers'[k].handler : k \in Top.base + 1..e + 1} = Installing(Top, e)
           /\ Len(Top.todo) # 1 => b.todo # <<>>
<1>1. PICK n : n = Depth
  OBVIOUS
<1>2. stack # <<>> /\ Top.kind = "with" /\ Top.phase = "install" /\ e = Len(handlers)
  BY DEF InstallMade
<1>3. e \in Nat /\ Top.base \in Nat /\ Top.base <= e
  BY <1>1, <1>2, TopWith DEF Shaped
<1>4. Top.todo \in Seq(Handlers) /\ Top.todo # <<>>
  BY <1>2, TopFacts, StackTyped DEF Activations, WellFormed, Shaped
<1>5. PICK todo, head, tail : todo = Top.todo /\ head = Head(todo) /\ tail = Tail(todo)
  OBVIOUS
<1>6. /\ b.todo = tail /\ handlers'[e + 1].handler = head
      /\ \A k \in 1..e : handlers'[k] = handlers[k]
  BY <1>5 DEF InstallMade
<1>7. /\ ToSet(todo) = {head} \cup ToSet(tail)
      /\ Len(todo) = 1 => tail = <<>> /\ ToSet(tail) = {}
      /\ Len(todo) # 1 => tail # <<>>
  <2>1. todo \in Seq(Handlers) /\ todo # <<>>
    BY <1>4, <1>5
  <2>2. /\ tail \in Seq(Handlers) /\ Len(tail) = Len(todo) - 1 /\ head = todo[1]
        /\ Len(todo) \in Nat /\ Len(todo) > 0
        /\ \A k \in 1..Len(todo) - 1 : tail[k] = todo[k + 1]
    BY <2>1, <1>5, HeadTailProperties
  <2>3. ASSUME NEW x PROVE x \in ToSet(todo) <=> x \in {head} \cup ToSet(tail)
    <3>1. x \in ToSet(todo) <=> \E k \in 1..Len(todo) : todo[k] = x
      BY <2>1 DEF ToSet
    <3>2. x \in ToSet(tail) <=> \E k \in 1..Len(todo) - 1 : tail[k] = x
      BY <2>2 DEF ToSet
    <3>3. (\E k \in 1..Len(todo) : todo[k] = x)
            <=> x = todo[1] \/ \E k \in 1..Len(todo) - 1 : todo[k + 1] = x
      <4>1. \A k \in 1..Len(todo) : k = 1 \/ (k - 1 \in 1..Len(todo) - 1 /\ k - 1 + 1 = k)
        BY <2>2
      <4>2. 1 \in 1..Len(todo) /\ \A k \in 1..Len(todo) - 1 : k + 1 \in 1..Len(todo)
        BY <2>2
      <4> QED BY <4>1, <4>2
    <3> QED BY <3>1, <3>2, <3>3, <2>2
  <2>4. Len(todo) = 1 => tail = <<>> /\ ToSet(tail) = {}
    <3>1. \A s \in Seq(Handlers) : Len(s) = 0 => s = <<>>
      OBVIOUS
    <3>2. ToSet(<<>>) = {}
      BY DEF ToSet
    <3> QED BY <3>1, <3>2, <2>2
  <2>5. Len(todo) # 1 => tail # <<>>
    BY <2>2
  <2>6. ToSet(todo) = {head} \cup ToSet(tail)
    BY <2>3
  <2> QED BY <2>4, <2>5, <2>6
<1>8. {handlers'[k].handler : k \in Top.base + 1..e + 1}
        = {head} \cup {handlers[k].handler : k \in Top.base + 1..e}
  <2>1. \A k \in Top.base + 1..e + 1 : k = e + 1 \/ k \in Top.base + 1..e
    BY <1>3
  <2>2. e + 1 \in Top.base + 1..e + 1 /\ \A k \in Top.base + 1..e : k \in Top.base + 1..e + 1 /\ k \in 1..e
    BY <1>3
  <2> QED BY <2>1, <2>2, <1>6
<1> QED BY <1>3, <1>5, <1>6, <1>7, <1>8 DEF Installing

\* What was discharged still is.
LEMMA CoveredStill ==
    ASSUME Shaped, NEW e, NEW b, InstallMade(b, e)
    PROVE  /\ \A o, promise : \A mark \in Nat, end \in 0..e :
                  Covered(o, promise, mark, end) => Covered(o, promise, mark, e + 1)'
           /\ \A o : \A end \in 0..e :
                  Covered(o, Boundary, 0, end) => Covered(o, Boundary, 0, e + 1)'
<1>1. e \in Nat
  BY InstallList
<1>2. /\ \A k \in 1..e : handlers'[k] = handlers[k]
      /\ Boundary' = Boundary
  BY DEF InstallMade, Boundary, AtTheBoundary
<1>3. ASSUME NEW o, NEW mark \in Nat, NEW end \in 0..e, Discharged(o, mark, end)
      PROVE  Discharged(o, mark, e + 1)'
  <2>1. PICK k \in mark + 1..end : Implements[handlers[k].handler] = EffectOf[o]
    BY <1>3 DEF Discharged
  <2>2. k \in 1..e /\ k \in mark + 1..e + 1
    BY <1>1, <2>1
  <2> QED BY <2>1, <2>2, <1>2 DEF Discharged
<1>4. \A o, promise : \A mark \in Nat, end \in 0..e :
          Covered(o, promise, mark, end) => Covered(o, promise, mark, e + 1)'
  BY <1>3 DEF Covered
<1>5. \A o : \A end \in 0..e : Covered(o, Boundary, 0, end) => Covered(o, Boundary, 0, e + 1)'
  BY <1>1, <1>2, <1>3 DEF Covered
<1> QED BY <1>4, <1>5

\* The `with` itself, and the one whose code it is in.
LEMMA InstallFacts ==
    ASSUME Shaped, NEW e, NEW b, InstallMade(b, e), NEW n, n = Depth
    PROVE  /\ n \in Nat /\ n > 1 /\ n - 1 \in Nat /\ Depth' = n /\ n \in 1..Depth
           /\ n - 1 \in 1..Depth
           /\ stack'[n] = b /\ stack[n] = Top /\ Level(n) /\ Level(n - 1)
           /\ SizesAt(n)' = Sizes' /\ SizesAt(n) = Sizes /\ SizesAt(n - 1) = Top.at
           /\ Sizes'.handlers = e + 1 /\ Sizes.handlers = e
           /\ Sizes'.rows = Len(rows) /\ Sizes.rows = Len(rows)
           /\ Sizes'.inside = Len(insideHandler) /\ Sizes.inside = Len(insideHandler)
           /\ Top.at.handlers = Top.base /\ Top.at.rows = Len(rows)
           /\ e \in Nat /\ Top.base \in Nat /\ Top.base <= e
           /\ SameUpTo(Top.at)
           /\ Whole(n - 1)' = Whole(n - 1) /\ NoClause(n - 1)' = NoClause(n - 1)
           /\ Whole(n)' => Len(Top.todo) = 1 /\ Whole(n - 1)
<1>1. /\ stack # <<>> /\ Top.kind = "with" /\ Top.phase = "install" /\ e = Len(handlers)
      /\ stack' = [stack EXCEPT ![Depth] = b] /\ b.at = Top.at /\ entry' = entry
      /\ rows' = rows /\ insideHandler' = insideHandler
      /\ \A k \in 1..e : handlers'[k] = handlers[k]
      /\ Len(handlers') = e + 1 /\ b.kind = "with" /\ b.cursor = Top.cursor + 1
      /\ b.base = Top.base
  BY DEF InstallMade
<1>2. /\ e \in Nat /\ Top.base \in Nat /\ Top.base <= e /\ Len(rows) = Top.at.rows
      /\ Top.base = Top.at.handlers /\ Top.cursor = e /\ Len(insideHandler) = Top.at.inside
  BY <1>1, TopWith DEF Shaped
<1>3. SameUpTo(Top.at)
  BY <1>1, <1>2 DEF SameUpTo
<1>4. /\ n \in Nat /\ n > 0 /\ Depth' = n /\ stack'[n] = b /\ stack[n] = Top
      /\ SizesAt(n)' = Sizes' /\ SizesAt(n) = Sizes
      /\ Whole(n - 1)' = Whole(n - 1) /\ NoClause(n - 1)' = NoClause(n - 1)
  BY <1>1, <1>3, MoveShape, ZenonT(40)
<1>5. n # 1
  <2>1. n = 1 => stack[1].kind = "with"
    BY <1>1, <1>4
  <2> QED BY <2>1, <1>1 DEF Rooted, Shaped, Good
<1>6. n > 1 /\ n - 1 \in Nat /\ n \in 1..Depth /\ n - 1 \in 1..Depth /\ n - 1 # Depth /\ n - 1 + 1 = n
  BY <1>4, <1>5
<1>7. SizesAt(n - 1) = Top.at /\ Level(n) /\ Level(n - 1)
  BY <1>4, <1>6 DEF SizesAt, Shaped, Good, Levels
<1>8. Whole(n)' => Len(Top.todo) = 1 /\ Whole(n - 1)
  <2>1. Whole(n)' => Whole(n - 1)' /\ ~Partly(b)
    BY <1>4 DEF Whole, Partly
  <2>2. Len(Top.todo) # 1 => Partly(b)
    <3>1. b.cursor > b.base
      BY <1>1, <1>2
    <3> QED BY <3>1, <1>1, InstallList DEF Partly
  <2> QED BY <2>1, <2>2, <1>4
<1>9. /\ Sizes'.handlers = e + 1 /\ Sizes.handlers = e
      /\ Sizes'.rows = Len(rows) /\ Sizes.rows = Len(rows)
      /\ Sizes'.inside = Len(insideHandler) /\ Sizes.inside = Len(insideHandler)
  BY <1>1 DEF Sizes
<1> QED BY <1>2, <1>3, <1>4, <1>6, <1>7, <1>8, <1>9

LEMMA InstallOwn ==
    ASSUME Shaped, NEW e, NEW b, InstallMade(b, e), NEW n, n = Depth
    PROVE  OwnLevel(n)' /\ CleanLevel(n)' /\ PaidLevel(n)'
<1>1. /\ stack'[n] = b /\ stack[n] = Top /\ Level(n)
      /\ SizesAt(n)'.handlers = e + 1 /\ SizesAt(n)'.inside = Len(insideHandler)
      /\ SizesAt(n).handlers = e /\ SizesAt(n).inside = Len(insideHandler)
      /\ e \in Nat /\ Top.base \in Nat /\ Top.base <= e /\ Top.at.handlers = Top.base
  BY InstallFacts
<1>2. /\ stack # <<>> /\ Top.kind = "with" /\ Top.phase = "install" /\ e = Len(handlers)
      /\ b.kind = "with" /\ b.name = Top.name /\ b.handler = Top.handler /\ b.at = Top.at
      /\ b.base = Top.base /\ b.cursor = Top.cursor + 1 /\ b.phase \in {"body", "install"}
      /\ b.phase = "install" => Len(Top.todo) # 1
      /\ Len(Top.todo) # 1 => b.may = Top.may
      /\ \A k \in 1..e : handlers'[k] = handlers[k]
      /\ handlers'[e + 1].cleaned = 0 /\ insideHandler' = insideHandler
  BY DEF InstallMade
<1>3. /\ Top.cursor = e
      /\ \A k \in Top.base + 1..e : handlers[k].cleaned = 0
  <2>1. Top.phase # "finally"
    BY <1>2
  <2> QED BY <2>1, <1>2, TopWith DEF Shaped
<1>4. OwnLevel(n)'
  <2>1. OwnLevel(n)
    BY <1>1 DEF Level
  <2>2. InHandlerCode(b) <=> InHandlerCode(Top)
    BY <1>2 DEF InHandlerCode
  <2>3. InHandlerCode(b) => b.handler \in 1..e
    BY <2>1, <2>2, <1>1, <1>2 DEF OwnLevel
  <2> QED BY <2>1, <2>2, <2>3, <1>1, <1>2 DEF OwnLevel
<1>5. CleanLevel(n)'
  <2>1. \A k \in b.base + 1..e + 1 : k = e + 1 \/ (k \in Top.base + 1..e /\ k \in 1..e)
    BY <1>1, <1>2
  <2>2. \A k \in b.base + 1..e + 1 : handlers'[k].cleaned = 0
    BY <2>1, <1>2, <1>3
  <2>3. b.phase # "finally" /\ b.cursor = e + 1
    BY <1>2, <1>3
  <2> QED BY <2>2, <2>3, <1>1 DEF CleanLevel
<1>6. PaidLevel(n)'
  <2>1. PaidLevel(n)
    BY <1>1 DEF Level
  <2> SUFFICES ASSUME Len(Top.todo) # 1,
                      NEW h \in Installing(Top, e), NEW o \in HandlerRow(h)
               PROVE  o \in Top.may \/ \E g \in Installing(Top, e) : Implements[g] = EffectOf[o]
    <3>1. Installing(b, SizesAt(n).handlers)' = Installing(Top, e)
      BY InstallList, <1>1, <1>2 DEF Installing
    <3> QED BY <3>1, <1>1, <1>2 DEF PaidLevel
  <2> QED BY <2>1, <1>1, <1>2 DEF PaidLevel
<1> QED BY <1>4, <1>5, <1>6

\* What a promise covers of the code of the `with`, with what it discharges,
\* once another handler is there.
LEMMA InstallCovers ==
    ASSUME Shaped, NEW e, NEW b, InstallMade(b, e), NEW promise, NEW mark \in 0..Top.base,
           \A o \in Top.may : Covered(o, promise, mark, e),
           \A k \in mark + 1..Top.base : \A o \in HandlerRow(handlers[k].handler) :
               Covered(o, promise, mark, Top.base)
    PROVE  /\ \A o \in b.may : Covered(o, promise, mark, e + 1)'
           /\ Len(Top.todo) = 1 => \A k \in mark + 1..e + 1 :
                  \A o \in HandlerRow(handlers'[k].handler) : Covered(o, promise, mark, e + 1)'
<1>1. PICK n : n = Depth
  OBVIOUS
<1>2. /\ Level(n) /\ stack[n] = Top /\ SizesAt(n).handlers = e
      /\ e \in Nat /\ Top.base \in Nat /\ Top.base <= e
  BY <1>1, InstallFacts
<1>3. mark \in Nat /\ Top.base \in 0..e /\ e \in 0..e
  BY <1>2
<1>4. \A o : Covered(o, promise, mark, e) \/ Covered(o, promise, mark, Top.base)
                 => Covered(o, promise, mark, e + 1)'
  BY <1>3, CoveredStill
<1>5. \A o : (\E k \in Top.base + 1..e + 1 : Implements[handlers'[k].handler] = EffectOf[o])
                 => Covered(o, promise, mark, e + 1)'
  <2>1. \A k \in Top.base + 1..e + 1 : k \in mark + 1..e + 1
    BY <1>2
  <2> QED BY <2>1 DEF Covered, Discharged
<1>6. \A o \in b.may : Covered(o, promise, mark, e + 1)'
  BY <1>4, <1>5 DEF InstallMade
<1>7. ASSUME Len(Top.todo) = 1, NEW k \in mark + 1..e + 1,
             NEW o \in HandlerRow(handlers'[k].handler)
      PROVE  Covered(o, promise, mark, e + 1)'
  <2>1. CASE k \in mark + 1..Top.base
    <3>1. k \in 1..e /\ handlers'[k] = handlers[k]
      BY <2>1, <1>2 DEF InstallMade
    <3> QED BY <3>1, <2>1, <1>4, <1>7
  <2>2. CASE k \in Top.base + 1..e + 1
    <3>1. PaidLevel(n) /\ Top.kind = "with" /\ Top.phase = "install"
      BY <1>2 DEF Level, InstallMade
    <3>2. {handlers'[i].handler : i \in Top.base + 1..e + 1} = Installing(Top, e)
      BY <1>7, InstallList
    <3>3. PICK h : h = handlers'[k].handler
      OBVIOUS
    <3>4. h \in Installing(Top, e) /\ o \in HandlerRow(h)
      BY <3>2, <3>3, <2>2, <1>7
    <3>5. o \in Top.may \/ \E g \in Installing(Top, e) : Implements[g] = EffectOf[o]
      BY <3>1, <3>4, <1>2 DEF PaidLevel
    <3>6. (\E g \in Installing(Top, e) : Implements[g] = EffectOf[o])
             => \E i \in Top.base + 1..e + 1 : Implements[handlers'[i].handler] = EffectOf[o]
      BY <3>2
    <3> QED BY <3>5, <3>6, <1>4, <1>5
  <2>3. k \in mark + 1..Top.base \/ k \in Top.base + 1..e + 1
    BY <1>2, <1>3
  <2> QED BY <2>1, <2>2, <2>3
<1> QED BY <1>6, <1>7

LEMMA InstallAnswered ==
    ASSUME Shaped, NEW e, NEW b, InstallMade(b, e), NEW n, n = Depth
    PROVE  AnsweredLevel(n)'
<1>1. /\ stack'[n] = b /\ stack[n] = Top /\ Level(n) /\ Level(n - 1) /\ n \in Nat
      /\ SizesAt(n)'.handlers = e + 1 /\ SizesAt(n).handlers = e
      /\ SizesAt(n - 1).handlers = Top.base
      /\ e \in Nat /\ Top.base \in Nat
      /\ Whole(n - 1)' = Whole(n - 1)
      /\ Whole(n)' => Len(Top.todo) = 1 /\ Whole(n - 1)
  BY InstallFacts
<1>2. Boundary' = Boundary
  BY DEF InstallMade, Boundary, AtTheBoundary
<1>3. PICK promise : promise = Boundary
  OBVIOUS
<1>4. promise = Boundary'
  BY <1>2, <1>3
<1>5. \A o : Covered(o, promise, 0, e + 1)' => Covered(o, Boundary, 0, e + 1)'
  BY <1>4 DEF Covered
<1>6. ASSUME Whole(n - 1)
      PROVE  /\ \A o \in b.may : Covered(o, promise, 0, e + 1)'
             /\ Len(Top.todo) = 1 => \A k \in 1..e + 1 :
                    \A o \in HandlerRow(handlers'[k].handler) : Covered(o, promise, 0, e + 1)'
  <2>1. \A o \in Top.may : Covered(o, promise, 0, e)
    BY <1>1, <1>3, <1>6 DEF Level, AnsweredLevel
  <2>2. \A k \in 1..Top.base : \A o \in HandlerRow(handlers[k].handler) :
            Covered(o, promise, 0, Top.base)
    BY <1>1, <1>3, <1>6 DEF Level, AnsweredLevel
  <2>3. PICK mark : mark = 0
    OBVIOUS
  <2>4. mark \in 0..Top.base /\ mark + 1 = 1
    BY <2>3, <1>1
  <2>5. /\ \A o \in Top.may : Covered(o, promise, mark, e)
        /\ \A k \in mark + 1..Top.base : \A o \in HandlerRow(handlers[k].handler) :
               Covered(o, promise, mark, Top.base)
    BY <2>1, <2>2, <2>3, <2>4
  <2>6. /\ \A o \in b.may : Covered(o, promise, mark, e + 1)'
        /\ Len(Top.todo) = 1 => \A k \in mark + 1..e + 1 :
               \A o \in HandlerRow(handlers'[k].handler) : Covered(o, promise, mark, e + 1)'
    BY <2>4, <2>5, InstallCovers
  <2> QED BY <2>3, <2>4, <2>6
<1> QED BY <1>1, <1>5, <1>6 DEF AnsweredLevel

LEMMA InstallKept ==
    ASSUME Shaped, NEW e, NEW b, InstallMade(b, e), NEW n, n = Depth
    PROVE  KeptLevel(n)'
<1>1. /\ stack'[n] = b /\ stack[n] = Top /\ Level(n) /\ Level(n - 1) /\ n \in Nat /\ n > 1
      /\ SizesAt(n)'.handlers = e + 1 /\ SizesAt(n).handlers = e
      /\ SizesAt(n - 1).handlers = Top.base
      /\ SizesAt(n)'.rows = Len(rows) /\ SizesAt(n).rows = Len(rows)
      /\ SizesAt(n - 1).rows = Len(rows)
      /\ e \in Nat /\ Top.base \in Nat /\ Top.base <= e
      /\ Whole(n - 1)' = Whole(n - 1) /\ NoClause(n - 1)' = NoClause(n - 1)
      /\ Whole(n)' => Len(Top.todo) = 1 /\ Whole(n - 1)
  BY InstallFacts
<1>2. n - 1 \in Nat /\ n - 1 > 0
  BY <1>1
<1>3. /\ Whole(n - 1) => Whole(n - 1 - 1)
      /\ NoClause(n - 1) => NoClause(n - 1 - 1)
  BY <1>2, WholeDown
<1>4. rows' = rows
  BY DEF InstallMade
<1>5. PICK w : w = Len(rows)
  OBVIOUS
<1>6. \A j \in 1..w : rows[j].handled \in Nat /\ rows[j].handled <= Top.base
  <2>1. \A j \in 1..w : rows[j].handled \in Nat
    BY <1>5, RowsTyped DEF RowRecords, Shaped
  <2>2. \A j \in 1..w : rows[j].handled <= Top.base
    BY <1>1, <1>5 DEF Level, KeptLevel
  <2> QED BY <2>1, <2>2
<1>7. ASSUME NEW j \in 1..w, Asked(j, w), NoClause(n - 1), Whole(n - 1),
             NEW promise, NEW mark, promise = rows[j].promise, mark = rows[j].handled
      PROVE  /\ \A o \in b.may : Covered(o, promise, mark, e + 1)'
             /\ Len(Top.todo) = 1 => \A k \in mark + 1..e + 1 :
                    \A o \in HandlerRow(handlers'[k].handler) : Covered(o, promise, mark, e + 1)'
  <2>1. mark \in 0..Top.base
    BY <1>1, <1>6, <1>7
  <2>2. \A o \in Top.may : Covered(o, promise, mark, e)
    BY <1>1, <1>5, <1>7 DEF Level, KeptLevel
  <2>3. \A k \in mark + 1..Top.base : \A o \in HandlerRow(handlers[k].handler) :
            Covered(o, promise, mark, Top.base)
    BY <1>1, <1>3, <1>5, <1>7 DEF Level, KeptLevel
  <2> QED BY <2>1, <2>2, <2>3, InstallCovers
<1>8. \A j \in 1..w : Asked(j, w)' = Asked(j, w)
  BY <1>4 DEF Asked
<1>9. \A j \in 1..w : rows'[j].handled <= e + 1
  BY <1>1, <1>4, <1>6
<1>10. ASSUME NEW j \in 1..w, Asked(j, w), NoClause(n - 1), Whole(n - 1)
      PROVE  /\ \A o \in b.may : Covered(o, rows[j].promise, rows[j].handled, e + 1)'
             /\ Len(Top.todo) = 1 => \A k \in rows'[j].handled + 1..e + 1 :
                    \A o \in HandlerRow(handlers'[k].handler) :
                        Covered(o, rows[j].promise, rows[j].handled, e + 1)'
  <2>1. PICK promise, mark : promise = rows[j].promise /\ mark = rows[j].handled
    OBVIOUS
  <2>2. promise = rows'[j].promise /\ mark = rows'[j].handled
    BY <2>1, <1>4
  <2>3. /\ \A o \in b.may : Covered(o, promise, mark, e + 1)'
        /\ Len(Top.todo) = 1 => \A k \in mark + 1..e + 1 :
               \A o \in HandlerRow(handlers'[k].handler) : Covered(o, promise, mark, e + 1)'
    BY <1>10, <2>1, <1>7
  <2>4. \A o : Covered(o, promise, mark, e + 1)'
                  => Covered(o, rows[j].promise, rows[j].handled, e + 1)'
    BY <2>2 DEF Covered, Discharged
  <2> QED BY <2>2, <2>3, <2>4
<1> QED BY <1>9, <1>10, <1>1, <1>5, <1>8 DEF KeptLevel

LEMMA InstallStep ==
    ASSUME Shaped, Install PROVE StepGood
<1>1. PICK e, n : e = Len(handlers) /\ n = Depth
  OBVIOUS
<1>2. PICK b : InstallMade(b, e)
  BY <1>1, InstallIsMade
<1>3. Level(n)'
  BY <1>1, <1>2, InstallOwn, InstallAnswered, InstallKept DEF Level
<1>4. SameUpTo(Top.at) /\ n \in Nat /\ e \in Nat /\ Depth' = n /\ stack'[n] = b
  BY <1>1, <1>2, InstallFacts
<1>5. /\ stack # <<>> /\ stack' = [stack EXCEPT ![Depth] = b] /\ b.at = Top.at
      /\ b.kind = Top.kind /\ entry' = entry /\ Len(handlers') = e + 1
      /\ \A k \in 1..e : handlers'[k] = handlers[k]
  BY <1>2 DEF InstallMade
<1>6. Good'
  BY <1>1, <1>3, <1>4, <1>5, MovesGood
<1>7. CleanedOnce
  <2>1. \A k \in 1..e : handlers[k].cleaned \in Nat
    BY <1>1, HandlersTyped DEF Shaped, Instances
  <2>2. \A k \in e + 1 + 1..e : FALSE
    BY <1>4
  <2> QED BY <2>1, <2>2, <1>1, <1>5 DEF CleanedOnce
<1>8. FirstFailure
  BY <1>1, <1>4 DEF FirstFailure
<1>9. RowKept /\ EffectAnswered
  <2>1. signal' = None
    BY DEF Install, Evaluating
  <2> QED BY <2>1, SignalKinds DEF RowKept, EffectAnswered
<1> QED BY <1>6, <1>7, <1>8, <1>9 DEF StepGood

-----------------------------------------------------------------------------
(* The invariant *)

LEMMA InitGood == Init => EInv
<1> SUFFICES ASSUME Init PROVE EInv
  OBVIOUS
<1>1. PICK a : /\ stack = <<a>> /\ a.kind \in {"test", "call"} /\ a.handler = 0
               /\ handlers = <<>> /\ a.may = entry
               /\ \/ rows = <<>>
                  \/ \E row : rows = <<row>> /\ row.handled = 0 /\ row.promise = entry
  <2> DEFINE none == [frames |-> 1, rows |-> 0, inside |-> 0, olds |-> 0,
                      entered |-> 0, contract |-> 0, handlers |-> 0]
             root == [kind |-> "test", name |-> <<"test", "fn">>, phase |-> "body",
                      may |-> {}, handler |-> 0, todo |-> <<>>, cursor |-> 0, base |-> 0,
                      incoming |-> None, outcome |-> None, spoiled |-> FALSE, at |-> none]
             call == [root EXCEPT !.kind = "call", !.name = Fn(Main), !.phase = "where",
                                  !.may = Uses[Main]]
             row == [handled |-> 0, handler |-> 0, promise |-> PromiseOf(Main)]
  <2>1. /\ handlers = <<>>
        /\ \/ entry = {} /\ rows = <<>> /\ stack = <<root>>
           \/ entry = Uses[Main] /\ rows = <<row>> /\ stack = <<call>>
    BY DEF Init
  <2>2. /\ root.kind = "test" /\ root.handler = 0 /\ root.may = {}
        /\ call.kind = "call" /\ call.handler = 0 /\ call.may = Uses[Main]
    OBVIOUS
  <2>3. row.handled = 0 /\ row.promise = Uses[Main]
    BY ProgramAssumption DEF PromiseOf
  <2> HIDE DEF none, root, call, row
  <2> QED BY <2>1, <2>2, <2>3
<1>2. TypeOK /\ Balanced
  BY InitOK
<1>3. Depth = 1 /\ stack[1] = a /\ SizesAt(1) = Sizes
  BY <1>1 DEF Depth, SizesAt
<1>4. /\ Sizes.handlers = 0 /\ Sizes.rows = Len(rows) /\ Len(rows) \in {0, 1}
      /\ \A j \in 1..Len(rows) : rows[j].handled = 0 /\ rows[j].promise = entry
  BY <1>1 DEF Sizes
<1>5. Nested /\ Rooted
  <2>1. Sizes \in SizeRecords
    BY <1>2, SizesTyped
  <2>2. Within(Sizes, Sizes)
    BY <2>1 DEF Within, SizeRecords
  <2>3. \A i \in 1..1 : i = 1 /\ \A j \in i..1 : j = 1
    OBVIOUS
  <2> QED BY <1>1, <1>3, <2>2, <2>3 DEF Nested, Rooted
<1>6. entry \subseteq Boundary
  BY <1>2 DEF Boundary, AtTheBoundary, TypeOK, Rows
<1>7. Level(1)
  <2>1. OwnLevel(1) /\ CleanLevel(1) /\ PaidLevel(1)
    BY <1>1, <1>3 DEF OwnLevel, CleanLevel, PaidLevel, InHandlerCode
  <2>2. AnsweredLevel(1)
    BY <1>1, <1>3, <1>4, <1>6 DEF AnsweredLevel, Covered
  <2>3. KeptLevel(1)
    BY <1>1, <1>3, <1>4 DEF KeptLevel, Covered
  <2> QED BY <2>1, <2>2, <2>3 DEF Level
<1>8. Levels
  BY <1>3, <1>7 DEF Levels
<1> QED BY <1>2, <1>5, <1>8 DEF EInv

LEMMA NextGood ==
    ASSUME EInv, [Next]_vars
    PROVE  EInv' /\ (UNCHANGED vars \/ StepGood)
<1>1. TypeOK /\ Balanced /\ Good
  BY DEF EInv, Good
<1>2. (TypeOK /\ Balanced)'
  BY <1>1, NextOK DEF StepOK
<1>3. Shaped
  BY <1>1, <1>2 DEF Shaped
<1>4. CASE UNCHANGED vars
  <2>1. stack' = stack /\ Sizes' = Sizes /\ entry' = entry /\ SameUpTo(Sizes)
    BY <1>4, Unmoved DEF vars, Sizes
  <2>2. Good'
    BY <1>3, <2>1, StaysGood
  <2> QED BY <1>2, <1>4, <2>2 DEF EInv, Good
<1>5. CASE Next /\ ~UNCHANGED vars
  <2>1. ASSUME NEW f \in Functions, NEW lent, Call(f, lent) PROVE StepGood
    BY <1>3, <2>1, CallStep
  <2>2. ASSUME NEW c \in Closures, RunClosure(c[1], c[2]) PROVE StepGood
    <3>1. c[1] \in Functions /\ c[2] \in Rows
      BY ProgramAssumption
    <3> QED BY <1>3, <2>2, <3>1, RunClosureStep
  <2>3. ASSUME NEW o \in Ops, NEW i \in 1..Len(handlers), Dispatch(o, i) PROVE StepGood
    BY <1>3, <2>3, DispatchStep
  <2>4. ASSUME NEW o \in Ops, NoHandler(o) \/ RowNotKept(o) PROVE StepGood
    BY <1>3, <2>4, NoHandlerStep, RowNotKeptStep
  <2>5. ASSUME NEW list \in Lists, EnterWith(list) PROVE StepGood
    BY <1>3, <2>5, EnterWithStep
  <2>6. ASSUME NEW value \in Values, Assign(value) PROVE StepGood
    BY <1>3, <2>6, AssignStep
  <2>7. ASSUME Return \/ Unchanged \/ \E kind \in Faults : Fail(kind) PROVE StepGood
    BY <1>3, <2>7, PlainSteps
  <2>8. ASSUME RequiresHold \/ Captured PROVE StepGood
    BY <1>3, <2>8, PhasesStep
  <2>9. ASSUME BodyEnds \/ EnsuresHold \/ CallUnwinds PROVE StepGood
    BY <1>3, <2>9, CallEndsStep
  <2>10. ASSUME ClosureEnds \/ RefusesEnds \/ TestEnds \/ EnterRefuses PROVE StepGood
    BY <1>3, <2>10, PlainEndsStep, TestEndsStep, EnterRefusesStep
  <2>11. ASSUME Install \/ StartCleanup \/ RunFinally \/ FinallyEnds \/ LeaveWith PROVE StepGood
    BY <1>3, <2>11, InstallStep, StartCleanupStep, RunFinallyStep, FinallyEndsStep, LeaveWithStep
  <2>12. StepGood
    BY <1>5, <2>1, <2>2, <2>3, <2>4, <2>5, <2>6, <2>7, <2>8, <2>9, <2>10, <2>11
       DEF Next, Finished
  <2> QED BY <1>2, <2>12 DEF StepGood, EInv, Good
<1> QED BY <1>4, <1>5

-----------------------------------------------------------------------------
(* The theorems *)

LEMMA EInvHolds == Spec => []EInv
<1>1. EInv /\ [Next]_vars => EInv'
  BY NextGood
<1> QED BY InitGood, <1>1, PTL DEF Spec

\* Whatever calls, blocks and cleanups came in between, the code of a handler
\* reads and assigns the state of the instance it runs for (read_state and
\* Stmt::Assign, through inside_handler).
THEOREM OwnStateHolds == Spec => []OwnState
<1>1. EInv => OwnState
  <2> SUFFICES ASSUME EInv, Evaluating, InHandlerCode(Top)
               PROVE  /\ Len(insideHandler) > 0
                      /\ Last(insideHandler) = Top.handler
                      /\ handlers[Top.handler].handler = Top.name[1]
    BY DEF OwnState
  <2>1. TypeOK /\ Balanced /\ Good /\ stack # <<>>
    BY DEF EInv, Good, Evaluating
  <2> QED BY <2>1, TopOwn DEF Last
<1> QED BY EInvHolds, <1>1, PTL

\* In every program, `finally` runs exactly once for each installed handler
\* that has one, the last installed first, before the handler is removed and
\* however its `with` ends (run_finally_blocks).
THEOREM CleanedUpOnce == Spec => CleanupOnce
<1>1. EInv /\ [Next]_vars => [CleanedOnce]_vars
  BY NextGood DEF StepGood
<1> QED BY EInvHolds, <1>1, PTL DEF Spec, CleanupOnce, CleanedOnce

\* In every program the failure that ended the body of a `with` is what its
\* caller sees, whatever the `finally` blocks did (run_finally_blocks).
THEOREM FirstFailureWins == Spec => OriginalFailureKept
<1>1. EInv /\ [Next]_vars => [FirstFailure]_vars
  BY NextGood DEF StepGood
<1> QED BY EInvHolds, <1>1, PTL DEF Spec, OriginalFailureKept, FirstFailure

\* No program the effect checker accepts is stopped by check_row, except while
\* a `with` is partly installed: a row that is asked covers what is performed
\* (ROW_NOT_KEPT).
THEOREM RowsKept == Spec => RowsAreKept
<1>1. EInv /\ [Next]_vars => [RowKept]_vars
  BY NextGood DEF StepGood
<1> QED BY EInvHolds, <1>1, PTL DEF Spec, RowsAreKept, RowKept

\* No program the effect checker accepts performs an operation nobody answers,
\* with the same exception (NO_HANDLER, reaches_the_boundary).
THEOREM EffectsAnswered == Spec => EffectsAreAnswered
<1>1. EInv /\ [Next]_vars => [EffectAnswered]_vars
  BY NextGood DEF StepGood
<1> QED BY EInvHolds, <1>1, PTL DEF Spec, EffectsAreAnswered, EffectAnswered

=============================================================================
