------------------------ MODULE CompiledScopesProofs ------------------------
(***************************************************************************)
(* Theorems about CompiledScopes.                                           *)
(***************************************************************************)
EXTENDS CompiledScopes, FiniteSetTheorems, WellFoundedInduction, TLAPS

-----------------------------------------------------------------------------
(* Numbers and sequences.                                                  *)

\* A set of numbers that is not empty has a least one.
LEMMA Smallest ==
    ASSUME NEW S, S \subseteq Nat, S # {}
    PROVE  \E x \in S : \A y \in S : x <= y
<1> DEFINE R == {ss \in Nat \X Nat : ss[1] < ss[2]}
<1>1. IsWellFoundedOn(R, Nat)  BY NatLessThanWellFounded DEF OpToRel
<1>2. \A x, y \in S : y < x => <<y, x>> \in R  OBVIOUS
<1> HIDE DEF R
<1>3. PICK x \in S : \A y \in S : ~ (<<y, x>> \in R)  BY <1>1, WFMin
<1>4. ASSUME NEW y \in S PROVE x <= y
  <2>1. x \in Nat /\ y \in Nat  OBVIOUS
  <2>2. ~ (y < x)  BY <1>2, <1>3
  <2> QED BY <2>1, <2>2
<1> QED BY <1>4

\* The greatest of a set of numbers with a bound.
LEMMA MaxIsGreatest ==
    ASSUME NEW n \in Nat, NEW S, S \subseteq 1..n, S # {}
    PROVE  Max(S) \in S /\ \A k \in S : k <= Max(S)
<1> DEFINE Bounds == {m \in Nat : \A k \in S : k <= m}
<1>1. Bounds \subseteq Nat /\ n \in Bounds  OBVIOUS
<1>2. PICK m \in Bounds : \A b \in Bounds : m <= b  BY <1>1, Smallest
<1>3. m \in S
  <2> SUFFICES ASSUME m \notin S PROVE FALSE  OBVIOUS
  <2>1. \A k \in S : k \in Nat /\ k >= 1 /\ k <= m /\ k # m  BY <1>2
  <2>4. PICK k \in S : TRUE  OBVIOUS
  <2>5. m \in Nat /\ m - 1 \in Nat  BY <2>1, <2>4
  <2>2. \A l \in S : l <= m - 1  BY <2>1, <2>5
  <2>3. m - 1 \in Bounds  BY <2>2, <2>5
  <2> QED BY <1>2, <2>3, <2>5
<1>4. \A k \in S : m >= k  BY <1>2
<1>5. \A k \in S : k \in Nat  OBVIOUS
<1> HIDE DEF Bounds
<1>6. Max(S) \in S /\ \A k \in S : Max(S) >= k  BY <1>3, <1>4 DEF Max
<1> QED BY <1>5, <1>6

LEMMA MaxIs ==
    ASSUME NEW n \in Nat, NEW S, S \subseteq 1..n, NEW x \in S, \A k \in S : k <= x
    PROVE  Max(S) = x
<1>1. Max(S) \in S /\ \A k \in S : k <= Max(S)  BY MaxIsGreatest
<1>5. \A k \in S : k \in Nat  OBVIOUS
<1>2. x \in Nat /\ Max(S) \in Nat  BY <1>1, <1>5
<1>3. x <= Max(S)  BY <1>1
<1>4. Max(S) <= x  BY <1>1
<1> QED BY <1>2, <1>3, <1>4

LEMMA OntoIs ==
    ASSUME NEW T, NEW x \in T, NEW s \in Seq(T)
    PROVE  /\ Onto(x, s) \in Seq(T)
           /\ Len(Onto(x, s)) = Len(s) + 1
           /\ Onto(x, s)[1] = x
           /\ \A i \in 1..Len(s) : Onto(x, s)[i + 1] = s[i]
BY DEF Onto

LEMMA OntoRoom == \A f \in Room, s \in Seq(Room) :
    /\ Len(Onto(f, s)) = Len(s) + 1 /\ Onto(f, s)[1] = f
    /\ \A q \in 1..Len(s) : Onto(f, s)[q + 1] = s[q]
BY OntoIs

LEMMA RoomIs == Room \subseteq Nat /\ 0 \notin Room /\ (\A a \in Room : a <= HEAP_START)
BY LayoutAssumption DEF Room

-----------------------------------------------------------------------------
(* The walk along the frames is defined for every memory.                  *)
Step(f, x) == IF x \in Room /\ memory[x] \in 0..(x - 1) THEN Onto(x, f[memory[x]]) ELSE <<>>
Walks(f, n) == f \in [0..n -> Seq(Room)] /\ \A x \in 0..n : f[x] = Step(f, x)

LEMMA WalkExtends ==
    ASSUME NEW n \in Nat, NEW f, Walks(f, n)
    PROVE  \E g : Walks(g, n + 1)
<1> DEFINE g == [x \in 0..(n + 1) |-> IF x <= n THEN f[x] ELSE Step(f, x)]
<1>1. ASSUME NEW x \in 0..(n + 1) PROVE Step(g, x) = Step(f, x)
  <2>1. CASE x \in Room /\ memory[x] \in 0..(x - 1)
    <3>1. memory[x] \in 0..n /\ memory[x] \in 0..(n + 1) /\ memory[x] <= n  BY <2>1
    <3>2. g[memory[x]] = f[memory[x]]  BY <3>1
    <3> QED BY <3>2 DEF Step
  <2>2. CASE ~ (x \in Room /\ memory[x] \in 0..(x - 1))  BY <2>2 DEF Step
  <2> QED BY <2>1, <2>2
<1>2. ASSUME NEW x \in 0..(n + 1) PROVE Step(f, x) \in Seq(Room)
  <2>1. CASE x \in Room /\ memory[x] \in 0..(x - 1)
    <3>1. memory[x] \in 0..n  BY <2>1
    <3>2. f[memory[x]] \in Seq(Room)  BY <3>1 DEF Walks
    <3> QED BY <2>1, <3>2, OntoIs DEF Step
  <2>2. CASE ~ (x \in Room /\ memory[x] \in 0..(x - 1))  BY <2>2 DEF Step
  <2> QED BY <2>1, <2>2
<1>3. ASSUME NEW x \in 0..(n + 1) PROVE g[x] = Step(f, x)
  <2>1. CASE x <= n  BY <2>1 DEF Walks
  <2>2. CASE ~ (x <= n)  BY <2>2
  <2> QED BY <2>1, <2>2
<1>4. g \in [0..(n + 1) -> Seq(Room)]  BY <1>2, <1>3
<1> HIDE DEF g
<1> QED BY <1>1, <1>3, <1>4 DEF Walks

LEMMA WalkExists == \A n \in Nat : \E f : Walks(f, n)
<1> DEFINE None == {n \in Nat : ~ \E f : Walks(f, n)}
<1> SUFFICES ASSUME None # {} PROVE FALSE  OBVIOUS
<1>1. PICK n \in None : \A m \in None : n <= m  BY Smallest
<1>2. CASE n = 0
  <2> DEFINE f == [x \in 0..0 |-> <<>>]
  <2>1. \A x \in 0..0 : x \notin Room  BY RoomIs
  <2>2. f \in [0..0 -> Seq(Room)] /\ \A x \in 0..0 : f[x] = Step(f, x)  BY <2>1 DEF Step
  <2> QED BY <1>2, <2>2 DEF Walks
<1>3. CASE n # 0
  <2>1. n - 1 \in Nat /\ n - 1 \notin None  BY <1>1, <1>3
  <2>2. PICK f : Walks(f, n - 1)  BY <2>1
  <2>3. \E g : Walks(g, (n - 1) + 1)  BY <2>1, <2>2, WalkExtends
  <2> QED BY <2>3
<1> QED BY <1>2, <1>3

\* What a walk from a word meets: that word's frame, and what a walk from the
\* next one meets.
LEMMA ChainIs ==
    ASSUME NEW from \in 0..HEAP_START
    PROVE  /\ Chain[from] \in Seq(Room)
           /\ from \in Room /\ memory[from] \in 0..(from - 1)
                => Chain[from] = Onto(from, Chain[memory[from]])
           /\ ~ (from \in Room /\ memory[from] \in 0..(from - 1)) => Chain[from] = <<>>
<1>1. PICK f : Walks(f, HEAP_START)  BY WalkExists, LayoutAssumption
<1>2. f = [x \in 0..HEAP_START |-> Step(f, x)]  BY <1>1 DEF Walks
<1>3. Chain = [x \in 0..HEAP_START |-> Step(Chain, x)]
  <2> DEFINE Whole(g) == g = [x \in 0..HEAP_START |->
                 IF x \in Room /\ memory[x] \in 0..(x - 1) THEN Onto(x, g[memory[x]]) ELSE <<>>]
  <2>1. Whole(f)  BY <1>2 DEF Step
  <2>2. Chain = CHOOSE g : Whole(g)  BY DEF Chain
  <2> HIDE DEF Whole
  <2>3. Whole(Chain)  BY <2>1, <2>2
  <2> QED BY <2>3 DEF Whole, Step
<1>4. \A x \in 0..HEAP_START : Chain[x] = Step(Chain, x)  BY <1>3
<1>5. \A x \in 0..HEAP_START : Chain[x] \in Seq(Room)
  <2> DEFINE Odd == {x \in 0..HEAP_START : Chain[x] \notin Seq(Room)}
  <2> SUFFICES ASSUME Odd # {} PROVE FALSE  OBVIOUS
  <2>1. Odd \subseteq Nat  BY LayoutAssumption
  <2>2. PICK x \in Odd : \A y \in Odd : x <= y  BY <2>1, Smallest
  <2>5. x \in 0..HEAP_START /\ Chain[x] \notin Seq(Room)  OBVIOUS
  <2>6. Chain[x] = Step(Chain, x)  BY <1>4, <2>5
  <2>3. CASE x \in Room /\ memory[x] \in 0..(x - 1)
    <3>1. memory[x] \in 0..HEAP_START /\ memory[x] < x /\ memory[x] \notin Odd
      BY <2>2, <2>3, LayoutAssumption
    <3>2. Chain[memory[x]] \in Seq(Room)  BY <3>1
    <3> QED BY <2>3, <2>5, <2>6, <3>2, OntoIs DEF Step
  <2>4. CASE ~ (x \in Room /\ memory[x] \in 0..(x - 1))  BY <2>4, <2>5, <2>6 DEF Step
  <2> QED BY <2>3, <2>4
<1> QED BY <1>4, <1>5 DEF Step

-----------------------------------------------------------------------------
(* The invariant, over what is under way `t` and the memory `m`.            *)
Items ==
    [kind : {"call", "host"}]
    \cup [kind : {"fields"}, handler : Handlers, mark : Nat, held : Nat, n : Nat]
    \cup [kind : {"body"}, mark : Nat, frame : Nat]
    \cup [kind : {"args"}, effect : Effects, op : Nat, cursor : Nat]
    \cup [kind : {"op"}, cell : Nat, code : Nat]

Memories == [Room -> Int]
IsBlock(x) == x.kind = "body"
IsOpen(x) == x.kind \in Open
BlocksIn(t, i) == {j \in 1..(i - 1) : IsBlock(t[j])}
OpensIn(t, i) == {j \in 1..(i - 1) : IsOpen(t[j])}

HandlerIn(m, frame) == HandlerOf(m[frame + 3])
EndIn(m, x) == IF x.kind = "fields" THEN x.held + Fields[x.handler]
               ELSE x.frame + FrameSize(HandlerIn(m, x.frame))

\* The innermost frame below a place, where what is open below it ends, and the
\* frame below it that answers for an effect.
Linked(t, i) == IF BlocksIn(t, i) = {} THEN 0 ELSE t[Max(BlocksIn(t, i))].frame
EndUnder(t, m, i) == IF OpensIn(t, i) = {} THEN FRAME_START ELSE EndIn(m, t[Max(OpensIn(t, i))])
AnswersIn(t, m, i, e) == {j \in BlocksIn(t, i) : m[t[j].frame + 1] = e}
Answerer(t, m, i, e) ==
    IF AnswersIn(t, m, i, e) = {} THEN 0 ELSE t[Max(AnswersIn(t, m, i, e))].frame

\* Everything open below the place is below the address, and ends at it.
Above(t, m, i, at) ==
    /\ at = EndUnder(t, m, i)
    /\ FRAME_START <= at
    /\ \A j \in OpensIn(t, i) : EndIn(m, t[j]) <= at

Reserved(x) ==
    /\ x.held = x.mark
    /\ x.n \in 0..Fields[x.handler]
    /\ x.mark + Fields[x.handler] <= HEAP_START

\* A frame as Install lays it out.
Laid(m, x) ==
    LET h == HandlerIn(m, x.frame)
    IN  /\ h \in Handlers
        /\ x.frame = x.mark + Fields[h]
        /\ x.frame + FrameSize(h) <= HEAP_START
        /\ m[x.frame + 1] = EffectOf[h]
        /\ m[x.frame + 2] = x.mark
        /\ \A o \in 1..Operations[EffectOf[h]] : m[x.frame + 2 + o] = Codes[h][o]

GoodFields(t, m, i) ==
    t[i].kind = "fields" => Reserved(t[i]) /\ Above(t, m, i, t[i].mark)
GoodBlock(t, m, i) ==
    t[i].kind = "body" =>
        Laid(m, t[i]) /\ Above(t, m, i, t[i].mark) /\ m[t[i].frame] = Linked(t, i)
GoodArgs(t, m, i) ==
    t[i].kind = "args" =>
        /\ t[i].op \in 1..Operations[t[i].effect]
        /\ t[i].cursor = Answerer(t, m, i, t[i].effect)
        /\ t[i].cursor = 0 => Hosted(t[i].effect)
GoodOperation(t, m, i) ==
    t[i].kind = "op" =>
        \E j \in BlocksIn(t, i) :
            t[i].cell = t[j].mark /\ HandlerIn(m, t[j].frame) = HandlerOf(t[i].code)
GoodHost(t, i) ==
    t[i].kind = "host" => i = Len(t) /\ i > 1 /\ t[i - 1].kind \in {"call", "op"}
Good(t, m, i) ==
    /\ GoodFields(t, m, i) /\ GoodBlock(t, m, i) /\ GoodArgs(t, m, i)
    /\ GoodOperation(t, m, i) /\ GoodHost(t, i)

Stacked(t, m) ==
    /\ t \in Seq(Items) /\ m \in Memories
    /\ t # <<>> => t[1].kind = "call"
    /\ \A i \in 1..Len(t) : Good(t, m, i)

Inv ==
    /\ Stacked(todo, memory)
    /\ trapped \in {"no", "nobody", "room"}
    /\ frameBump \in FRAME_START..HEAP_START
    /\ Above(todo, memory, Len(todo) + 1, frameBump)
    /\ handlers = Linked(todo, Len(todo) + 1)

-----------------------------------------------------------------------------
(* Lemmas about one state.                                                 *)

\* A handler is found by any of its functions.
LEMMA HandlerOfCode ==
    ASSUME NEW h \in Handlers, NEW o \in 1..Operations[EffectOf[h]]
    PROVE  HandlerOf(Codes[h][o]) = h
<1>1. Codes[h] \in [1..Operations[EffectOf[h]] -> Nat]  BY HandlersAssumption
<1>2. Codes[h][o] \in Range(Codes[h])  BY <1>1 DEF Range
<1>3. \A k \in Handlers : Codes[h][o] \in Range(Codes[k]) => h = k
  <2> SUFFICES ASSUME NEW k \in Handlers, Codes[h][o] \in Range(Codes[k]) PROVE h = k
    OBVIOUS
  <2>1. Range(Codes[h]) \cap Range(Codes[k]) # {}  BY <1>2
  <2> QED BY <2>1, HandlersAssumption
<1> QED BY <1>2, <1>3 DEF HandlerOf

LEMMA HandlerIs ==
    ASSUME NEW h \in Handlers
    PROVE  /\ EffectOf[h] \in Effects /\ Fields[h] \in Nat
           /\ Operations[EffectOf[h]] \in Nat /\ Operations[EffectOf[h]] >= 1
           /\ FrameSize(h) \in Nat /\ FrameSize(h) = 3 + Operations[EffectOf[h]]
<1>1. EffectOf[h] \in Effects /\ Fields[h] \in Nat  BY HandlersAssumption
<1>2. Operations[EffectOf[h]] \in Nat \ {0}  BY <1>1, HandlersAssumption
<1>3. FrameSize(h) = 3 + Operations[EffectOf[h]]  BY DEF FrameSize
<1> QED BY <1>1, <1>2, <1>3

LEMMA ItemIs ==
    ASSUME NEW x \in Items
    PROVE  /\ x.kind \in {"call", "host", "fields", "body", "args", "op"}
           /\ x.kind = "fields" => x.handler \in Handlers /\ x.mark \in Nat /\ x.held \in Nat /\ x.n \in Nat
           /\ x.kind = "body" => x.mark \in Nat /\ x.frame \in Nat
           /\ x.kind = "args" => x.effect \in Effects /\ x.op \in Nat /\ x.cursor \in Nat
           /\ x.kind = "op" => x.cell \in Nat /\ x.code \in Nat
           /\ IsOpen(x) <=> x.kind \in {"fields", "body"}
           /\ IsBlock(x) <=> x.kind = "body"
BY DEF Items, IsOpen, IsBlock, Open

\* What is open below a place, one place further up.
LEMMA Higher ==
    ASSUME NEW t \in Seq(Items), NEW k \in 1..Len(t)
    PROVE  /\ BlocksIn(t, k + 1) = IF IsBlock(t[k]) THEN BlocksIn(t, k) \cup {k} ELSE BlocksIn(t, k)
           /\ OpensIn(t, k + 1) = IF IsOpen(t[k]) THEN OpensIn(t, k) \cup {k} ELSE OpensIn(t, k)
BY DEF BlocksIn, OpensIn

LEMMA Below ==
    ASSUME NEW t \in Seq(Items), NEW i \in 1..(Len(t) + 1)
    PROVE  /\ BlocksIn(t, i) \subseteq 1..(i - 1) /\ OpensIn(t, i) \subseteq 1..(i - 1)
           /\ BlocksIn(t, i) \subseteq OpensIn(t, i)
           /\ i - 1 \in Nat /\ \A j \in 1..(i - 1) : j \in 1..Len(t) /\ j \in Nat
BY DEF BlocksIn, OpensIn, IsBlock, IsOpen, Open

LEMMA LinkedAbove ==
    ASSUME NEW t \in Seq(Items), NEW k \in 1..Len(t)
    PROVE  Linked(t, k + 1) = IF IsBlock(t[k]) THEN t[k].frame ELSE Linked(t, k)
<1>1. CASE IsBlock(t[k])
  <2>1. BlocksIn(t, k + 1) = BlocksIn(t, k) \cup {k}  BY <1>1, Higher
  <2>2. BlocksIn(t, k + 1) \subseteq 1..k /\ k \in Nat  BY DEF BlocksIn
  <2>3. \A j \in BlocksIn(t, k + 1) : j <= k  BY <2>2
  <2>4. Max(BlocksIn(t, k + 1)) = k  BY <2>1, <2>2, <2>3, MaxIs
  <2> QED BY <1>1, <2>1, <2>4 DEF Linked
<1>2. CASE ~ IsBlock(t[k])
  <2>1. BlocksIn(t, k + 1) = BlocksIn(t, k)  BY <1>2, Higher
  <2> QED BY <1>2, <2>1 DEF Linked
<1> QED BY <1>1, <1>2

LEMMA EndAbove ==
    ASSUME NEW t \in Seq(Items), NEW m, NEW k \in 1..Len(t)
    PROVE  EndUnder(t, m, k + 1) = IF IsOpen(t[k]) THEN EndIn(m, t[k]) ELSE EndUnder(t, m, k)
<1>1. CASE IsOpen(t[k])
  <2>1. OpensIn(t, k + 1) = OpensIn(t, k) \cup {k}  BY <1>1, Higher
  <2>2. OpensIn(t, k + 1) \subseteq 1..k /\ k \in Nat  BY DEF OpensIn
  <2>3. \A j \in OpensIn(t, k + 1) : j <= k  BY <2>2
  <2>4. Max(OpensIn(t, k + 1)) = k  BY <2>1, <2>2, <2>3, MaxIs
  <2> QED BY <1>1, <2>1, <2>4 DEF EndUnder
<1>2. CASE ~ IsOpen(t[k])
  <2>1. OpensIn(t, k + 1) = OpensIn(t, k)  BY <1>2, Higher
  <2> QED BY <1>2, <2>1 DEF EndUnder
<1> QED BY <1>1, <1>2

\* A frame is in the frame stack, above all that was open before it.
LEMMA FrameIs ==
    ASSUME NEW t, NEW m, Stacked(t, m), NEW i \in 1..Len(t), t[i].kind = "body"
    PROVE  /\ HandlerIn(m, t[i].frame) \in Handlers
           /\ t[i].frame \in Nat /\ t[i].mark \in Nat
           /\ FRAME_START <= t[i].mark /\ t[i].mark <= t[i].frame
           /\ t[i].frame + 4 <= EndIn(m, t[i]) /\ EndIn(m, t[i]) <= HEAP_START
           /\ EndIn(m, t[i]) = t[i].frame + FrameSize(HandlerIn(m, t[i].frame))
           /\ t[i].frame \in Room /\ t[i].frame > 0
<1>1. Laid(m, t[i]) /\ Above(t, m, i, t[i].mark)  BY DEF Stacked, Good, GoodBlock
<1>2. t[i] \in Items  BY DEF Stacked
<1>3. t[i].frame \in Nat /\ t[i].mark \in Nat  BY <1>2, ItemIs
<1> DEFINE h == HandlerIn(m, t[i].frame)
<1>4. h \in Handlers /\ t[i].frame = t[i].mark + Fields[h] /\ t[i].frame + FrameSize(h) <= HEAP_START
  BY <1>1 DEF Laid
<1>5. FRAME_START <= t[i].mark  BY <1>1 DEF Above
<1>6. EndIn(m, t[i]) = t[i].frame + FrameSize(h)  BY DEF EndIn
<1> HIDE DEF h
<1>7. Fields[h] \in Nat /\ FrameSize(h) \in Nat /\ FrameSize(h) >= 4  BY <1>4, HandlerIs
<1>8. t[i].mark <= t[i].frame  BY <1>3, <1>4, <1>7
<1>9. t[i].frame + 4 <= EndIn(m, t[i]) /\ EndIn(m, t[i]) <= HEAP_START  BY <1>3, <1>4, <1>6, <1>7
<1>10. t[i].frame \in Room /\ t[i].frame > 0
  BY <1>3, <1>4, <1>5, <1>7, <1>8, LayoutAssumption DEF Room
<1> QED BY <1>3, <1>4, <1>5, <1>6, <1>8, <1>9, <1>10 DEF h

-----------------------------------------------------------------------------
(* What stays when the top of `todo` changes, and the memory below it does  *)
(* not.                                                                     *)
Agree(t, u, n) == n \in Nat /\ n <= Len(t) /\ n <= Len(u) /\ \A j \in 1..n : u[j] = t[j]
SameFrames(t, m, w, n) ==
    \A j \in 1..n : t[j].kind = "body" =>
        \A a \in t[j].frame..(EndIn(m, t[j]) - 1) : w[a] = m[a]

Kept(t, u, m, w, n) ==
    /\ \A j \in 1..n : t[j].kind = "body" =>
          /\ \A a \in 0..3 : w[t[j].frame + a] = m[t[j].frame + a]
          /\ HandlerIn(w, t[j].frame) = HandlerIn(m, t[j].frame)
    /\ \A j \in 1..n : IsOpen(t[j]) => EndIn(w, u[j]) = EndIn(m, t[j])
    /\ \A i \in 1..(n + 1) :
          /\ BlocksIn(u, i) = BlocksIn(t, i) /\ OpensIn(u, i) = OpensIn(t, i)
          /\ Linked(u, i) = Linked(t, i)
          /\ EndUnder(u, w, i) = EndUnder(t, m, i)
          /\ \A e \in Effects : AnswersIn(u, w, i, e) = AnswersIn(t, m, i, e)
          /\ \A e \in Effects : Answerer(u, w, i, e) = Answerer(t, m, i, e)
          /\ \A at : Above(t, m, i, at) => Above(u, w, i, at)

LEMMA SameBelow ==
    ASSUME NEW t, NEW u \in Seq(Items), NEW m, NEW w \in Memories, NEW n,
           Stacked(t, m), Agree(t, u, n), SameFrames(t, m, w, n)
    PROVE  Kept(t, u, m, w, n)
<1>0. /\ t \in Seq(Items) /\ n \in Nat /\ n <= Len(t) /\ n <= Len(u)
      /\ \A j \in 1..n : u[j] = t[j] /\ j \in 1..Len(t) /\ t[j] \in Items
  BY DEF Stacked, Agree
<1>1. ASSUME NEW j \in 1..n, t[j].kind = "body"
      PROVE  /\ \A a \in 0..3 : w[t[j].frame + a] = m[t[j].frame + a]
             /\ HandlerIn(w, t[j].frame) = HandlerIn(m, t[j].frame)
             /\ EndIn(w, t[j]) = EndIn(m, t[j])
  <2>1. t[j].frame \in Nat /\ t[j].frame + 4 <= EndIn(m, t[j])
        /\ EndIn(m, t[j]) = t[j].frame + FrameSize(HandlerIn(m, t[j].frame))
        /\ HandlerIn(m, t[j].frame) \in Handlers
    BY <1>0, <1>1, FrameIs
  <2>2. EndIn(m, t[j]) \in Nat  BY <2>1, HandlerIs
  <2>3. ASSUME NEW a \in 0..3 PROVE w[t[j].frame + a] = m[t[j].frame + a]
    <3>1. t[j].frame + a \in t[j].frame..(EndIn(m, t[j]) - 1)  BY <2>1, <2>2
    <3> QED BY <1>1, <3>1 DEF SameFrames
  <2>4. HandlerIn(w, t[j].frame) = HandlerIn(m, t[j].frame)  BY <2>3 DEF HandlerIn
  <2>5. EndIn(w, t[j]) = EndIn(m, t[j])  BY <1>1, <2>4 DEF EndIn
  <2> QED BY <2>3, <2>4, <2>5
<1>2. ASSUME NEW j \in 1..n, IsOpen(t[j]) PROVE EndIn(w, u[j]) = EndIn(m, t[j])
  <2>1. t[j].kind \in {"fields", "body"} /\ u[j] = t[j]  BY <1>0, <1>2, ItemIs
  <2>2. CASE t[j].kind = "fields"  BY <2>1, <2>2 DEF EndIn
  <2>3. CASE t[j].kind = "body"  BY <2>1, <2>3, <1>1
  <2> QED BY <2>1, <2>2, <2>3
<1>3. ASSUME NEW i \in 1..(n + 1)
      PROVE  /\ BlocksIn(u, i) = BlocksIn(t, i) /\ OpensIn(u, i) = OpensIn(t, i)
             /\ Linked(u, i) = Linked(t, i)
             /\ EndUnder(u, w, i) = EndUnder(t, m, i)
             /\ \A e \in Effects : AnswersIn(u, w, i, e) = AnswersIn(t, m, i, e)
             /\ \A e \in Effects : Answerer(u, w, i, e) = Answerer(t, m, i, e)
             /\ \A at : Above(t, m, i, at) => Above(u, w, i, at)
  <2>1. \A j \in 1..(i - 1) : j \in 1..n  BY <1>0
  <2>2. BlocksIn(u, i) = BlocksIn(t, i) /\ OpensIn(u, i) = OpensIn(t, i)
    BY <1>0, <2>1 DEF BlocksIn, OpensIn
  <2>3. /\ BlocksIn(t, i) \subseteq 1..(i - 1) /\ OpensIn(t, i) \subseteq 1..(i - 1) /\ i - 1 \in Nat
        /\ \A j \in BlocksIn(t, i) : t[j].kind = "body" /\ j \in 1..n
        /\ \A j \in OpensIn(t, i) : IsOpen(t[j]) /\ j \in 1..n
    BY <1>0, <2>1 DEF BlocksIn, OpensIn, IsBlock
  <2>4. Linked(u, i) = Linked(t, i)
    <3>1. CASE BlocksIn(t, i) # {}
      <4>1. Max(BlocksIn(t, i)) \in BlocksIn(t, i)  BY <2>3, <3>1, MaxIsGreatest
      <4>2. u[Max(BlocksIn(t, i))] = t[Max(BlocksIn(t, i))]  BY <1>0, <2>3, <4>1
      <4> QED BY <2>2, <4>2 DEF Linked
    <3>2. CASE BlocksIn(t, i) = {}  BY <2>2, <3>2 DEF Linked
    <3> QED BY <3>1, <3>2
  <2>5. EndUnder(u, w, i) = EndUnder(t, m, i)
    <3>1. CASE OpensIn(t, i) # {}
      <4>1. Max(OpensIn(t, i)) \in OpensIn(t, i)  BY <2>3, <3>1, MaxIsGreatest
      <4>2. EndIn(w, u[Max(OpensIn(t, i))]) = EndIn(m, t[Max(OpensIn(t, i))])  BY <1>2, <2>3, <4>1
      <4> QED BY <2>2, <4>2 DEF EndUnder
    <3>2. CASE OpensIn(t, i) = {}  BY <2>2, <3>2 DEF EndUnder
    <3> QED BY <3>1, <3>2
  <2>6. ASSUME NEW e \in Effects PROVE AnswersIn(u, w, i, e) = AnswersIn(t, m, i, e)
    <3>1. \A j \in BlocksIn(t, i) : w[u[j].frame + 1] = m[t[j].frame + 1]
      BY <1>0, <1>1, <2>3
    <3> QED BY <2>2, <3>1 DEF AnswersIn
  <2>7. ASSUME NEW e \in Effects PROVE Answerer(u, w, i, e) = Answerer(t, m, i, e)
    <3>1. CASE AnswersIn(t, m, i, e) # {}
      <4>1. AnswersIn(t, m, i, e) \subseteq BlocksIn(t, i)  BY DEF AnswersIn
      <4>2. Max(AnswersIn(t, m, i, e)) \in AnswersIn(t, m, i, e)
        BY <2>3, <3>1, <4>1, MaxIsGreatest
      <4>3. u[Max(AnswersIn(t, m, i, e))] = t[Max(AnswersIn(t, m, i, e))]  BY <1>0, <2>3, <4>1, <4>2
      <4> QED BY <2>6, <4>3 DEF Answerer
    <3>2. CASE AnswersIn(t, m, i, e) = {}  BY <2>6, <3>2 DEF Answerer
    <3> QED BY <3>1, <3>2
  <2>8. ASSUME NEW at, Above(t, m, i, at) PROVE Above(u, w, i, at)
    <3>1. \A j \in OpensIn(t, i) : EndIn(w, u[j]) = EndIn(m, t[j])  BY <1>2, <2>3
    <3> QED BY <2>2, <2>5, <2>8, <3>1 DEF Above
  <2> QED BY <2>2, <2>4, <2>5, <2>6, <2>7, <2>8
<1> QED BY <1>1, <1>2, <1>3 DEF Kept

LEMMA GoodBelow ==
    ASSUME NEW t, NEW u \in Seq(Items), NEW m, NEW w \in Memories, NEW n,
           Stacked(t, m), Agree(t, u, n), SameFrames(t, m, w, n),
           NEW i \in 1..n, t[i].kind # "host"
    PROVE  Good(u, w, i)
<1>0. /\ t \in Seq(Items) /\ n \in Nat /\ n <= Len(t) /\ i \in 1..Len(t) /\ i \in 1..(n + 1)
      /\ u[i] = t[i] /\ t[i] \in Items /\ Good(t, m, i)
  BY DEF Stacked, Agree
<1>9. /\ \A j \in 1..n : t[j].kind = "body" =>
            /\ \A a \in 0..3 : w[t[j].frame + a] = m[t[j].frame + a]
            /\ HandlerIn(w, t[j].frame) = HandlerIn(m, t[j].frame)
      /\ BlocksIn(u, i) = BlocksIn(t, i)
      /\ Linked(u, i) = Linked(t, i)
      /\ \A e \in Effects : Answerer(u, w, i, e) = Answerer(t, m, i, e)
      /\ \A at : Above(t, m, i, at) => Above(u, w, i, at)
  <2>1. Kept(t, u, m, w, n)  BY SameBelow
  <2> QED BY <1>0, <2>1 DEF Kept
<1>1. GoodFields(u, w, i)
  BY <1>0, <1>9 DEF Good, GoodFields
<1>2. GoodBlock(u, w, i)
  <2> SUFFICES ASSUME t[i].kind = "body"
               PROVE  Laid(w, t[i]) /\ Above(u, w, i, t[i].mark) /\ w[t[i].frame] = Linked(u, i)
    BY <1>0 DEF GoodBlock
  <2>1. Laid(m, t[i]) /\ Above(t, m, i, t[i].mark) /\ m[t[i].frame] = Linked(t, i)
    BY <1>0 DEF Good, GoodBlock
  <2>2. Above(u, w, i, t[i].mark)  BY <1>0, <2>1, <1>9
  <2>3. Linked(u, i) = Linked(t, i)  BY <1>0, <1>9
  <2>4. \A a \in 0..3 : w[t[i].frame + a] = m[t[i].frame + a]  BY <1>9
  <2>5. HandlerIn(w, t[i].frame) = HandlerIn(m, t[i].frame)  BY <1>9
  <2>6. /\ HandlerIn(m, t[i].frame) \in Handlers /\ t[i].frame \in Nat
        /\ EndIn(m, t[i]) = t[i].frame + FrameSize(HandlerIn(m, t[i].frame))
    BY <1>0, FrameIs
  <2> DEFINE h == HandlerIn(m, t[i].frame)
  <2>7. FrameSize(h) = 3 + Operations[EffectOf[h]] /\ Operations[EffectOf[h]] \in Nat  BY <2>6, HandlerIs
  <2>8. ASSUME NEW o \in 1..Operations[EffectOf[h]]
        PROVE  w[t[i].frame + 2 + o] = m[t[i].frame + 2 + o]
    <3> DEFINE f == t[i].frame  count == Operations[EffectOf[h]]  end == EndIn(m, t[i])
    <3>2. f \in Nat /\ count \in Nat /\ end = f + (3 + count) /\ o \in 1..count
      BY <2>6, <2>7
    <3> HIDE DEF f, count, end
    <3>3. f + 2 + o \in f..(end - 1)  BY <3>2
    <3>1. t[i].frame + 2 + o \in t[i].frame..(EndIn(m, t[i]) - 1)  BY <3>3 DEF f, end
    <3> QED BY <3>1 DEF SameFrames
  <2>9. w[t[i].frame] = m[t[i].frame] /\ w[t[i].frame + 1] = m[t[i].frame + 1]
        /\ w[t[i].frame + 2] = m[t[i].frame + 2]
    <3>1. t[i].frame + 0 = t[i].frame  BY <2>6
    <3> QED BY <2>4, <3>1
  <2> HIDE DEF h
  <2>10. Laid(w, t[i])  BY <2>1, <2>5, <2>8, <2>9 DEF Laid, h
  <2> QED BY <2>1, <2>2, <2>3, <2>9, <2>10
<1>3. GoodArgs(u, w, i)
  <2> SUFFICES ASSUME t[i].kind = "args"
               PROVE  /\ t[i].op \in 1..Operations[t[i].effect]
                      /\ t[i].cursor = Answerer(u, w, i, t[i].effect)
                      /\ t[i].cursor = 0 => Hosted(t[i].effect)
    BY <1>0 DEF GoodArgs
  <2>1. t[i].effect \in Effects  BY <1>0, ItemIs
  <2>2. Answerer(u, w, i, t[i].effect) = Answerer(t, m, i, t[i].effect)  BY <1>0, <2>1, <1>9
  <2> QED BY <1>0, <2>2 DEF Good, GoodArgs
<1>4. GoodOperation(u, w, i)
  <2> SUFFICES ASSUME t[i].kind = "op"
               PROVE  \E j \in BlocksIn(u, i) :
                        t[i].cell = u[j].mark /\ HandlerIn(w, u[j].frame) = HandlerOf(t[i].code)
    BY <1>0 DEF GoodOperation
  <2>1. PICK j \in BlocksIn(t, i) :
           t[i].cell = t[j].mark /\ HandlerIn(m, t[j].frame) = HandlerOf(t[i].code)
    BY <1>0 DEF Good, GoodOperation
  <2>2. j \in 1..n /\ t[j].kind = "body" /\ u[j] = t[j]  BY <1>0 DEF BlocksIn, IsBlock, Agree
  <2>3. HandlerIn(w, t[j].frame) = HandlerIn(m, t[j].frame)  BY <2>2, <1>9
  <2>4. BlocksIn(u, i) = BlocksIn(t, i)  BY <1>0, <1>9
  <2> QED BY <2>1, <2>2, <2>3, <2>4
<1>5. GoodHost(u, i)  BY <1>0 DEF GoodHost
<1> QED BY <1>1, <1>2, <1>3, <1>4, <1>5 DEF Good

-----------------------------------------------------------------------------
(* The walk from a frame, in terms of the open blocks.                      *)
Rank(t, i) == Cardinality(BlocksIn(t, i))
Meets(t, walk, i) ==
    /\ Len(walk) = Rank(t, i)
    /\ \A j \in BlocksIn(t, i) : Rank(t, j) \in 0..(Rank(t, i) - 1) /\ walk[Rank(t, i) - Rank(t, j)] = t[j].frame
    /\ \A p \in 1..Rank(t, i) : \E j \in BlocksIn(t, i) : p = Rank(t, i) - Rank(t, j)

LEMMA RankAbove ==
    ASSUME NEW t \in Seq(Items), NEW k \in 1..Len(t)
    PROVE  /\ Rank(t, k) \in Nat
           /\ Rank(t, k + 1) = IF IsBlock(t[k]) THEN Rank(t, k) + 1 ELSE Rank(t, k)
<1>1. k \in Nat /\ k - 1 \in Nat  OBVIOUS
<1>2. IsFiniteSet(1..(k - 1))  BY <1>1, FS_Interval
<1>3. BlocksIn(t, k) \subseteq 1..(k - 1)  BY DEF BlocksIn
<1>4. IsFiniteSet(BlocksIn(t, k))  BY <1>2, <1>3, FS_Subset
<1>5. Rank(t, k) \in Nat  BY <1>4, FS_CardinalityType DEF Rank
<1>6. k \notin BlocksIn(t, k)  BY <1>1, <1>3
<1>7. CASE IsBlock(t[k])
  <2>1. BlocksIn(t, k + 1) = BlocksIn(t, k) \cup {k}  BY <1>7, Higher
  <2>2. Cardinality(BlocksIn(t, k) \cup {k}) = Cardinality(BlocksIn(t, k)) + 1
    BY <1>4, <1>6, FS_AddElement
  <2> QED BY <1>5, <1>7, <2>1, <2>2 DEF Rank
<1>8. CASE ~ IsBlock(t[k])
  <2>1. BlocksIn(t, k + 1) = BlocksIn(t, k)  BY <1>8, Higher
  <2> QED BY <1>5, <1>8, <2>1 DEF Rank
<1> QED BY <1>7, <1>8

LEMMA RankZero == \A t : BlocksIn(t, 1) = {} /\ Rank(t, 1) = 0 /\ Linked(t, 1) = 0
<1>1. \A t : BlocksIn(t, 1) = {}  BY DEF BlocksIn
<1> QED BY <1>1, FS_EmptySet DEF Rank, Linked

\* A walk from the innermost frame below a place meets the frames of the blocks
\* below it, innermost first.
LEMMA WalkMeets ==
    ASSUME Stacked(todo, memory), NEW n \in 1..(Len(todo) + 1)
    PROVE  /\ Linked(todo, n) \in 0..HEAP_START
           /\ Chain[Linked(todo, n)] \in Seq(Room)
           /\ Meets(todo, Chain[Linked(todo, n)], n)
<1> DEFINE Fine(i) == Linked(todo, i) \in 0..HEAP_START /\ Meets(todo, Chain[Linked(todo, i)], i)
           Odd == {i \in 1..(Len(todo) + 1) : ~ Fine(i)}
<1>0. todo \in Seq(Items) /\ Len(todo) \in Nat /\ HEAP_START \in Nat  BY LayoutAssumption DEF Stacked
<1>1. Odd = {}
  <2> SUFFICES ASSUME Odd # {} PROVE FALSE  OBVIOUS
  <2>1. Odd \subseteq Nat  OBVIOUS
  <2>2. PICK i \in Odd : \A j \in Odd : i <= j  BY <2>1, Smallest
  <2>3. i \in 1..(Len(todo) + 1) /\ ~ Fine(i)  OBVIOUS
  <2>4. CASE i = 1
    <3>1. BlocksIn(todo, 1) = {} /\ Rank(todo, 1) = 0 /\ Linked(todo, 1) = 0  BY RankZero
    <3>2. 0 \in 0..HEAP_START /\ 0 \notin Room  BY <1>0, RoomIs
    <3>3. Chain[0] = <<>>  BY <3>2, ChainIs
    <3>4. Meets(todo, Chain[Linked(todo, 1)], 1)  BY <3>1, <3>3 DEF Meets
    <3> QED BY <2>3, <2>4, <3>1, <3>2, <3>4
  <2>5. CASE i # 1
    <3> DEFINE k == i - 1
    <3>1. k \in 1..Len(todo) /\ i = k + 1 /\ k \notin Odd /\ k \in 1..(Len(todo) + 1)  BY <1>0, <2>2, <2>3, <2>5
    <3>2. Linked(todo, k) \in 0..HEAP_START /\ Meets(todo, Chain[Linked(todo, k)], k)  BY <3>1
    <3> HIDE DEF k, Odd, Fine
    <3>3. Rank(todo, k) \in Nat
          /\ Rank(todo, i) = IF IsBlock(todo[k]) THEN Rank(todo, k) + 1 ELSE Rank(todo, k)
      BY <1>0, <3>1, RankAbove
    <3>4. Linked(todo, i) = IF IsBlock(todo[k]) THEN todo[k].frame ELSE Linked(todo, k)
      BY <1>0, <3>1, LinkedAbove
    <3>5. BlocksIn(todo, i) = IF IsBlock(todo[k]) THEN BlocksIn(todo, k) \cup {k} ELSE BlocksIn(todo, k)
      BY <1>0, <3>1, Higher
    <3>6. CASE ~ IsBlock(todo[k])
      <4>1. Fine(i)  BY <3>2, <3>3, <3>4, <3>5, <3>6 DEF Fine, Meets
      <4> QED BY <2>3, <4>1
    <3>7. CASE IsBlock(todo[k])
      <4> DEFINE f == todo[k].frame
      <4>1. todo[k].kind = "body"  BY <3>7 DEF IsBlock
      <4>2. f \in Room /\ f \in Nat /\ f + 4 <= HEAP_START
        <5>1. f \in Nat /\ f \in Room /\ f + 4 <= EndIn(memory, todo[k]) /\ EndIn(memory, todo[k]) <= HEAP_START
              /\ EndIn(memory, todo[k]) = f + FrameSize(HandlerIn(memory, f))
              /\ HandlerIn(memory, f) \in Handlers
          BY <3>1, <4>1, FrameIs
        <5>2. EndIn(memory, todo[k]) \in Nat  BY <5>1, HandlerIs
        <5> QED BY <1>0, <5>1, <5>2
      <4>3. memory[f] = Linked(todo, k)  BY <3>1, <4>1 DEF Stacked, Good, GoodBlock
      <4>4. Linked(todo, k) \in 0..(f - 1)
        <5>1. CASE BlocksIn(todo, k) = {}  BY <4>2, <5>1, RoomIs DEF Linked
        <5>2. CASE BlocksIn(todo, k) # {}
          <6> DEFINE j == Max(BlocksIn(todo, k))
          <6>1. BlocksIn(todo, k) \subseteq 1..(k - 1) /\ k - 1 \in Nat  BY <1>0, <3>1, Below
          <6>2. j \in BlocksIn(todo, k)  BY <5>2, <6>1, MaxIsGreatest
          <6>3. j \in 1..Len(todo) /\ todo[j].kind = "body" /\ j \in OpensIn(todo, k)
            BY <1>0, <3>1, <6>2 DEF BlocksIn, OpensIn, IsBlock, IsOpen, Open
          <6>4. Linked(todo, k) = todo[j].frame  BY <5>2 DEF Linked
          <6> HIDE DEF j
          <6>5. todo[j].frame \in Nat /\ todo[j].frame + 4 <= EndIn(memory, todo[j])
                /\ EndIn(memory, todo[j]) = todo[j].frame + FrameSize(HandlerIn(memory, todo[j].frame))
                /\ HandlerIn(memory, todo[j].frame) \in Handlers
            BY <6>3, FrameIs
          <6>6. EndIn(memory, todo[j]) \in Nat  BY <6>5, HandlerIs
          <6>7. EndIn(memory, todo[j]) <= todo[k].mark
            BY <3>1, <4>1, <6>3 DEF Stacked, Good, GoodBlock, Above
          <6>8. todo[k].mark \in Nat /\ todo[k].mark <= f  BY <3>1, <4>1, FrameIs
          <6> QED BY <4>2, <6>4, <6>5, <6>6, <6>7, <6>8
        <5> QED BY <5>1, <5>2
      <4> HIDE DEF f
      <4>5. f \in 0..HEAP_START  BY <1>0, <4>2
      <4>6. Chain[f] = Onto(f, Chain[Linked(todo, k)])  BY <4>2, <4>3, <4>4, <4>5, ChainIs
      <4>7. Chain[Linked(todo, k)] \in Seq(Room)  BY <3>2, ChainIs
      <4>8. Linked(todo, i) = f  BY <3>4, <3>7 DEF f
      <4> DEFINE s == Chain[Linked(todo, k)]
                 g == Chain[f]
                 r == Rank(todo, k)
      <4>9. Len(g) = Len(s) + 1 /\ g[1] = f /\ \A p \in 1..Len(s) : g[p + 1] = s[p]
        <5>1. g = Onto(f, s) /\ s \in Seq(Room)  BY <4>6, <4>7
        <5> HIDE DEF g, s
        <5>3. f \in Room  BY <4>2
        <5>2. /\ Len(Onto(f, s)) = Len(s) + 1 /\ Onto(f, s)[1] = f
              /\ \A q \in 1..Len(s) : Onto(f, s)[q + 1] = s[q]
          BY <5>3, <5>1, OntoRoom, Zenon
        <5> QED BY <5>1, <5>2
      <4>10. /\ Len(s) = r
             /\ \A j \in BlocksIn(todo, k) : Rank(todo, j) \in 0..(r - 1) /\ s[r - Rank(todo, j)] = todo[j].frame
             /\ \A p \in 1..r : \E j \in BlocksIn(todo, k) : p = r - Rank(todo, j)
        BY <3>2 DEF Meets
      <4>11. Rank(todo, i) = r + 1 /\ BlocksIn(todo, i) = BlocksIn(todo, k) \cup {k} /\ r \in Nat
        BY <3>3, <3>5, <3>7
      <4>12. f = todo[k].frame  BY DEF f
      <4> HIDE DEF g, s
      <4>13. ASSUME NEW j \in BlocksIn(todo, i)
             PROVE  Rank(todo, j) \in 0..((r + 1) - 1) /\ g[(r + 1) - Rank(todo, j)] = todo[j].frame
        <5>1. CASE j = k
          <6>1. (r + 1) - Rank(todo, k) = 1  BY <4>11
          <6> HIDE DEF r
          <6>2. Rank(todo, k) = r  BY DEF r
          <6> QED BY <4>9, <4>11, <4>12, <5>1, <6>1, <6>2
        <5>2. CASE j \in BlocksIn(todo, k)
          <6> DEFINE q == Rank(todo, j)
          <6>1. q \in 0..(r - 1) /\ s[r - q] = todo[j].frame  BY <4>10, <5>2
          <6> HIDE DEF q, r
          <6>2. r - q \in 1..Len(s) /\ (r - q) + 1 = (r + 1) - q  BY <4>10, <4>11, <6>1
          <6>3. g[(r - q) + 1] = s[r - q]  BY <4>9, <6>2
          <6>4. q \in 0..((r + 1) - 1)  BY <4>11, <6>1
          <6> QED BY <6>1, <6>2, <6>3, <6>4 DEF q
        <5> QED BY <4>11, <5>1, <5>2
      <4>14. ASSUME NEW p \in 1..(r + 1)
             PROVE  \E j \in BlocksIn(todo, i) : p = (r + 1) - Rank(todo, j)
        <5>1. CASE p = 1
          <6>1. p = (r + 1) - Rank(todo, k) /\ k \in BlocksIn(todo, i)  BY <4>11, <5>1
          <6> QED BY <6>1
        <5>2. CASE p # 1
          <6> HIDE DEF r
          <6>1. p - 1 \in 1..r  BY <4>11, <5>2
          <6>2. PICK j \in BlocksIn(todo, k) : p - 1 = r - Rank(todo, j)  BY <4>10, <6>1
          <6>3. Rank(todo, j) \in 0..(r - 1)  BY <4>10
          <6>4. p = (r + 1) - Rank(todo, j) /\ j \in BlocksIn(todo, i)  BY <4>11, <6>2, <6>3
          <6> QED BY <6>4
        <5> QED BY <5>1, <5>2
      <4> HIDE DEF r
      <4>15. Meets(todo, g, i)  BY <4>9, <4>10, <4>11, <4>13, <4>14 DEF Meets
      <4>16. Fine(i)  BY <4>5, <4>8, <4>15 DEF Fine, g
      <4> QED BY <2>3, <4>16
    <3> QED BY <3>6, <3>7
  <2> QED BY <2>4, <2>5
<1>2. Linked(todo, n) \in 0..HEAP_START /\ Meets(todo, Chain[Linked(todo, n)], n)  BY <1>1
<1> HIDE DEF Fine, Odd
<1> QED BY <1>2, ChainIs

\* A block further up has more blocks below it.
LEMMA RankGrows ==
    ASSUME Stacked(todo, memory), NEW i \in 1..(Len(todo) + 1), NEW j \in BlocksIn(todo, i)
    PROVE  Rank(todo, j) \in 0..(Rank(todo, i) - 1)
BY WalkMeets DEF Meets

\* The frame a `perform` stops at is the innermost open block's that answers.
LEMMA FoundIs ==
    ASSUME Inv, NEW e \in Effects
    PROVE  Found(e) = Answerer(todo, memory, Len(todo) + 1, e)
<1> DEFINE N == Len(todo) + 1
           A == AnswersIn(todo, memory, N, e)
           R == Rank(todo, N)
           at == {p \in DOMAIN Frames : memory[Frames[p] + 1] = e}
<1>0. /\ Stacked(todo, memory) /\ todo \in Seq(Items) /\ Len(todo) \in Nat /\ N \in 1..(Len(todo) + 1)
      /\ handlers = Linked(todo, N)
  BY DEF Inv, Stacked
<1>1. Frames \in Seq(Room) /\ Meets(todo, Frames, N)  BY <1>0, WalkMeets DEF Frames
<1>2. R \in Nat
  <2>1. CASE Len(todo) = 0  BY <2>1, RankZero
  <2>2. CASE Len(todo) # 0
    <3>1. Len(todo) \in 1..Len(todo)  BY <1>0, <2>2
    <3> QED BY <1>0, <3>1, RankAbove
  <2> QED BY <2>1, <2>2
<1>3. A \subseteq BlocksIn(todo, N) /\ BlocksIn(todo, N) \subseteq 1..Len(todo)
  BY <1>0 DEF AnswersIn, BlocksIn
<1>4. \A j \in BlocksIn(todo, N) :
         /\ Rank(todo, j) \in 0..(R - 1) /\ R - Rank(todo, j) \in DOMAIN Frames
         /\ Frames[R - Rank(todo, j)] = todo[j].frame
  BY <1>1, <1>2 DEF Meets
<1>5. \A p \in DOMAIN Frames : \E j \in BlocksIn(todo, N) : p = R - Rank(todo, j)
  BY <1>1 DEF Meets
<1>6. ASSUME NEW p \in at PROVE \E j \in A : p = R - Rank(todo, j)
  <2>1. PICK j \in BlocksIn(todo, N) : p = R - Rank(todo, j)  BY <1>5
  <2>2. memory[todo[j].frame + 1] = e  BY <1>4, <2>1
  <2>3. j \in A  BY <2>2 DEF AnswersIn
  <2> QED BY <2>1, <2>3
<1>7. ASSUME NEW j \in A PROVE R - Rank(todo, j) \in at
  BY <1>3, <1>4 DEF AnswersIn
<1>8. CASE A = {}
  <2>1. at = {}  BY <1>6, <1>8
  <2> QED BY <1>8, <2>1 DEF Found, Answerer
<1>9. CASE A # {}
  <2> DEFINE J == Max(A)
             P == R - Rank(todo, J)
  <2>1. J \in A /\ \A j \in A : j <= J  BY <1>0, <1>3, <1>9, MaxIsGreatest
  <2>2. P \in at /\ Frames[P] = todo[J].frame  BY <1>3, <1>4, <1>7, <2>1
  <2>3. ASSUME NEW p \in at PROVE P <= p
    <3>1. PICK j \in A : p = R - Rank(todo, j)  BY <1>6
    <3>2. Rank(todo, j) \in 0..(R - 1) /\ Rank(todo, J) \in 0..(R - 1)  BY <1>3, <1>4, <2>1
    <3>3. Rank(todo, j) <= Rank(todo, J)
      <4>1. CASE j = J  BY <3>2, <4>1
      <4>2. CASE j # J
        <5>1. j <= J /\ j \in 1..Len(todo) /\ J \in 1..Len(todo) /\ J \in 1..(Len(todo) + 1)
          BY <1>0, <1>3, <2>1
        <5>2. j \in BlocksIn(todo, N)  BY <1>3
        <5>3. j \in BlocksIn(todo, J)  BY <4>2, <5>1, <5>2 DEF BlocksIn
        <5>4. Rank(todo, j) \in 0..(Rank(todo, J) - 1)  BY <1>0, <5>1, <5>3, RankGrows
        <5> QED BY <3>2, <5>4
      <4> QED BY <4>1, <4>2
    <3> QED BY <1>2, <3>1, <3>2, <3>3
  <2>4. \A p \in at : p \in Nat  BY <1>1
  <2> HIDE DEF P, at
  <2>5. (CHOOSE p \in at : \A q \in at : p <= q) = P
    <3>1. \A p \in at : (\A q \in at : p <= q) => p = P
      <4> SUFFICES ASSUME NEW p \in at, \A q \in at : p <= q PROVE p = P  OBVIOUS
      <4>1. p <= P /\ P <= p  BY <2>2, <2>3
      <4> QED BY <2>2, <2>4, <4>1
    <3> QED BY <2>2, <2>3, <3>1
  <2>6. at # {}  BY <2>2
  <2>7. Found(e) = Frames[CHOOSE p \in at : \A q \in at : p <= q]  BY <2>6 DEF Found, at
  <2>8. Found(e) = todo[J].frame  BY <2>2, <2>5, <2>7
  <2> QED BY <1>9, <2>8 DEF Answerer
<1> QED BY <1>8, <1>9

-----------------------------------------------------------------------------
(* Lemmas about one step.                                                  *)
LEMMA Rebuilt ==
    ASSUME NEW t, NEW u \in Seq(Items), NEW m, NEW w \in Memories, NEW n,
           Stacked(t, m), Agree(t, u, n), SameFrames(t, m, w, n),
           \A i \in 1..n : t[i].kind # "host",
           Len(u) \in {n, n + 1}, u # <<>> => u[1].kind = "call",
           Len(u) = n + 1 => Good(u, w, n + 1)
    PROVE  Stacked(u, w)
<1>1. \A i \in 1..n : Good(u, w, i)  BY GoodBelow
<1>2. n \in Nat  BY DEF Agree
<1>3. \A i \in 1..Len(u) : i \in 1..n \/ (i = n + 1 /\ Len(u) = n + 1)  BY <1>2
<1>4. \A i \in 1..Len(u) : Good(u, w, i)  BY <1>1, <1>3
<1> QED BY <1>4 DEF Stacked

\* Where what is open ends, one place further up.
LEMMA AboveUp ==
    ASSUME NEW t, NEW m, Stacked(t, m), NEW k \in 1..Len(t)
    PROVE  /\ IsOpen(t[k]) => Above(t, m, k + 1, EndIn(m, t[k])) /\ EndIn(m, t[k]) \in Nat
           /\ ~ IsOpen(t[k]) => \A at : Above(t, m, k, at) <=> Above(t, m, k + 1, at)
<1>0. t \in Seq(Items) /\ t[k] \in Items /\ Good(t, m, k)  BY DEF Stacked
<1>1. ASSUME IsOpen(t[k]) PROVE Above(t, m, k + 1, EndIn(m, t[k])) /\ EndIn(m, t[k]) \in Nat
  <2>1. t[k].kind \in {"fields", "body"}  BY <1>0, <1>1, ItemIs
  <2>2. Above(t, m, k, t[k].mark) /\ t[k].mark \in Nat
    BY <1>0, <2>1, ItemIs DEF Good, GoodFields, GoodBlock
  <2>3. t[k].mark <= EndIn(m, t[k]) /\ EndIn(m, t[k]) \in Nat
    <3>1. CASE t[k].kind = "fields"
      <4>1. t[k].held = t[k].mark /\ Fields[t[k].handler] \in Nat /\ t[k].mark \in Nat
        BY <1>0, <3>1, ItemIs, HandlerIs DEF Good, GoodFields, Reserved
      <4>2. EndIn(m, t[k]) = t[k].held + Fields[t[k].handler]  BY <3>1 DEF EndIn
      <4> QED BY <4>1, <4>2
    <3>2. CASE t[k].kind = "body"
      <4>1. t[k].mark \in Nat /\ t[k].frame \in Nat /\ t[k].mark <= t[k].frame
            /\ t[k].frame + 4 <= EndIn(m, t[k])
            /\ EndIn(m, t[k]) = t[k].frame + FrameSize(HandlerIn(m, t[k].frame))
            /\ HandlerIn(m, t[k].frame) \in Handlers
        BY <3>2, FrameIs
      <4>2. EndIn(m, t[k]) \in Nat  BY <4>1, HandlerIs
      <4> QED BY <4>1, <4>2
    <3> QED BY <2>1, <3>1, <3>2
  <2>4. EndUnder(t, m, k + 1) = EndIn(m, t[k])  BY <1>0, <1>1, EndAbove
  <2>5. OpensIn(t, k + 1) = OpensIn(t, k) \cup {k}  BY <1>0, <1>1, Higher
  <2>6. FRAME_START \in Nat  BY LayoutAssumption
  <2>7. \A j \in OpensIn(t, k) : EndIn(m, t[j]) <= t[k].mark /\ EndIn(m, t[j]) \in Int
    <3>1. \A j \in OpensIn(t, k) : EndIn(m, t[j]) <= t[k].mark  BY <2>2 DEF Above
    <3>2. ASSUME NEW j \in OpensIn(t, k) PROVE EndIn(m, t[j]) \in Int
      <4>1. j \in 1..Len(t) /\ IsOpen(t[j]) /\ t[j] \in Items  BY <1>0 DEF OpensIn
      <4>2. t[j].kind \in {"fields", "body"}  BY <4>1, ItemIs
      <4>3. CASE t[j].kind = "fields"
        <5>1. EndIn(m, t[j]) = t[j].held + Fields[t[j].handler]  BY <4>3 DEF EndIn
        <5>2. t[j].held \in Nat /\ Fields[t[j].handler] \in Nat  BY <4>1, <4>3, ItemIs, HandlerIs
        <5> QED BY <5>1, <5>2
      <4>4. CASE t[j].kind = "body"
        <5>1. EndIn(m, t[j]) = t[j].frame + FrameSize(HandlerIn(m, t[j].frame))
              /\ HandlerIn(m, t[j].frame) \in Handlers /\ t[j].frame \in Nat
          BY <4>1, <4>4, FrameIs
        <5> QED BY <5>1, HandlerIs
      <4> QED BY <4>2, <4>3, <4>4
    <3> QED BY <3>1, <3>2
  <2> DEFINE end == EndIn(m, t[k])
  <2>8. FRAME_START <= end /\ end \in Nat  BY <2>2, <2>3, <2>6 DEF Above
  <2>9. \A j \in OpensIn(t, k) : EndIn(m, t[j]) <= end  BY <2>2, <2>3, <2>7
  <2>10. \A j \in OpensIn(t, k + 1) : EndIn(m, t[j]) <= end
    <3>1. end <= end  BY <2>8
    <3> QED BY <2>5, <2>9, <3>1
  <2> QED BY <2>4, <2>8, <2>10 DEF Above
<1>2. ASSUME ~ IsOpen(t[k]) PROVE \A at : Above(t, m, k, at) <=> Above(t, m, k + 1, at)
  <2>1. OpensIn(t, k + 1) = OpensIn(t, k) /\ EndUnder(t, m, k + 1) = EndUnder(t, m, k)
    BY <1>0, <1>2, Higher, EndAbove
  <2> QED BY <2>1 DEF Above
<1> QED BY <1>1, <1>2

LEMMA FrontIs ==
    ASSUME NEW s \in Seq(Items), Len(s) >= 1
    PROVE  /\ Front(s) \in Seq(Items) /\ Len(Front(s)) = Len(s) - 1 /\ Len(s) - 1 \in Nat
           /\ \A i \in 1..(Len(s) - 1) : Front(s)[i] = s[i]
<1>1. Len(s) \in Nat /\ Len(s) - 1 \in Nat  OBVIOUS
<1>2. \A i \in 1..(Len(s) - 1) : s[i] \in Items  OBVIOUS
<1>3. Front(s) = [i \in 1..(Len(s) - 1) |-> s[i]]  BY <1>1 DEF Front
<1>4. Front(s) \in Seq(Items) /\ Len(Front(s)) = Len(s) - 1
  BY <1>1, <1>2, <1>3
<1> QED BY <1>1, <1>3, <1>4

\* What holds while code runs, and what a step that starts something or goes on
\* with what is on top does to `todo`.
LEMMA RunningIs ==
    ASSUME Inv, Running
    PROVE  /\ Stacked(todo, memory) /\ todo \in Seq(Items)
           /\ Len(todo) \in Nat /\ Len(todo) \in 1..Len(todo)
           /\ Top = todo[Len(todo)] /\ Top \in Items
           /\ Good(todo, memory, Len(todo))
           /\ todo[1].kind = "call"
           /\ \A i \in 1..Len(todo) : todo[i].kind # "host"
<1>1. Stacked(todo, memory) /\ todo \in Seq(Items) /\ todo # <<>>  BY DEF Inv, Stacked, Running
<1>2. Len(todo) \in Nat /\ Len(todo) \in 1..Len(todo)  BY <1>1
<1>3. Top = todo[Len(todo)]  BY DEF Top, Last
<1>4. \A i \in 1..Len(todo) : todo[i].kind = "host" => i = Len(todo)
  BY <1>1 DEF Stacked, Good, GoodHost
<1>5. todo[Len(todo)].kind # "host"  BY <1>3 DEF Running
<1> QED BY <1>1, <1>2, <1>3, <1>4, <1>5 DEF Stacked

LEMMA PushIs ==
    ASSUME Inv, Running, NEW x \in Items, Push(x)
    PROVE  /\ todo' \in Seq(Items) /\ Len(todo') = Len(todo) + 1 /\ todo' # <<>>
           /\ todo'[Len(todo) + 1] = x
           /\ Agree(todo, todo', Len(todo))
           /\ todo'[1].kind = "call"
<1>1. todo \in Seq(Items) /\ Len(todo) \in Nat /\ Len(todo) \in 1..Len(todo) /\ todo[1].kind = "call"
  BY RunningIs
<1>2. todo' = Append(todo, x)  BY DEF Push
<1>3. /\ todo' \in Seq(Items) /\ Len(todo') = Len(todo) + 1
      /\ todo'[Len(todo) + 1] = x /\ \A j \in 1..Len(todo) : todo'[j] = todo[j]
  BY <1>1, <1>2
<1>4. todo' # <<>> /\ 1 \in 1..Len(todo)  BY <1>1, <1>3
<1> QED BY <1>1, <1>3, <1>4 DEF Agree

LEMMA ReplaceIs ==
    ASSUME Inv, Running, Top.kind # "call", NEW x \in Items, todo' = Append(Front(todo), x)
    PROVE  /\ todo' \in Seq(Items) /\ Len(todo') = Len(todo) /\ todo' # <<>>
           /\ todo'[Len(todo)] = x
           /\ Len(todo) - 1 \in Nat /\ Len(todo) - 1 >= 1
           /\ Agree(todo, todo', Len(todo) - 1)
           /\ todo'[1].kind = "call"
<1>1. todo \in Seq(Items) /\ Len(todo) \in Nat /\ Len(todo) \in 1..Len(todo)
      /\ todo[1].kind = "call" /\ Top = todo[Len(todo)]
  BY RunningIs
<1>2. Len(todo) > 1  BY <1>1
<1>3. /\ Front(todo) \in Seq(Items) /\ Len(Front(todo)) = Len(todo) - 1
      /\ \A i \in 1..(Len(todo) - 1) : Front(todo)[i] = todo[i]
  BY <1>1, <1>2, FrontIs
<1> DEFINE f == Front(todo)
<1> HIDE DEF f
<1>4. /\ f \in Seq(Items) /\ Len(f) = Len(todo) - 1 /\ todo' = Append(f, x)
      /\ \A i \in 1..(Len(todo) - 1) : f[i] = todo[i]
  BY <1>3 DEF f
<1>5. /\ todo' \in Seq(Items) /\ Len(todo') = Len(todo) /\ todo'[Len(todo)] = x
      /\ \A j \in 1..(Len(todo) - 1) : todo'[j] = todo[j]
  BY <1>1, <1>2, <1>4
<1>6. todo' # <<>> /\ 1 \in 1..(Len(todo) - 1) /\ Len(todo) - 1 \in Nat  BY <1>1, <1>2, <1>5
<1> QED BY <1>1, <1>2, <1>5, <1>6 DEF Agree

LEMMA SameMemory == ASSUME NEW t, NEW m, NEW n PROVE SameFrames(t, m, m, n)
BY DEF SameFrames

-----------------------------------------------------------------------------
(* Each step keeps the invariant.                                          *)

\* What a push that is given nothing open to remember changes above it.
LEMMA PushKeeps ==
    ASSUME Inv, Running, NEW x \in Items, Push(x), memory' = memory,
           Good(todo', memory, Len(todo) + 1)
    PROVE  Stacked(todo', memory')
<1>1. /\ Stacked(todo, memory) /\ todo \in Seq(Items) /\ Len(todo) \in Nat
      /\ \A i \in 1..Len(todo) : todo[i].kind # "host"
  BY RunningIs
<1>2. /\ todo' \in Seq(Items) /\ Len(todo') = Len(todo) + 1 /\ todo'[1].kind = "call"
      /\ Agree(todo, todo', Len(todo))
  BY PushIs
<1>3. memory \in Memories /\ SameFrames(todo, memory, memory, Len(todo))
  BY <1>1, SameMemory DEF Stacked
<1> DEFINE u == todo'
<1> HIDE DEF u
<1>4. /\ u \in Seq(Items) /\ Len(u) = Len(todo) + 1 /\ u[1].kind = "call"
      /\ Agree(todo, u, Len(todo)) /\ Good(u, memory, Len(todo) + 1)
  BY <1>2 DEF u
<1>5. Stacked(u, memory)  BY <1>1, <1>3, <1>4, Rebuilt
<1> QED BY <1>5 DEF u

\* Below what is pushed everything is as it was.
LEMMA PushLeaves ==
    ASSUME Inv, Running, NEW x \in Items, Push(x)
    PROVE  /\ Linked(todo', Len(todo) + 1) = Linked(todo, Len(todo) + 1)
           /\ Above(todo', memory, Len(todo) + 1, frameBump)
           /\ \A e \in Effects : Answerer(todo', memory, Len(todo) + 1, e) = Answerer(todo, memory, Len(todo) + 1, e)
           /\ BlocksIn(todo', Len(todo) + 1) = BlocksIn(todo, Len(todo) + 1)
<1>1. Stacked(todo, memory) /\ Len(todo) \in Nat  BY RunningIs
<1>2. todo' \in Seq(Items) /\ Agree(todo, todo', Len(todo))  BY PushIs
<1>3. memory \in Memories /\ SameFrames(todo, memory, memory, Len(todo))
  BY <1>1, SameMemory DEF Stacked
<1>4. Kept(todo, todo', memory, memory, Len(todo))  BY <1>1, <1>2, <1>3, SameBelow
<1>5. Above(todo, memory, Len(todo) + 1, frameBump)  BY DEF Inv
<1>6. Len(todo) + 1 \in 1..(Len(todo) + 1)  BY <1>1
<1> QED BY <1>4, <1>5, <1>6 DEF Kept

LEMMA NotOpen == \A x \in Items : x.kind \notin {"fields", "body"} => ~ IsOpen(x) /\ ~ IsBlock(x)
BY ItemIs

LEMMA WithKeeps == ASSUME Inv, NEW h \in Handlers, With(h) PROVE Inv'
<1> DEFINE x == [kind |-> "fields", handler |-> h, mark |-> frameBump, held |-> frameBump, n |-> 0]
           N == Len(todo) + 1
<1>1. /\ Running /\ Fits(Fields[h]) /\ Push(x) /\ frameBump' = frameBump + Fields[h]
      /\ memory' = memory /\ handlers' = handlers /\ trapped' = trapped
  BY DEF With, Continue
<1>2. /\ frameBump \in Nat /\ Fields[h] \in Nat /\ frameBump >= FRAME_START
      /\ FRAME_START \in Nat /\ HEAP_START \in Nat /\ frameBump + Fields[h] <= HEAP_START
  BY <1>1, HandlerIs, LayoutAssumption DEF Inv, Fits
<1>3. x \in Items  BY <1>2 DEF Items
<1>4. /\ x.kind = "fields" /\ x.held = frameBump /\ x.mark = frameBump /\ x.n = 0 /\ x.handler = h
      /\ IsOpen(x) /\ ~ IsBlock(x)
  BY <1>3, ItemIs
<1> HIDE DEF x
<1>5. todo' \in Seq(Items) /\ Len(todo') = N /\ todo'[N] = x  BY <1>1, <1>3, PushIs
<1>6. Linked(todo', N) = Linked(todo, N) /\ Above(todo', memory, N, frameBump)
  BY <1>1, <1>3, PushLeaves
<1>7. Good(todo', memory, N)
  <2>1. Reserved(x)  BY <1>2, <1>4 DEF Reserved
  <2>2. GoodFields(todo', memory, N)  BY <1>4, <1>5, <1>6, <2>1 DEF GoodFields
  <2> QED BY <1>4, <1>5, <2>2 DEF Good, GoodBlock, GoodArgs, GoodOperation, GoodHost
<1>8. Stacked(todo', memory')  BY <1>1, <1>3, <1>7, PushKeeps
<1>9. N \in 1..Len(todo') /\ N \in Nat  BY <1>1, <1>5, RunningIs
<1>10. EndIn(memory', x) = frameBump'  BY <1>1, <1>4 DEF EndIn
<1>11. Above(todo', memory', N + 1, frameBump')
  <2> DEFINE u == todo'
             w == memory'
  <2>1. Stacked(u, w) /\ N \in 1..Len(u) /\ IsOpen(u[N])  BY <1>4, <1>5, <1>8, <1>9
  <2> HIDE DEF u, w, N
  <2>2. Above(u, w, N + 1, EndIn(w, u[N]))  BY <2>1, AboveUp
  <2> QED BY <1>5, <1>10, <2>2 DEF u, w
<1>12. Linked(todo', N + 1) = Linked(todo', N)
  <2> HIDE DEF N
  <2> QED BY <1>4, <1>5, <1>9, LinkedAbove
<1>13. handlers' = Linked(todo', N + 1)  BY <1>1, <1>6, <1>12 DEF Inv
<1>14. frameBump' \in FRAME_START..HEAP_START  BY <1>1, <1>2
<1> QED BY <1>1, <1>5, <1>8, <1>11, <1>13, <1>14 DEF Inv

\* A call and the arguments of a `perform` open nothing.
LEMMA PushedKeeps ==
    ASSUME Inv, Running, NEW x \in Items, x.kind \notin {"fields", "body"}, Push(x),
           Good(todo', memory, Len(todo) + 1),
           UNCHANGED <<memory, handlers, frameBump>>, trapped' = trapped
    PROVE  Inv'
<1> DEFINE N == Len(todo) + 1
<1>0. memory' = memory /\ handlers' = handlers /\ frameBump' = frameBump /\ trapped' = trapped  OBVIOUS
<1>1. todo' \in Seq(Items) /\ Len(todo') = N /\ todo'[N] = x  BY PushIs
<1>2. Linked(todo', N) = Linked(todo, N) /\ Above(todo', memory, N, frameBump)
  BY PushLeaves
<1>3. Stacked(todo', memory')  BY <1>0, PushKeeps
<1>4. N \in 1..Len(todo') /\ N \in Nat /\ ~ IsOpen(x) /\ ~ IsBlock(x)  BY <1>1, RunningIs, NotOpen
<1>5. Above(todo', memory', N + 1, frameBump')
  <2> DEFINE u == todo'
             w == memory'
  <2>1. Stacked(u, w) /\ N \in 1..Len(u) /\ ~ IsOpen(u[N])  BY <1>1, <1>3, <1>4
  <2>3. Above(u, w, N, frameBump')  BY <1>0, <1>2
  <2> HIDE DEF u, w, N
  <2>2. \A at : Above(u, w, N, at) <=> Above(u, w, N + 1, at)  BY <2>1, AboveUp
  <2> QED BY <2>2, <2>3 DEF u, w
<1>6. Linked(todo', N + 1) = Linked(todo', N)
  <2> HIDE DEF N
  <2> QED BY <1>1, <1>4, LinkedAbove
<1>7. handlers' = Linked(todo', N + 1)  BY <1>0, <1>2, <1>6 DEF Inv
<1> QED BY <1>0, <1>1, <1>3, <1>5, <1>7 DEF Inv

LEMMA CallKeeps == ASSUME Inv, Call PROVE Inv'
<1> DEFINE x == [kind |-> "call"]
<1>1. x \in Items /\ x.kind = "call"  BY DEF Items
<1>2. Running /\ Push(x) /\ UNCHANGED <<memory, handlers, frameBump>> /\ trapped' = trapped
  BY DEF Call, Continue
<1> HIDE DEF x
<1>3. todo'[Len(todo) + 1] = x  BY <1>1, <1>2, PushIs
<1>4. Good(todo', memory, Len(todo) + 1)
  BY <1>1, <1>3 DEF Good, GoodFields, GoodBlock, GoodArgs, GoodOperation, GoodHost
<1> QED BY <1>1, <1>2, <1>4, PushedKeeps

LEMMA PerformKeeps ==
    ASSUME Inv, NEW e \in Effects, NEW op \in 1..Operations[e], Perform(e, op)
    PROVE  Inv'
<1> DEFINE x == [kind |-> "args", effect |-> e, op |-> op, cursor |-> Found(e)]
           N == Len(todo) + 1
<1>1. /\ Running /\ Push(x) /\ UNCHANGED <<memory, handlers, frameBump>> /\ trapped' = trapped
      /\ (Found(e) # 0 \/ Hosted(e))
  BY DEF Perform, Continue
<1>2. Found(e) = Answerer(todo, memory, N, e)  BY FoundIs
<1>3. Found(e) \in Nat
  <2>1. CASE AnswersIn(todo, memory, N, e) = {}  BY <1>2, <2>1 DEF Answerer
  <2>2. CASE AnswersIn(todo, memory, N, e) # {}
    <3>1. AnswersIn(todo, memory, N, e) \subseteq 1..Len(todo) /\ todo \in Seq(Items) /\ Len(todo) \in Nat
      BY <1>1, RunningIs DEF AnswersIn, BlocksIn
    <3>2. Max(AnswersIn(todo, memory, N, e)) \in AnswersIn(todo, memory, N, e)
      BY <2>2, <3>1, MaxIsGreatest
    <3>3. todo[Max(AnswersIn(todo, memory, N, e))] \in Items
          /\ todo[Max(AnswersIn(todo, memory, N, e))].kind = "body"
      BY <3>1, <3>2 DEF AnswersIn, BlocksIn, IsBlock
    <3> QED BY <1>2, <2>2, <3>3, ItemIs DEF Answerer
  <2> QED BY <2>1, <2>2
<1>4. op \in Nat  BY HandlersAssumption
<1>5. x \in Items  BY <1>3, <1>4 DEF Items
<1>6. x.kind = "args" /\ x.effect = e /\ x.op = op /\ x.cursor = Found(e)  OBVIOUS
<1> HIDE DEF x
<1>7. todo'[N] = x  BY <1>1, <1>5, PushIs
<1>8. Answerer(todo', memory, N, e) = Answerer(todo, memory, N, e)  BY <1>1, <1>5, PushLeaves
<1>9. Good(todo', memory, N)
  <2>1. GoodArgs(todo', memory, N)  BY <1>1, <1>2, <1>6, <1>7, <1>8 DEF GoodArgs
  <2> QED BY <1>6, <1>7, <2>1 DEF Good, GoodFields, GoodBlock, GoodOperation, GoodHost
<1> QED BY <1>1, <1>5, <1>6, <1>9, PushedKeeps

\* The same when what is on top is replaced.
LEMMA ReplaceLeaves ==
    ASSUME Inv, Running, Top.kind # "call", NEW x \in Items, todo' = Append(Front(todo), x),
           memory' \in Memories, SameFrames(todo, memory, memory', Len(todo) - 1)
    PROVE  /\ Kept(todo, todo', memory, memory', Len(todo) - 1)
           /\ Linked(todo', Len(todo)) = Linked(todo, Len(todo))
           /\ BlocksIn(todo', Len(todo)) = BlocksIn(todo, Len(todo))
           /\ \A at : Above(todo, memory, Len(todo), at) => Above(todo', memory', Len(todo), at)
<1>1. Stacked(todo, memory)  BY RunningIs
<1>2. todo' \in Seq(Items) /\ Agree(todo, todo', Len(todo) - 1) /\ Len(todo) - 1 \in Nat  BY ReplaceIs
<1>3. Kept(todo, todo', memory, memory', Len(todo) - 1)
  <2> DEFINE n == Len(todo) - 1
             u == todo'
             w == memory'
  <2>1. u \in Seq(Items) /\ Agree(todo, u, n) /\ w \in Memories /\ SameFrames(todo, memory, w, n)
    BY <1>2
  <2> HIDE DEF n, u, w
  <2>2. Kept(todo, u, memory, w, n)  BY <1>1, <2>1, SameBelow
  <2> QED BY <2>2 DEF n, u, w
<1>4. Len(todo) \in 1..((Len(todo) - 1) + 1)  BY RunningIs
<1> QED BY <1>3, <1>4 DEF Kept

LEMMA ReplaceKeeps ==
    ASSUME Inv, Running, Top.kind # "call", NEW x \in Items, todo' = Append(Front(todo), x),
           memory' \in Memories, SameFrames(todo, memory, memory', Len(todo) - 1),
           Good(todo', memory', Len(todo))
    PROVE  Stacked(todo', memory')
<1> DEFINE n == Len(todo) - 1
           u == todo'
           w == memory'
<1>1. /\ Stacked(todo, memory) /\ Len(todo) \in Nat
      /\ \A i \in 1..n : todo[i].kind # "host"
  BY RunningIs
<1>2. /\ u \in Seq(Items) /\ Agree(todo, u, n) /\ n \in Nat /\ Len(u) = n + 1 /\ n + 1 = Len(todo)
      /\ u[1].kind = "call"
  BY <1>1, ReplaceIs
<1>3. w \in Memories /\ SameFrames(todo, memory, w, n)  OBVIOUS
<1>4. Good(u, w, n + 1)  BY <1>2
<1> HIDE DEF n, u, w
<1>5. Stacked(u, w)  BY <1>1, <1>2, <1>3, <1>4, Rebuilt
<1> QED BY <1>5 DEF u, w

\* What ends below the top where what is on top began.
LEMMA EndsBelow ==
    ASSUME Inv, Running, NEW at, Above(todo, memory, Len(todo), at)
    PROVE  \A j \in 1..(Len(todo) - 1) : todo[j].kind = "body" =>
              /\ EndIn(memory, todo[j]) <= at /\ EndIn(memory, todo[j]) \in Nat /\ todo[j].frame \in Nat
              /\ todo[j].frame..(EndIn(memory, todo[j]) - 1) \subseteq Room
<1>1. Stacked(todo, memory) /\ todo \in Seq(Items) /\ Len(todo) \in Nat  BY RunningIs
<1> SUFFICES ASSUME NEW j \in 1..(Len(todo) - 1), todo[j].kind = "body"
             PROVE  /\ EndIn(memory, todo[j]) <= at /\ EndIn(memory, todo[j]) \in Nat /\ todo[j].frame \in Nat
                    /\ todo[j].frame..(EndIn(memory, todo[j]) - 1) \subseteq Room
  OBVIOUS
<1>2. j \in 1..Len(todo) /\ j \in OpensIn(todo, Len(todo))  BY <1>1 DEF OpensIn, IsOpen, Open
<1>3. EndIn(memory, todo[j]) <= at  BY <1>2 DEF Above
<1>4. /\ EndIn(memory, todo[j]) = todo[j].frame + FrameSize(HandlerIn(memory, todo[j].frame))
      /\ HandlerIn(memory, todo[j].frame) \in Handlers /\ todo[j].frame \in Nat
  BY <1>1, <1>2, FrameIs
<1>5. FrameSize(HandlerIn(memory, todo[j].frame)) \in Nat  BY <1>4, HandlerIs
<1>6. /\ EndIn(memory, todo[j]) <= HEAP_START /\ FRAME_START <= todo[j].mark
      /\ todo[j].mark <= todo[j].frame /\ todo[j].mark \in Nat
      /\ FRAME_START \in Nat /\ HEAP_START \in Nat
  BY <1>1, <1>2, FrameIs, LayoutAssumption
<1> DEFINE f == todo[j].frame
           e == EndIn(memory, todo[j])
<1>7. f \in Nat /\ e \in Nat /\ FRAME_START <= f /\ e <= HEAP_START  BY <1>4, <1>5, <1>6
<1> HIDE DEF f, e
<1>8. f..(e - 1) \subseteq Room  BY <1>6, <1>7 DEF Room
<1> QED BY <1>3, <1>4, <1>5, <1>8 DEF f, e

\* What is known of fields that are being worked out.
LEMMA FieldsAre ==
    ASSUME Inv, Running, Top.kind = "fields"
    PROVE  /\ Top.handler \in Handlers /\ Fields[Top.handler] \in Nat
           /\ Top.mark \in Nat /\ Top.held = Top.mark /\ Top.n \in 0..Fields[Top.handler]
           /\ Top.mark + Fields[Top.handler] = frameBump
           /\ FRAME_START <= Top.mark /\ frameBump <= HEAP_START
           /\ FRAME_START \in Nat /\ HEAP_START \in Nat /\ frameBump \in Nat
           /\ Above(todo, memory, Len(todo), Top.mark)
           /\ Linked(todo, Len(todo)) = handlers
<1>1. /\ Stacked(todo, memory) /\ todo \in Seq(Items) /\ Len(todo) \in Nat /\ Len(todo) \in 1..Len(todo)
      /\ Top = todo[Len(todo)] /\ Top \in Items /\ Good(todo, memory, Len(todo))
  BY RunningIs
<1> DEFINE x == Top
<1> HIDE DEF x
<1>2. x \in Items /\ x.kind = "fields" /\ todo[Len(todo)] = x  BY <1>1 DEF x
<1>3. x.handler \in Handlers /\ x.mark \in Nat /\ IsOpen(x) /\ ~ IsBlock(x)  BY <1>2, ItemIs
<1>4. Reserved(x) /\ Above(todo, memory, Len(todo), x.mark)  BY <1>1, <1>2 DEF Good, GoodFields
<1>5. Fields[x.handler] \in Nat /\ FRAME_START \in Nat /\ HEAP_START \in Nat
  BY <1>3, HandlerIs, LayoutAssumption
<1>6. EndUnder(todo, memory, Len(todo) + 1) = EndIn(memory, x)  BY <1>1, <1>2, <1>3, EndAbove
<1>7. EndIn(memory, x) = x.held + Fields[x.handler]  BY <1>2 DEF EndIn
<1>8. frameBump = EndUnder(todo, memory, Len(todo) + 1) /\ frameBump \in FRAME_START..HEAP_START
  BY DEF Inv, Above
<1>9. Linked(todo, Len(todo) + 1) = Linked(todo, Len(todo))  BY <1>1, <1>2, <1>3, LinkedAbove
<1>10. handlers = Linked(todo, Len(todo) + 1)  BY DEF Inv
<1>11. FRAME_START <= x.mark  BY <1>4 DEF Above
<1>12. x.held = x.mark /\ x.n \in 0..Fields[x.handler]  BY <1>4 DEF Reserved
<1>13. x.mark + Fields[x.handler] = frameBump  BY <1>6, <1>7, <1>8, <1>12
<1>14. frameBump \in Nat /\ frameBump <= HEAP_START  BY <1>5, <1>8
<1> QED BY <1>3, <1>4, <1>5, <1>9, <1>10, <1>11, <1>12, <1>13, <1>14 DEF x

LEMMA StartFieldKeeps == ASSUME Inv, NEW v \in Values, StartField(v) PROVE Inv'
<1> DEFINE N == Len(todo)
           x == [Top EXCEPT !.n = @ + 1]
           w == [memory EXCEPT ![Top.held + Top.n] = v]
<1>1. /\ Running /\ Top.kind = "fields" /\ Top.n < Fields[Top.handler]
      /\ memory' = w /\ todo' = Append(Front(todo), x)
      /\ handlers' = handlers /\ frameBump' = frameBump /\ trapped' = trapped
  BY DEF StartField, Continue
<1>2. /\ todo \in Seq(Items) /\ N \in Nat /\ N \in 1..N /\ Top = todo[N] /\ Top \in Items
      /\ Stacked(todo, memory)
  BY <1>1, RunningIs
<1>3. /\ Top.handler \in Handlers /\ Fields[Top.handler] \in Nat
      /\ Top.mark \in Nat /\ Top.held = Top.mark /\ Top.n \in 0..Fields[Top.handler]
      /\ Top.mark + Fields[Top.handler] = frameBump
      /\ FRAME_START <= Top.mark /\ frameBump <= HEAP_START
      /\ FRAME_START \in Nat /\ HEAP_START \in Nat /\ frameBump \in Nat
      /\ Above(todo, memory, N, Top.mark)
      /\ Linked(todo, N) = handlers
  BY <1>1, FieldsAre
<1>4. x = [kind |-> "fields", handler |-> Top.handler, mark |-> Top.mark, held |-> Top.held, n |-> Top.n + 1]
  <2>1. Top \in [kind : {"fields"}, handler : Handlers, mark : Nat, held : Nat, n : Nat]
    BY <1>1, <1>2 DEF Items
  <2> QED BY <2>1
<1>5. x \in Items  BY <1>3, <1>4 DEF Items
<1>6. /\ x.kind = "fields" /\ x.handler = Top.handler /\ x.mark = Top.mark /\ x.held = Top.held
      /\ x.n = Top.n + 1
  BY <1>4
<1> HIDE DEF x
<1>7. w \in Memories
  <2>1. memory \in [Room -> Int] /\ v \in Int  BY <1>2, HandlersAssumption DEF Stacked, Memories
  <2> QED BY <2>1 DEF Memories
<1>8. SameFrames(todo, memory, w, N - 1)
  <2> SUFFICES ASSUME NEW j \in 1..(N - 1), todo[j].kind = "body",
                      NEW a \in todo[j].frame..(EndIn(memory, todo[j]) - 1)
               PROVE  w[a] = memory[a]
    BY DEF SameFrames
  <2>1. /\ EndIn(memory, todo[j]) <= Top.mark /\ EndIn(memory, todo[j]) \in Nat /\ todo[j].frame \in Nat
        /\ a \in Room
    BY <1>1, <1>3, EndsBelow
  <2>2. a < Top.held + Top.n  BY <1>3, <2>1
  <2>3. memory \in [Room -> Int]  BY <1>2 DEF Stacked, Memories
  <2>4. a # Top.held + Top.n  BY <1>3, <2>1, <2>2
  <2> QED BY <2>3, <2>4
<1> HIDE DEF w
<1>9. memory' \in Memories /\ SameFrames(todo, memory, memory', N - 1) /\ Top.kind # "call"
  BY <1>1, <1>7, <1>8
<1>10. /\ Linked(todo', N) = Linked(todo, N)
       /\ Above(todo', memory', N, Top.mark)
  BY <1>1, <1>3, <1>5, <1>9, ReplaceLeaves
<1>11. Len(todo') = N /\ todo'[N] = x /\ todo' \in Seq(Items)
  BY <1>1, <1>5, <1>9, ReplaceIs
<1>12. Good(todo', memory', N)
  <2>1. Reserved(x)  BY <1>1, <1>3, <1>6 DEF Reserved
  <2>2. GoodFields(todo', memory', N)  BY <1>6, <1>10, <1>11, <2>1 DEF GoodFields
  <2> QED BY <1>6, <1>11, <2>2 DEF Good, GoodBlock, GoodArgs, GoodOperation, GoodHost
<1>13. Stacked(todo', memory')  BY <1>1, <1>5, <1>9, <1>12, ReplaceKeeps
<1>14. IsOpen(x) /\ ~ IsBlock(x)  BY <1>5, <1>6, ItemIs
<1>15. EndIn(memory', x) = frameBump'  BY <1>1, <1>3, <1>6 DEF EndIn
<1>16. Above(todo', memory', N + 1, frameBump')
  <2> DEFINE u == todo'
             z == memory'
  <2>1. Stacked(u, z) /\ N \in 1..Len(u) /\ IsOpen(u[N])  BY <1>2, <1>11, <1>13, <1>14
  <2> HIDE DEF u, z, N
  <2>2. Above(u, z, N + 1, EndIn(z, u[N]))  BY <2>1, AboveUp
  <2> QED BY <1>11, <1>15, <2>2 DEF u, z
<1>17. Linked(todo', N + 1) = Linked(todo', N)
  <2>1. N \in 1..Len(todo')  BY <1>2, <1>11
  <2> HIDE DEF N
  <2> QED BY <1>11, <1>14, <2>1, LinkedAbove
<1> QED BY <1>1, <1>3, <1>10, <1>11, <1>13, <1>16, <1>17 DEF Inv

\* The words Install writes.
LEMMA FrameWords ==
    ASSUME NEW h \in Handlers, NEW held \in Nat, NEW at \in Nat, NEW a \in at..(at + FrameSize(h) - 1),
           handlers \in Nat
    PROVE  /\ Frame(h, held, at)[a] \in Int
           /\ a = at => Frame(h, held, at)[a] = handlers
           /\ a = at + 1 => Frame(h, held, at)[a] = EffectOf[h]
           /\ a = at + 2 => Frame(h, held, at)[a] = held
           /\ a > at + 2 => a - at - 2 \in 1..Operations[EffectOf[h]]
                            /\ Frame(h, held, at)[a] = Codes[h][a - at - 2]
<1>1. FrameSize(h) = 3 + Operations[EffectOf[h]] /\ Operations[EffectOf[h]] \in Nat
      /\ EffectOf[h] \in Int
  <2>1. EffectOf[h] \in Effects /\ Effects \subseteq Int  BY HandlerIs, HandlersAssumption
  <2> QED BY <2>1, HandlerIs
<1>2. Codes[h] \in [1..Operations[EffectOf[h]] -> Nat]  BY HandlersAssumption
<1>3. a \in Nat /\ a >= at /\ a <= at + 2 + Operations[EffectOf[h]]  BY <1>1
<1>4. a > at + 2 => a - at - 2 \in 1..Operations[EffectOf[h]]  BY <1>1, <1>3
<1>5. Frame(h, held, at)[a] = CASE a = at     -> handlers
                                [] a = at + 1 -> EffectOf[h]
                                [] a = at + 2 -> held
                                [] OTHER      -> Codes[h][a - at - 2]
  BY DEF Frame
<1>6. CASE a = at  BY <1>3, <1>5, <1>6
<1>7. CASE a = at + 1  BY <1>1, <1>3, <1>5, <1>7
<1>8. CASE a = at + 2  BY <1>3, <1>5, <1>8
<1>9. CASE a > at + 2
  <2>1. Frame(h, held, at)[a] = Codes[h][a - at - 2]  BY <1>3, <1>5, <1>9
  <2>2. Codes[h][a - at - 2] \in Nat  BY <1>2, <1>4, <1>9
  <2> QED BY <1>3, <1>4, <1>9, <2>1, <2>2
<1> QED BY <1>3, <1>6, <1>7, <1>8, <1>9

LEMMA HandlersIsNat == Inv => handlers \in Nat
<1> SUFFICES ASSUME Inv PROVE handlers \in Nat  OBVIOUS
<1>1. Stacked(todo, memory) /\ Len(todo) + 1 \in 1..(Len(todo) + 1)  BY DEF Inv, Stacked
<1>2. Linked(todo, Len(todo) + 1) \in 0..HEAP_START  BY <1>1, WalkMeets
<1> QED BY <1>2 DEF Inv

\* What Install leaves in memory.
LEMMA InstallWrites ==
    ASSUME Inv, Install
    PROVE  /\ memory' \in Memories
           /\ \A a \in Room : a < frameBump => memory'[a] = memory[a]
           /\ memory'[frameBump] = handlers
           /\ memory'[frameBump + 1] = EffectOf[Top.handler]
           /\ memory'[frameBump + 2] = Top.mark
           /\ \A o \in 1..Operations[EffectOf[Top.handler]] :
                 memory'[frameBump + 2 + o] = Codes[Top.handler][o]
           /\ HandlerIn(memory', frameBump) = Top.handler
<1> DEFINE h == Top.handler
           b == frameBump
           frame == Frame(h, Top.held, b)
<1>1. /\ Running /\ Top.kind = "fields" /\ b + FrameSize(h) <= HEAP_START
      /\ memory' = [a \in Room |-> IF a \in DOMAIN frame THEN frame[a] ELSE memory[a]]
  BY DEF Install, Fits
<1>2. /\ h \in Handlers /\ Fields[h] \in Nat /\ Top.mark \in Nat /\ Top.held = Top.mark
      /\ Top.mark + Fields[h] = b /\ FRAME_START <= Top.mark
      /\ FRAME_START \in Nat /\ HEAP_START \in Nat /\ b \in Nat
  BY <1>1, FieldsAre
<1>3. /\ FrameSize(h) = 3 + Operations[EffectOf[h]] /\ Operations[EffectOf[h]] \in Nat
      /\ Operations[EffectOf[h]] >= 1
  BY <1>2, HandlerIs
<1>4. handlers \in Nat /\ memory \in [Room -> Int]  BY HandlersIsNat DEF Inv, Stacked, Memories
<1>5. DOMAIN frame = b..(b + FrameSize(h) - 1)  BY DEF Frame
<1>6. b..(b + FrameSize(h) - 1) \subseteq Room
  <2>1. FRAME_START <= b /\ FrameSize(h) \in Nat  BY <1>2, <1>3
  <2> HIDE DEF h, b
  <2> QED BY <1>1, <1>2, <2>1 DEF Room
<1> DEFINE held == Top.held
<1>7. held \in Nat  BY <1>2
<1> HIDE DEF h, b, held
<1> DEFINE words == Frame(h, held, b)
<1>8. words = frame  BY DEF held
<1>9. \A a \in b..(b + FrameSize(h) - 1) :
         /\ words[a] \in Int
         /\ a = b => words[a] = handlers
         /\ a = b + 1 => words[a] = EffectOf[h]
         /\ a = b + 2 => words[a] = held
         /\ a > b + 2 => words[a] = Codes[h][a - b - 2]
  BY <1>2, <1>4, <1>7, FrameWords
<1> HIDE DEF words, frame
<1>10. \A a \in Room : memory'[a] = IF a \in b..(b + FrameSize(h) - 1) THEN words[a] ELSE memory[a]
  BY <1>1, <1>5, <1>8
<1>11. memory' \in [Room -> Int]
  <2>1. \A a \in Room : (IF a \in DOMAIN frame THEN frame[a] ELSE memory[a]) \in Int
    BY <1>4, <1>5, <1>8, <1>9
  <2> QED BY <1>1, <2>1
<1>12. \A a \in Room : a < b => memory'[a] = memory[a]
  <2>1. \A a \in Room : a \in Nat  BY RoomIs
  <2>2. \A a \in Room : a < b => a \notin b..(b + FrameSize(h) - 1)  BY <1>2, <2>1
  <2> QED BY <1>10, <2>2
<1>13. \A a \in b..(b + FrameSize(h) - 1) : memory'[a] = words[a]  BY <1>6, <1>10
<1>14. memory'[b] = handlers /\ memory'[b + 1] = EffectOf[h] /\ memory'[b + 2] = held
  <2>1. b \in b..(b + FrameSize(h) - 1) /\ b + 1 \in b..(b + FrameSize(h) - 1)
        /\ b + 2 \in b..(b + FrameSize(h) - 1)
    BY <1>2, <1>3
  <2> QED BY <1>9, <1>13, <2>1
<1>15. ASSUME NEW o \in 1..Operations[EffectOf[h]] PROVE memory'[b + 2 + o] = Codes[h][o]
  <2>1. b + 2 + o \in b..(b + FrameSize(h) - 1) /\ b + 2 + o > b + 2 /\ (b + 2 + o) - b - 2 = o
    BY <1>2, <1>3
  <2>2. words[b + 2 + o] = Codes[h][(b + 2 + o) - b - 2]  BY <1>9, <2>1
  <2> QED BY <1>13, <2>1, <2>2
<1>16. HandlerIn(memory', b) = h
  <2>1. 1 \in 1..Operations[EffectOf[h]] /\ b + 2 + 1 = b + 3  BY <1>2, <1>3
  <2>2. memory'[b + 3] = Codes[h][1]  BY <1>15, <2>1
  <2> QED BY <1>2, <2>1, <2>2, HandlerOfCode DEF HandlerIn
<1>17. held = Top.mark  BY <1>2 DEF held
<1> QED BY <1>11, <1>12, <1>14, <1>15, <1>16, <1>17 DEF h, b, Memories

LEMMA InstallKeeps == ASSUME Inv, Install PROVE Inv'
<1> DEFINE N == Len(todo)
           h == Top.handler
           b == frameBump
           x == [kind |-> "body", mark |-> Top.mark, frame |-> b]
<1>1. /\ Running /\ Top.kind = "fields" /\ b + FrameSize(h) <= HEAP_START
      /\ todo' = Append(Front(todo), x)
      /\ handlers' = b /\ frameBump' = b + FrameSize(h) /\ trapped' = trapped
  BY DEF Install, Fits, Continue
<1>2. /\ todo \in Seq(Items) /\ N \in Nat /\ N \in 1..N /\ Top = todo[N] /\ Stacked(todo, memory)
  BY <1>1, RunningIs
<1>3. /\ h \in Handlers /\ Fields[h] \in Nat /\ Top.mark \in Nat
      /\ Top.mark + Fields[h] = b /\ FRAME_START <= Top.mark
      /\ FRAME_START \in Nat /\ HEAP_START \in Nat /\ b \in Nat
      /\ Above(todo, memory, N, Top.mark) /\ Linked(todo, N) = handlers
  BY <1>1, FieldsAre
<1>4. FrameSize(h) \in Nat  BY <1>3, HandlerIs
<1>5. /\ memory' \in Memories
      /\ \A a \in Room : a < b => memory'[a] = memory[a]
      /\ memory'[b] = handlers /\ memory'[b + 1] = EffectOf[h] /\ memory'[b + 2] = Top.mark
      /\ \A o \in 1..Operations[EffectOf[h]] : memory'[b + 2 + o] = Codes[h][o]
      /\ HandlerIn(memory', b) = h
  BY InstallWrites
<1>6. x \in Items  BY <1>3 DEF Items
<1>7. x.kind = "body" /\ x.mark = Top.mark /\ x.frame = b  OBVIOUS
<1> HIDE DEF x
<1>8. SameFrames(todo, memory, memory', N - 1)
  <2> SUFFICES ASSUME NEW j \in 1..(N - 1), todo[j].kind = "body",
                      NEW a \in todo[j].frame..(EndIn(memory, todo[j]) - 1)
               PROVE  memory'[a] = memory[a]
    BY DEF SameFrames
  <2>1. /\ EndIn(memory, todo[j]) <= Top.mark /\ EndIn(memory, todo[j]) \in Nat /\ todo[j].frame \in Nat
        /\ a \in Room
    BY <1>1, <1>3, EndsBelow
  <2>2. a < b  BY <1>3, <2>1
  <2> QED BY <1>5, <2>1, <2>2
<1>9. memory' \in Memories /\ SameFrames(todo, memory, memory', N - 1) /\ Top.kind # "call"
  BY <1>1, <1>5, <1>8
<1>10. Linked(todo', N) = Linked(todo, N) /\ Above(todo', memory', N, Top.mark)
  BY <1>1, <1>3, <1>6, <1>9, ReplaceLeaves
<1>11. Len(todo') = N /\ todo'[N] = x /\ todo' \in Seq(Items)
  BY <1>1, <1>6, <1>9, ReplaceIs
<1>12. Good(todo', memory', N)
  <2>1. Laid(memory', x)  BY <1>1, <1>3, <1>5, <1>7 DEF Laid
  <2>2. GoodBlock(todo', memory', N)  BY <1>3, <1>5, <1>7, <1>10, <1>11, <2>1 DEF GoodBlock
  <2> QED BY <1>7, <1>11, <2>2 DEF Good, GoodFields, GoodArgs, GoodOperation, GoodHost
<1>13. Stacked(todo', memory')  BY <1>1, <1>6, <1>9, <1>12, ReplaceKeeps
<1>14. IsOpen(x) /\ IsBlock(x)  BY <1>6, <1>7, ItemIs
<1>15. EndIn(memory', x) = frameBump'  BY <1>1, <1>5, <1>7 DEF EndIn
<1>16. Above(todo', memory', N + 1, frameBump')
  <2> DEFINE u == todo'
             z == memory'
  <2>1. Stacked(u, z) /\ N \in 1..Len(u) /\ IsOpen(u[N])  BY <1>2, <1>11, <1>13, <1>14
  <2> HIDE DEF u, z, N
  <2>2. Above(u, z, N + 1, EndIn(z, u[N]))  BY <2>1, AboveUp
  <2> QED BY <1>11, <1>15, <2>2 DEF u, z
<1>17. Linked(todo', N + 1) = x.frame
  <2>1. N \in 1..Len(todo')  BY <1>2, <1>11
  <2> HIDE DEF N
  <2> QED BY <1>11, <1>14, <2>1, LinkedAbove
<1>18. frameBump' \in FRAME_START..HEAP_START
  <2> HIDE DEF b, h
  <2> QED BY <1>1, <1>3, <1>4
<1> QED BY <1>1, <1>7, <1>11, <1>13, <1>16, <1>17, <1>18 DEF Inv

\* An item that opens nothing takes the place of one that opened nothing.
LEMMA ReplacedKeeps ==
    ASSUME Inv, Running, Top.kind \notin {"call", "fields", "body"},
           NEW x \in Items, x.kind \notin {"fields", "body"}, todo' = Append(Front(todo), x),
           Good(todo', memory, Len(todo)),
           UNCHANGED <<memory, handlers, frameBump>>, trapped' = trapped
    PROVE  Inv'
<1> DEFINE N == Len(todo)
<1>0. memory' = memory /\ handlers' = handlers /\ frameBump' = frameBump /\ trapped' = trapped  OBVIOUS
<1>1. /\ todo \in Seq(Items) /\ N \in Nat /\ N \in 1..N /\ Top = todo[N] /\ Stacked(todo, memory)
      /\ Top \in Items
  BY RunningIs
<1>2. memory' \in Memories /\ SameFrames(todo, memory, memory', N - 1) /\ Top.kind # "call"
  BY <1>0, <1>1, SameMemory DEF Stacked
<1>3. ~ IsOpen(Top) /\ ~ IsBlock(Top) /\ ~ IsOpen(x) /\ ~ IsBlock(x)  BY <1>1, NotOpen
<1>4. Above(todo, memory, N, frameBump)
  <2>1. Above(todo, memory, N + 1, frameBump)  BY DEF Inv
  <2> HIDE DEF N
  <2>2. \A at : Above(todo, memory, N, at) <=> Above(todo, memory, N + 1, at)
    <3>1. N \in 1..Len(todo)  BY <1>1 DEF N
    <3> QED BY <1>1, <1>3, <3>1, AboveUp
  <2> QED BY <2>1, <2>2
<1>5. handlers = Linked(todo, N)
  <2>1. handlers = Linked(todo, N + 1)  BY DEF Inv
  <2> QED BY <1>1, <1>3, <2>1, LinkedAbove
<1>6. Linked(todo', N) = Linked(todo, N) /\ Above(todo', memory', N, frameBump)
  BY <1>2, <1>4, ReplaceLeaves
<1>7. Len(todo') = N /\ todo'[N] = x /\ todo' \in Seq(Items)
  BY <1>2, ReplaceIs
<1>8. Stacked(todo', memory')  BY <1>0, <1>2, ReplaceKeeps
<1>9. Above(todo', memory', N + 1, frameBump')
  <2> DEFINE u == todo'
             z == memory'
  <2>1. Stacked(u, z) /\ N \in 1..Len(u) /\ ~ IsOpen(u[N])  BY <1>1, <1>3, <1>7, <1>8
  <2>3. Above(u, z, N, frameBump')  BY <1>0, <1>6
  <2> HIDE DEF u, z, N
  <2>2. \A at : Above(u, z, N, at) <=> Above(u, z, N + 1, at)  BY <2>1, AboveUp
  <2> QED BY <2>2, <2>3 DEF u, z
<1>10. Linked(todo', N + 1) = Linked(todo', N)
  <2>1. N \in 1..Len(todo')  BY <1>1, <1>7
  <2> HIDE DEF N
  <2> QED BY <1>3, <1>7, <2>1, LinkedAbove
<1> QED BY <1>0, <1>5, <1>6, <1>7, <1>8, <1>9, <1>10 DEF Inv

\* The frame an answered `perform` looks in is an open block's.
LEMMA AnswererIs ==
    ASSUME Stacked(todo, memory), NEW i \in 1..(Len(todo) + 1), NEW e \in Effects,
           Answerer(todo, memory, i, e) # 0
    PROVE  \E j \in BlocksIn(todo, i) :
              /\ j = Max(AnswersIn(todo, memory, i, e))
              /\ \A k \in AnswersIn(todo, memory, i, e) : k <= j
              /\ todo[j].frame = Answerer(todo, memory, i, e)
              /\ j \in 1..Len(todo) /\ todo[j].kind = "body"
              /\ HandlerIn(memory, todo[j].frame) \in Handlers
              /\ EffectOf[HandlerIn(memory, todo[j].frame)] = e
              /\ memory[todo[j].frame + 2] = todo[j].mark /\ todo[j].mark \in Nat
              /\ \A o \in 1..Operations[e] :
                    memory[todo[j].frame + 2 + o] = Codes[HandlerIn(memory, todo[j].frame)][o]
<1> DEFINE A == AnswersIn(todo, memory, i, e)
<1>1. A # {} /\ Answerer(todo, memory, i, e) = todo[Max(A)].frame  BY DEF Answerer
<1>2. todo \in Seq(Items) /\ i - 1 \in Nat /\ A \subseteq 1..(i - 1) /\ A \subseteq BlocksIn(todo, i)
  BY DEF Stacked, AnswersIn, BlocksIn
<1>3. PICK j \in A : j = Max(A) /\ \A k \in A : k <= j  BY <1>1, <1>2, MaxIsGreatest
<1>4. /\ j \in BlocksIn(todo, i) /\ j \in 1..Len(todo) /\ todo[j].kind = "body"
      /\ memory[todo[j].frame + 1] = e
  BY <1>2, <1>3 DEF AnswersIn, BlocksIn, IsBlock
<1>5. Laid(memory, todo[j])  BY <1>4 DEF Stacked, Good, GoodBlock
<1>6. todo[j].mark \in Nat  BY <1>4, FrameIs
<1> DEFINE h == HandlerIn(memory, todo[j].frame)
<1>7. /\ h \in Handlers /\ memory[todo[j].frame + 1] = EffectOf[h]
      /\ memory[todo[j].frame + 2] = todo[j].mark
      /\ \A o \in 1..Operations[EffectOf[h]] : memory[todo[j].frame + 2 + o] = Codes[h][o]
  BY <1>5 DEF Laid
<1>8. EffectOf[h] = e  BY <1>4, <1>7
<1> HIDE DEF A, h
<1>9. \A k \in A : k <= j  BY <1>3
<1>10. todo[j].frame = Answerer(todo, memory, i, e)  BY <1>1, <1>3
<1> QED BY <1>3, <1>4, <1>6, <1>7, <1>8, <1>9, <1>10 DEF A, h

LEMMA AnswerKeeps == ASSUME Inv, Answer PROVE Inv'
<1> DEFINE N == Len(todo)
           e == Top.effect
           x == [kind |-> "op", cell |-> memory[Top.cursor + 2], code |-> memory[Top.cursor + 2 + Top.op]]
<1>1. /\ Running /\ Top.kind = "args" /\ Top.cursor # 0 /\ todo' = Append(Front(todo), x)
      /\ UNCHANGED <<memory, handlers, frameBump>> /\ trapped' = trapped
  BY DEF Answer, Continue
<1>2. /\ todo \in Seq(Items) /\ N \in Nat /\ N \in 1..N /\ N \in 1..(N + 1) /\ Top = todo[N]
      /\ Stacked(todo, memory) /\ Top \in Items /\ Good(todo, memory, N)
  BY <1>1, RunningIs
<1>3. e \in Effects /\ Top.cursor = Answerer(todo, memory, N, e) /\ Top.op \in 1..Operations[e]
  BY <1>1, <1>2, ItemIs DEF Good, GoodArgs
<1>4. PICK j \in BlocksIn(todo, N) :
         /\ todo[j].frame = Top.cursor /\ j \in 1..Len(todo)
         /\ HandlerIn(memory, todo[j].frame) \in Handlers
         /\ EffectOf[HandlerIn(memory, todo[j].frame)] = e
         /\ memory[todo[j].frame + 2] = todo[j].mark /\ todo[j].mark \in Nat
         /\ \A o \in 1..Operations[e] :
               memory[todo[j].frame + 2 + o] = Codes[HandlerIn(memory, todo[j].frame)][o]
  BY <1>1, <1>2, <1>3, AnswererIs
<1> DEFINE h == HandlerIn(memory, todo[j].frame)
<1>5. memory[Top.cursor + 2] = todo[j].mark /\ memory[Top.cursor + 2 + Top.op] = Codes[h][Top.op]
  BY <1>3, <1>4
<1>6. h \in Handlers /\ Top.op \in 1..Operations[EffectOf[h]]  BY <1>3, <1>4
<1> HIDE DEF h
<1>7. Codes[h][Top.op] \in Nat /\ HandlerOf(Codes[h][Top.op]) = h
  BY <1>6, HandlerOfCode, HandlersAssumption
<1>8. x \in Items  BY <1>4, <1>5, <1>7 DEF Items
<1>9. x.kind = "op" /\ x.cell = todo[j].mark /\ x.code = Codes[h][Top.op]  BY <1>5
<1> HIDE DEF x
<1>10. memory' = memory /\ memory \in Memories /\ SameFrames(todo, memory, memory', N - 1)
  BY <1>1, <1>2, SameMemory DEF Stacked
<1>11. BlocksIn(todo', N) = BlocksIn(todo, N)  BY <1>1, <1>8, <1>10, ReplaceLeaves
<1>12. todo'[N] = x /\ Agree(todo, todo', N - 1)  BY <1>1, <1>8, ReplaceIs
<1>13. todo'[j] = todo[j]
  <2>1. j \in 1..(N - 1)  BY <1>4 DEF BlocksIn
  <2> QED BY <1>12, <2>1 DEF Agree
<1>14. Good(todo', memory, N)
  <2>1. /\ j \in BlocksIn(todo', N) /\ x.cell = todo'[j].mark
        /\ HandlerIn(memory, todo'[j].frame) = HandlerOf(x.code)
    BY <1>4, <1>7, <1>9, <1>11, <1>13 DEF h
  <2>2. GoodOperation(todo', memory, N)  BY <1>12, <2>1 DEF GoodOperation
  <2> QED BY <1>9, <1>12, <2>2 DEF Good, GoodFields, GoodBlock, GoodArgs, GoodHost
<1>15. x.kind \notin {"fields", "body"} /\ Top.kind \notin {"call", "fields", "body"}  BY <1>1, <1>9
<1> QED BY <1>1, <1>8, <1>14, <1>15, ReplacedKeeps

\* The function that is running begins where something of its kind is highest.
LEMMA CurrentIs ==
    ASSUME Stacked(todo, memory), todo # <<>>
    PROVE  /\ Current \in 1..Len(todo) /\ todo[Current].kind \in {"call", "op"}
           /\ \A j \in 1..Len(todo) : todo[j].kind \in {"call", "op"} => j <= Current
           /\ \A i \in 1..Len(todo) : todo[i].kind \in {"call", "op"}
                /\ (\A j \in (i + 1)..Len(todo) : todo[j].kind \notin {"call", "op"}) => Current = i
<1>1. todo \in Seq(Items) /\ Len(todo) \in Nat /\ 1 \in 1..Len(todo) /\ todo[1].kind = "call"
  BY DEF Stacked
<1>2. Boundaries = {i \in 1..Len(todo) : todo[i].kind \in {"call", "op"}}  BY <1>1 DEF Boundaries
<1>3. Boundaries \subseteq 1..Len(todo) /\ Boundaries # {}  BY <1>1, <1>2
<1>4. Max(Boundaries) \in Boundaries /\ \A k \in Boundaries : k <= Max(Boundaries)
  BY <1>1, <1>3, MaxIsGreatest
<1>5. Current \in Boundaries /\ \A j \in Boundaries : j <= Current  BY <1>4 DEF Current
<1>6. ASSUME NEW i \in 1..Len(todo), todo[i].kind \in {"call", "op"},
             \A j \in (i + 1)..Len(todo) : todo[j].kind \notin {"call", "op"}
      PROVE  Current = i
  <2>1. i \in Boundaries /\ Current \in 1..Len(todo) /\ todo[Current].kind \in {"call", "op"}
    BY <1>2, <1>5, <1>6
  <2>2. i <= Current  BY <1>5, <2>1
  <2>3. Current \notin (i + 1)..Len(todo)  BY <1>6, <2>1
  <2> QED BY <1>1, <2>1, <2>2, <2>3
<1> QED BY <1>2, <1>5, <1>6

LEMMA AskHostKeeps == ASSUME ~ AsksAnywhere, Inv, AskHost PROVE Inv'
<1> DEFINE N == Len(todo)
           x == [kind |-> "host"]
<1>1. /\ Running /\ Top.kind = "args" /\ Current = N - 1 /\ todo' = Append(Front(todo), x)
      /\ UNCHANGED <<memory, handlers, frameBump>> /\ trapped' = trapped
  BY DEF AskHost, Continue
<1>2. todo \in Seq(Items) /\ N \in Nat /\ Stacked(todo, memory) /\ todo # <<>>  BY <1>1, RunningIs DEF Running
<1>3. x \in Items /\ x.kind = "host"  BY DEF Items
<1> HIDE DEF x
<1>4. N - 1 \in 1..N /\ todo[N - 1].kind \in {"call", "op"}  BY <1>1, <1>2, CurrentIs
<1>5. todo'[N] = x /\ Len(todo') = N /\ Agree(todo, todo', N - 1)  BY <1>1, <1>3, ReplaceIs
<1>6. N > 1 /\ todo'[N - 1] = todo[N - 1]  BY <1>2, <1>4, <1>5 DEF Agree
<1>7. GoodHost(todo', N)  BY <1>4, <1>5, <1>6 DEF GoodHost
<1>8. Good(todo', memory, N)
  BY <1>3, <1>5, <1>7 DEF Good, GoodFields, GoodBlock, GoodArgs, GoodOperation
<1>9. x.kind \notin {"fields", "body"} /\ Top.kind \notin {"call", "fields", "body"}  BY <1>1, <1>3
<1> QED BY <1>1, <1>3, <1>8, <1>9, ReplacedKeeps

\* Ending a number of items from the top, the memory as it was.
LEMMA CutKeeps ==
    ASSUME Inv, NEW n \in 0..(Len(todo) - 1), todo' = SubSeq(todo, 1, n), memory' = memory,
           handlers' = Linked(todo, n + 1), frameBump' \in FRAME_START..HEAP_START,
           Above(todo, memory, n + 1, frameBump'), trapped' = trapped
    PROVE  Inv'
<1>1. /\ Stacked(todo, memory) /\ todo \in Seq(Items) /\ Len(todo) \in Nat /\ n \in Nat
      /\ n < Len(todo) /\ memory \in Memories
  BY DEF Inv, Stacked
<1>2. /\ todo' \in Seq(Items) /\ Len(todo') = n /\ \A i \in 1..n : todo'[i] = todo[i]
  BY <1>1
<1> DEFINE u == todo'
<1>3. u \in Seq(Items) /\ Agree(todo, u, n) /\ Len(u) = n  BY <1>1, <1>2 DEF Agree
<1>4. u # <<>> => u[1].kind = "call"
  <2> SUFFICES ASSUME todo' # <<>> PROVE todo'[1].kind = "call"  OBVIOUS
  <2>1. 1 \in 1..n  BY <1>1, <1>2
  <2> QED BY <1>1, <1>2, <2>1 DEF Stacked
<1>5. \A i \in 1..n : todo[i].kind # "host"
  <2>1. \A i \in 1..Len(todo) : todo[i].kind = "host" => i = Len(todo)
    BY <1>1 DEF Stacked, Good, GoodHost
  <2> QED BY <1>1, <2>1
<1>6. SameFrames(todo, memory, memory, n)  BY SameMemory
<1> HIDE DEF u
<1>7. Stacked(u, memory)
  <2>1. Len(u) \in {n, n + 1} /\ ~ (Len(u) = n + 1)  BY <1>1, <1>3
  <2> QED BY <1>1, <1>3, <1>4, <1>5, <1>6, <2>1, Rebuilt
<1>8. Kept(todo, u, memory, memory, n)  BY <1>1, <1>3, <1>6, SameBelow
<1>9. n + 1 \in 1..(n + 1)  BY <1>1
<1>10. Linked(u, n + 1) = Linked(todo, n + 1) /\ Above(u, memory, n + 1, frameBump')
  BY <1>8, <1>9 DEF Kept
<1> QED BY <1>3, <1>7, <1>10 DEF Inv, u

LEMMA EndWithKeeps == ASSUME Inv, EndWith PROVE Inv'
<1> DEFINE N == Len(todo)
           n == N - 1
<1>1. /\ Running /\ Top.kind = "body" /\ handlers' = memory[Top.frame] /\ frameBump' = Top.mark
      /\ todo' = Front(todo) /\ memory' = memory /\ trapped' = trapped
  BY DEF EndWith, Continue
<1>2. /\ todo \in Seq(Items) /\ N \in Nat /\ N \in 1..N /\ Top = todo[N] /\ Stacked(todo, memory)
      /\ Good(todo, memory, N)
  BY <1>1, RunningIs
<1>3. n \in 0..(Len(todo) - 1) /\ n + 1 = N /\ todo' = SubSeq(todo, 1, n)  BY <1>1, <1>2 DEF Front
<1>4. Above(todo, memory, N, Top.mark) /\ memory[Top.frame] = Linked(todo, N)
  BY <1>1, <1>2 DEF Good, GoodBlock
<1>5. Top.mark \in FRAME_START..HEAP_START
  <2>1. /\ Top.mark \in Nat /\ Top.frame \in Nat /\ FRAME_START <= Top.mark /\ Top.mark <= Top.frame
        /\ Top.frame \in Room /\ Top.frame <= HEAP_START
    BY <1>1, <1>2, FrameIs, RoomIs
  <2> QED BY <2>1, LayoutAssumption
<1>6. handlers' = Linked(todo, n + 1) /\ Above(todo, memory, n + 1, frameBump')
      /\ frameBump' \in FRAME_START..HEAP_START
  BY <1>1, <1>3, <1>4, <1>5
<1> HIDE DEF n
<1> QED BY <1>1, <1>3, <1>6, CutKeeps

\* A function that has opened nothing of its own leaves both words right.
LEMMA LeaveKeeps ==
    ASSUME Inv, todo # <<>>, OpensNothing, Leave, trapped' = trapped
    PROVE  Inv'
<1> DEFINE n == Current - 1
           N == Len(todo) + 1
<1>1. Stacked(todo, memory) /\ todo \in Seq(Items) /\ Len(todo) \in Nat  BY DEF Inv, Stacked
<1>2. Current \in 1..Len(todo)  BY <1>1, CurrentIs
<1>3. n \in 0..(Len(todo) - 1) /\ n + 1 = Current  BY <1>1, <1>2
<1>4. OpensIn(todo, N) = OpensIn(todo, Current)
  BY <1>1, <1>2 DEF OpensIn, OpensNothing, IsOpen
<1>5. BlocksIn(todo, N) = BlocksIn(todo, Current)
  BY <1>1, <1>2 DEF BlocksIn, OpensNothing, IsBlock, Open
<1>6. Linked(todo, n + 1) = Linked(todo, N)  BY <1>3, <1>5 DEF Linked
<1>7. Above(todo, memory, N, frameBump) => Above(todo, memory, n + 1, frameBump)
  BY <1>3, <1>4 DEF Above, EndUnder
<1>8. /\ todo' = SubSeq(todo, 1, n) /\ memory' = memory /\ handlers' = handlers
      /\ frameBump' = frameBump
  BY DEF Leave
<1>9. handlers' = Linked(todo, n + 1) /\ Above(todo, memory, n + 1, frameBump')
      /\ frameBump' \in FRAME_START..HEAP_START
  BY <1>6, <1>7, <1>8 DEF Inv
<1> HIDE DEF n
<1> QED BY <1>3, <1>8, <1>9, CutKeeps

LEMMA ReturnKeeps == ASSUME ~ ReturnsInside, Inv, Return PROVE Inv'
<1>1. todo # <<>> /\ OpensNothing /\ Leave /\ trapped' = trapped
  BY DEF Return, Running, Continue
<1> QED BY <1>1, LeaveKeeps

LEMMA HostAnswerKeeps == ASSUME Inv, HostAnswer PROVE Inv'
<1> DEFINE N == Len(todo)
<1>1. todo # <<>> /\ Top.kind = "host" /\ Leave /\ trapped' = trapped
  BY DEF HostAnswer, Continue
<1>2. Stacked(todo, memory) /\ todo \in Seq(Items) /\ N \in Nat  BY DEF Inv, Stacked
<1>3. N \in 1..N /\ todo[N].kind = "host"  BY <1>1, <1>2 DEF Top, Last
<1>4. N > 1 /\ todo[N - 1].kind \in {"call", "op"}  BY <1>2, <1>3 DEF Stacked, Good, GoodHost
<1>5. Current = N - 1
  <2>1. N - 1 \in 1..N /\ \A j \in ((N - 1) + 1)..N : j = N  BY <1>2, <1>4
  <2>2. \A j \in ((N - 1) + 1)..N : todo[j].kind \notin {"call", "op"}  BY <1>3, <2>1
  <2> QED BY <1>1, <1>2, <1>4, <2>1, <2>2, CurrentIs
<1>6. OpensNothing
  <2>1. \A i \in (N - 1)..N : i = N - 1 \/ i = N  BY <1>2
  <2> QED BY <1>3, <1>4, <1>5, <2>1 DEF OpensNothing, Open
<1> QED BY <1>1, <1>6, LeaveKeeps

\* The words of a state cell are outside every frame.
LEMMA CellIsNoFrame ==
    ASSUME Stacked(todo, memory), NEW k \in 1..Len(todo), todo[k].kind = "body",
           NEW a \in todo[k].mark..(todo[k].frame - 1),
           NEW j \in 1..Len(todo), todo[j].kind = "body",
           NEW b \in todo[j].frame..(EndIn(memory, todo[j]) - 1)
    PROVE  a # b /\ a \in Room /\ b \in Room
<1>1. /\ todo[k].mark \in Nat /\ todo[k].frame \in Nat /\ FRAME_START <= todo[k].mark
      /\ todo[k].frame + 4 <= EndIn(memory, todo[k]) /\ EndIn(memory, todo[k]) <= HEAP_START
      /\ EndIn(memory, todo[k]) = todo[k].frame + FrameSize(HandlerIn(memory, todo[k].frame))
      /\ HandlerIn(memory, todo[k].frame) \in Handlers
  BY FrameIs
<1>2. /\ todo[j].mark \in Nat /\ todo[j].frame \in Nat /\ FRAME_START <= todo[j].mark
      /\ todo[j].mark <= todo[j].frame
      /\ EndIn(memory, todo[j]) <= HEAP_START
      /\ EndIn(memory, todo[j]) = todo[j].frame + FrameSize(HandlerIn(memory, todo[j].frame))
      /\ HandlerIn(memory, todo[j].frame) \in Handlers
  BY FrameIs
<1>3. EndIn(memory, todo[k]) \in Nat /\ EndIn(memory, todo[j]) \in Nat
      /\ FRAME_START \in Nat /\ HEAP_START \in Nat
  <2>1. FrameSize(HandlerIn(memory, todo[k].frame)) \in Nat  BY <1>1, HandlerIs
  <2>2. FrameSize(HandlerIn(memory, todo[j].frame)) \in Nat  BY <1>2, HandlerIs
  <2>3. EndIn(memory, todo[k]) \in Nat  BY <1>1, <2>1
  <2>4. EndIn(memory, todo[j]) \in Nat  BY <1>2, <2>2
  <2> QED BY <2>3, <2>4, LayoutAssumption
<1>4. todo \in Seq(Items) /\ Len(todo) \in Nat /\ j \in Nat /\ k \in Nat  BY DEF Stacked
<1>5. j < k => EndIn(memory, todo[j]) <= todo[k].mark
  <2> SUFFICES ASSUME j < k PROVE EndIn(memory, todo[j]) <= todo[k].mark  OBVIOUS
  <2>1. j \in OpensIn(todo, k)  BY <1>4 DEF OpensIn, IsOpen, Open
  <2> QED BY <2>1 DEF Stacked, Good, GoodBlock, Above
<1>6. k < j => EndIn(memory, todo[k]) <= todo[j].mark
  <2> SUFFICES ASSUME k < j PROVE EndIn(memory, todo[k]) <= todo[j].mark  OBVIOUS
  <2>1. k \in OpensIn(todo, j)  BY <1>4 DEF OpensIn, IsOpen, Open
  <2> QED BY <2>1 DEF Stacked, Good, GoodBlock, Above
<1> DEFINE mk == todo[k].mark
           fk == todo[k].frame
           ek == EndIn(memory, todo[k])
           mj == todo[j].mark
           fj == todo[j].frame
           ej == EndIn(memory, todo[j])
<1>7. /\ mk \in Nat /\ fk \in Nat /\ ek \in Nat /\ mj \in Nat /\ fj \in Nat /\ ej \in Nat
      /\ FRAME_START <= mk /\ fk + 4 <= ek /\ ek <= HEAP_START
      /\ FRAME_START <= mj /\ mj <= fj /\ ej <= HEAP_START
      /\ j < k => ej <= mk
      /\ k < j => ek <= mj
      /\ j = k => fj = fk
      /\ a \in mk..(fk - 1) /\ b \in fj..(ej - 1)
  BY <1>1, <1>2, <1>3, <1>5, <1>6
<1> HIDE DEF mk, fk, ek, mj, fj, ej
<1>8. a \in Nat /\ b \in Nat /\ a >= mk /\ a < fk /\ b >= fj /\ b < ej  BY <1>7
<1>9. a \in Room /\ b \in Room
  <2>1. a >= FRAME_START /\ a < HEAP_START /\ b >= FRAME_START /\ b < HEAP_START  BY <1>3, <1>7, <1>8
  <2> QED BY <1>3, <1>8, <2>1 DEF Room
<1>10. a # b  BY <1>4, <1>7, <1>8
<1> QED BY <1>9, <1>10

\* The block whose state an operation works on.
LEMMA CellIs ==
    ASSUME Stacked(todo, memory), NEW i \in 1..Len(todo), todo[i].kind = "op"
    PROVE  \E k \in BlocksIn(todo, i) :
              /\ k \in 1..Len(todo) /\ todo[k].kind = "body"
              /\ todo[i].cell = todo[k].mark /\ todo[k].mark \in Nat
              /\ HandlerIn(memory, todo[k].frame) = HandlerOf(todo[i].code)
              /\ HandlerOf(todo[i].code) \in Handlers
              /\ todo[k].frame = todo[k].mark + Fields[HandlerOf(todo[i].code)]
<1>1. PICK k \in BlocksIn(todo, i) :
         todo[i].cell = todo[k].mark /\ HandlerIn(memory, todo[k].frame) = HandlerOf(todo[i].code)
  BY DEF Stacked, Good, GoodOperation
<1>2. k \in 1..Len(todo) /\ todo[k].kind = "body"  BY DEF Stacked, BlocksIn, IsBlock
<1>3. Laid(memory, todo[k])  BY <1>2 DEF Stacked, Good, GoodBlock
<1>4. HandlerIn(memory, todo[k].frame) \in Handlers
      /\ todo[k].frame = todo[k].mark + Fields[HandlerIn(memory, todo[k].frame)]
  BY <1>3 DEF Laid
<1>5. todo[k].mark \in Nat  BY <1>2, FrameIs
<1> QED BY <1>1, <1>2, <1>4, <1>5

LEMMA SetFieldKeeps == ASSUME Inv, NEW v \in Values, SetField(v) PROVE Inv'
<1> DEFINE N == Len(todo)
           h == HandlerOf(todo[Current].code)
<1>1. Running /\ todo[Current].kind = "op" /\ UNCHANGED <<handlers, frameBump, todo, trapped>>
  BY DEF SetField, Continue
<1>2. PICK f \in 1..Fields[h] : memory' = [memory EXCEPT ![todo[Current].cell + f - 1] = v]
  BY DEF SetField
<1>3. /\ todo \in Seq(Items) /\ N \in Nat /\ Stacked(todo, memory) /\ todo # <<>>
      /\ \A i \in 1..N : todo[i].kind # "host"
  BY <1>1, RunningIs DEF Running
<1>4. Current \in 1..N  BY <1>3, CurrentIs
<1>5. PICK k \in BlocksIn(todo, Current) :
         /\ k \in 1..Len(todo) /\ todo[k].kind = "body"
         /\ todo[Current].cell = todo[k].mark /\ todo[k].mark \in Nat
         /\ h \in Handlers /\ todo[k].frame = todo[k].mark + Fields[h]
  BY <1>1, <1>3, <1>4, CellIs
<1> DEFINE c == todo[k].mark + f - 1
           w == [memory EXCEPT ![c] = v]
<1>6. c \in todo[k].mark..(todo[k].frame - 1)
  <2>1. Fields[h] \in Nat  BY <1>5, HandlerIs
  <2> HIDE DEF h
  <2> QED BY <1>5, <2>1
<1>7. memory' = w  BY <1>2, <1>5
<1>8. memory \in [Room -> Int] /\ v \in Int  BY <1>3, HandlersAssumption DEF Stacked, Memories
<1>9. w \in Memories  BY <1>8 DEF Memories
<1> HIDE DEF c
<1>10. SameFrames(todo, memory, w, N)
  <2> SUFFICES ASSUME NEW j \in 1..N, todo[j].kind = "body",
                      NEW b \in todo[j].frame..(EndIn(memory, todo[j]) - 1)
               PROVE  w[b] = memory[b]
    BY DEF SameFrames
  <2>1. c # b /\ b \in Room  BY <1>3, <1>5, <1>6, CellIsNoFrame
  <2> QED BY <1>8, <2>1
<1> HIDE DEF w
<1>11. Agree(todo, todo, N)  BY <1>3 DEF Agree
<1>12. Stacked(todo, w)
  <2>1. N \in {N, N + 1} /\ ~ (N = N + 1) /\ (todo # <<>> => todo[1].kind = "call")
    BY <1>3 DEF Stacked
  <2> QED BY <1>3, <1>9, <1>10, <1>11, <2>1, Rebuilt
<1>13. Kept(todo, todo, memory, w, N)  BY <1>3, <1>9, <1>10, <1>11, SameBelow
<1>14. N + 1 \in 1..(N + 1)  BY <1>3
<1>15. Above(todo, memory, N + 1, frameBump)  BY DEF Inv
<1>16. Above(todo, w, N + 1, frameBump)  BY <1>13, <1>14, <1>15 DEF Kept
<1>17. todo' = todo /\ handlers' = handlers /\ frameBump' = frameBump /\ trapped' = trapped  BY <1>1
<1> HIDE DEF N
<1> QED BY <1>7, <1>12, <1>16, <1>17 DEF Inv, N

LEMMA TrapKeeps == ASSUME Inv, NEW why \in {"nobody", "room"}, Trap(why) PROVE Inv'
<1>1. /\ trapped' = why /\ memory' = memory /\ handlers' = handlers /\ frameBump' = frameBump
      /\ todo' = todo
  BY DEF Trap
<1> QED BY <1>1 DEF Inv

LEMMA InitHolds == Init => Inv
<1> SUFFICES ASSUME Init PROVE Inv  OBVIOUS
<1>1. FRAME_START \in Nat /\ HEAP_START \in Nat /\ FRAME_START <= HEAP_START  BY LayoutAssumption
<1>2. /\ memory = [a \in Room |-> 0] /\ handlers = 0 /\ frameBump = FRAME_START
      /\ todo = <<[kind |-> "call"]>> /\ trapped = "no"
  BY DEF Init
<1> DEFINE x == [kind |-> "call"]
<1>3. x \in Items /\ x.kind = "call"
  <2>1. x \in [kind : {"call", "host"}]  OBVIOUS
  <2> QED BY <2>1 DEF Items
<1> HIDE DEF x
<1>4. todo = <<x>>  BY <1>2 DEF x
<1>5. todo \in Seq(Items) /\ Len(todo) = 1 /\ todo[1] = x /\ memory \in Memories
  <2>1. \A y \in Items : <<y>> \in Seq(Items) /\ Len(<<y>>) = 1 /\ <<y>>[1] = y  OBVIOUS
  <2>2. memory \in Memories  BY <1>2 DEF Memories
  <2> QED BY <1>3, <1>4, <2>1, <2>2
<1>6. Good(todo, memory, 1)
  BY <1>3, <1>5 DEF Good, GoodFields, GoodBlock, GoodArgs, GoodOperation, GoodHost
<1>7. Stacked(todo, memory)  BY <1>3, <1>5, <1>6 DEF Stacked
<1>8. BlocksIn(todo, 2) = {} /\ OpensIn(todo, 2) = {}
  BY <1>3, <1>5 DEF BlocksIn, OpensIn, IsBlock, IsOpen, Open
<1>9. Linked(todo, 2) = 0 /\ Above(todo, memory, 2, FRAME_START)
  BY <1>1, <1>8 DEF Linked, Above, EndUnder
<1> QED BY <1>1, <1>2, <1>5, <1>7, <1>9 DEF Inv

LEMMA NextKeeps ==
    ASSUME ~ ReturnsInside, ~ AsksAnywhere, Inv, [Next]_vars
    PROVE  Inv'
<1>1. ASSUME NEW h \in Handlers, With(h) PROVE Inv'  BY <1>1, WithKeeps
<1>2. ASSUME NEW v \in Values, StartField(v) PROVE Inv'  BY <1>2, StartFieldKeeps
<1>3. ASSUME NEW v \in Values, SetField(v) PROVE Inv'  BY <1>3, SetFieldKeeps
<1>4. CASE Install  BY <1>4, InstallKeeps
<1>5. CASE EndWith  BY <1>5, EndWithKeeps
<1>6. CASE Call  BY <1>6, CallKeeps
<1>7. CASE Return  BY <1>7, ReturnKeeps
<1>8. ASSUME NEW e \in Effects, NEW op \in 1..Operations[e], Perform(e, op) PROVE Inv'
  BY <1>8, PerformKeeps
<1>9. ASSUME NEW e \in Effects, Unanswered(e) PROVE Inv'  BY <1>9, TrapKeeps DEF Unanswered
<1>10. CASE Answer  BY <1>10, AnswerKeeps
<1>11. CASE AskHost  BY <1>11, AskHostKeeps
<1>12. CASE HostAnswer  BY <1>12, HostAnswerKeeps
<1>13. CASE NoRoom  BY <1>13, TrapKeeps DEF NoRoom
<1>14. CASE UNCHANGED vars
  <2>1. memory' = memory /\ handlers' = handlers /\ frameBump' = frameBump /\ todo' = todo
        /\ trapped' = trapped
    BY <1>14 DEF vars
  <2> QED BY <2>1 DEF Inv
<1> QED BY <1>1, <1>2, <1>3, <1>4, <1>5, <1>6, <1>7, <1>8, <1>9, <1>10, <1>11, <1>12, <1>13, <1>14 DEF Next

-----------------------------------------------------------------------------
(* What the invariant says.                                                *)
LEMMA BlocksAre == \A i : BlocksBelow(i) = BlocksIn(todo, i) /\ Bodies(i) = Rank(todo, i)
BY DEF BlocksBelow, BlocksIn, IsBlock, Bodies, Rank

LEMMA InvTypes == Inv => TypeOK
<1> SUFFICES ASSUME Inv PROVE TypeOK  OBVIOUS
<1> DEFINE N == Len(todo)
<1>1. /\ Stacked(todo, memory) /\ todo \in Seq(Items) /\ N \in Nat /\ N + 1 \in 1..(N + 1)
      /\ memory \in [Room -> Int]
      /\ trapped \in {"no", "nobody", "room"} /\ frameBump \in FRAME_START..HEAP_START
      /\ handlers = Linked(todo, N + 1)
  BY DEF Inv, Stacked, Memories
<1>2. FRAME_START \in Nat /\ HEAP_START \in Nat  BY LayoutAssumption
<1>3. ASSUME NEW i \in 1..N, todo[i].kind = "body"
      PROVE  todo[i].frame \in Room /\ todo[i].mark \in Room
  <2>1. /\ todo[i].frame \in Room /\ todo[i].mark \in Nat /\ todo[i].frame \in Nat
        /\ FRAME_START <= todo[i].mark /\ todo[i].mark <= todo[i].frame
    BY <1>1, <1>3, FrameIs
  <2> QED BY <1>2, <2>1 DEF Room
<1>4. handlers \in {0} \cup Room
  <2>1. CASE BlocksIn(todo, N + 1) = {}  BY <1>1, <2>1 DEF Linked
  <2>2. CASE BlocksIn(todo, N + 1) # {}
    <3>1. BlocksIn(todo, N + 1) \subseteq 1..N  BY <1>1 DEF BlocksIn
    <3>2. Max(BlocksIn(todo, N + 1)) \in BlocksIn(todo, N + 1)  BY <1>1, <2>2, <3>1, MaxIsGreatest
    <3>3. todo[Max(BlocksIn(todo, N + 1))].kind = "body"  BY <3>2 DEF BlocksIn, IsBlock
    <3> QED BY <1>1, <1>3, <2>2, <3>1, <3>2, <3>3 DEF Linked
  <2> QED BY <2>1, <2>2
<1>5. ASSUME NEW i \in 1..N, todo[i].kind = "fields"
      PROVE  /\ todo[i].mark \in FRAME_START..HEAP_START /\ todo[i].held = todo[i].mark
             /\ todo[i].n \in 0..Fields[todo[i].handler]
  <2>1. Reserved(todo[i]) /\ Above(todo, memory, i, todo[i].mark)
    BY <1>1, <1>5 DEF Stacked, Good, GoodFields
  <2>2. todo[i] \in Items  BY <1>1
  <2>3. todo[i].mark \in Nat /\ Fields[todo[i].handler] \in Nat  BY <1>5, <2>2, ItemIs, HandlerIs
  <2>4. FRAME_START <= todo[i].mark /\ todo[i].mark + Fields[todo[i].handler] <= HEAP_START
    BY <2>1 DEF Above, Reserved
  <2>5. todo[i].held = todo[i].mark /\ todo[i].n \in 0..Fields[todo[i].handler]
    BY <2>1 DEF Reserved
  <2> QED BY <1>2, <2>3, <2>4, <2>5
<1>6. ASSUME NEW i \in 1..N, todo[i].kind = "args" PROVE todo[i].cursor \in {0} \cup Room
  <2>1. todo[i] \in Items /\ i \in 1..(N + 1)  BY <1>1
  <2>2. todo[i].effect \in Effects  BY <1>6, <2>1, ItemIs
  <2>3. todo[i].cursor = Answerer(todo, memory, i, todo[i].effect)
    BY <1>1, <1>6 DEF Stacked, Good, GoodArgs
  <2>4. CASE todo[i].cursor # 0
    <3>1. PICK j \in BlocksIn(todo, i) :
             todo[j].frame = todo[i].cursor /\ j \in 1..Len(todo) /\ todo[j].kind = "body"
      BY <1>1, <2>1, <2>2, <2>3, <2>4, AnswererIs
    <3> QED BY <1>3, <3>1
  <2> QED BY <2>4
<1>7. ASSUME NEW i \in 1..N, todo[i].kind = "op" PROVE todo[i].cell \in FRAME_START..HEAP_START
  <2>1. PICK k \in BlocksIn(todo, i) :
           k \in 1..Len(todo) /\ todo[k].kind = "body" /\ todo[i].cell = todo[k].mark
    BY <1>1, <1>7, CellIs
  <2>2. todo[k].mark \in Room  BY <1>3, <2>1
  <2> QED BY <1>2, <2>1, <2>2 DEF Room
<1>8. DOMAIN todo = 1..N  BY <1>1
<1> HIDE DEF N
<1> QED BY <1>1, <1>3, <1>4, <1>5, <1>6, <1>7, <1>8 DEF TypeOK

LEMMA FramesMeet ==
    ASSUME Inv
    PROVE  /\ Frames \in Seq(Room) /\ Meets(todo, Frames, Len(todo) + 1)
           /\ Stacked(todo, memory) /\ Len(todo) \in Nat
<1>1. Stacked(todo, memory) /\ Len(todo) + 1 \in 1..(Len(todo) + 1) /\ handlers = Linked(todo, Len(todo) + 1)
      /\ Len(todo) \in Nat
  BY DEF Inv, Stacked
<1> QED BY <1>1, WalkMeets DEF Frames

LEMMA InvFrames == Inv => FramesAreTheOpenBlocks
BY FramesMeet, BlocksAre DEF Meets, FramesAreTheOpenBlocks

LEMMA InvRoom == Inv => RoomIsGivenBack
<1> SUFFICES ASSUME Inv PROVE RoomIsGivenBack  OBVIOUS
<1>1. /\ Stacked(todo, memory) /\ todo \in Seq(Items) /\ Len(todo) \in Nat
      /\ Above(todo, memory, Len(todo) + 1, frameBump)
  BY DEF Inv, Stacked
<1>2. \A x : Ends(x) = EndIn(memory, x)  BY DEF Ends, EndIn, HandlerAt, HandlerIn
<1>3. \A i : OpensBelow(i) = OpensIn(todo, i)  BY DEF OpensBelow, OpensIn, IsOpen
<1>4. \A i : EndBelow(i) = EndUnder(todo, memory, i)  BY <1>2, <1>3 DEF EndBelow, EndUnder
<1>5. frameBump = EndBelow(Len(todo) + 1)  BY <1>1, <1>4 DEF Above
<1>6. ASSUME NEW i \in OpensBelow(Len(todo) + 1) PROVE todo[i].mark = EndBelow(i)
  <2>1. i \in 1..Len(todo) /\ todo[i].kind \in {"fields", "body"}
    BY <1>1 DEF OpensBelow, Open
  <2>2. Above(todo, memory, i, todo[i].mark)
    BY <1>1, <2>1 DEF Stacked, Good, GoodFields, GoodBlock
  <2> QED BY <1>4, <2>2 DEF Above
<1> QED BY <1>5, <1>6 DEF RoomIsGivenBack

\* Every open block's frame is somewhere on the walk.
LEMMA BlockIsMet ==
    ASSUME Inv, NEW j \in BlocksIn(todo, Len(todo) + 1)
    PROVE  /\ Len(Frames) \in Nat
           /\ Len(Frames) - Bodies(j) \in 1..Len(Frames)
           /\ Frames[Len(Frames) - Bodies(j)] = todo[j].frame
           /\ Bodies(j) \in Nat /\ Bodies(j) + 1 \in 1..Len(Frames)
           /\ Reverse(Frames)[Bodies(j) + 1] = todo[j].frame
<1>1. Frames \in Seq(Room) /\ Meets(todo, Frames, Len(todo) + 1)  BY FramesMeet
<1>2. Bodies(j) = Rank(todo, j)  BY BlocksAre
<1> DEFINE n == Len(Frames)
           r == Bodies(j)
<1>3. n \in Nat /\ r \in 0..(n - 1) /\ Frames[n - r] = todo[j].frame  BY <1>1, <1>2 DEF Meets
<1>4. \A i \in 1..n : Reverse(Frames)[i] = Frames[n - i + 1]  BY DEF Reverse
<1> HIDE DEF n, r
<1>5. r + 1 \in 1..n /\ n - (r + 1) + 1 = n - r /\ n - r \in 1..n /\ r \in Nat  BY <1>3
<1>6. Reverse(Frames)[r + 1] = Frames[n - r]  BY <1>4, <1>5
<1> QED BY <1>3, <1>5, <1>6 DEF n, r

LEMMA InvStale == Inv => NothingStaleIsRead
<1> SUFFICES ASSUME Inv, NEW i \in DOMAIN todo
             PROVE  /\ todo[i].kind = "args" /\ todo[i].cursor # 0 =>
                         /\ Contains(Frames, todo[i].cursor)
                         /\ memory[todo[i].cursor + 1] = todo[i].effect
                    /\ todo[i].kind = "op" => Holder(todo[i].cell) # 0
  BY DEF NothingStaleIsRead
<1>1. /\ Stacked(todo, memory) /\ todo \in Seq(Items) /\ Len(todo) \in Nat
      /\ i \in 1..Len(todo) /\ i \in 1..(Len(todo) + 1) /\ todo[i] \in Items
  BY DEF Inv, Stacked
<1>2. \A j \in BlocksIn(todo, i) : j \in BlocksIn(todo, Len(todo) + 1)  BY <1>1 DEF BlocksIn
<1>3. ASSUME todo[i].kind = "args", todo[i].cursor # 0
      PROVE  Contains(Frames, todo[i].cursor) /\ memory[todo[i].cursor + 1] = todo[i].effect
  <2>1. todo[i].effect \in Effects  BY <1>1, <1>3, ItemIs
  <2>2. todo[i].cursor = Answerer(todo, memory, i, todo[i].effect)
    BY <1>1, <1>3 DEF Stacked, Good, GoodArgs
  <2>3. PICK j \in BlocksIn(todo, i) :
           /\ todo[j].frame = todo[i].cursor /\ j \in 1..Len(todo) /\ todo[j].kind = "body"
           /\ EffectOf[HandlerIn(memory, todo[j].frame)] = todo[i].effect
    BY <1>1, <1>3, <2>1, <2>2, AnswererIs
  <2>4. memory[todo[j].frame + 1] = EffectOf[HandlerIn(memory, todo[j].frame)]
    BY <1>1, <2>3 DEF Stacked, Good, GoodBlock, Laid
  <2>5. Len(Frames) - Bodies(j) \in 1..Len(Frames) /\ Frames[Len(Frames) - Bodies(j)] = todo[j].frame
    BY <1>2, BlockIsMet
  <2>6. Contains(Frames, todo[i].cursor)  BY <2>3, <2>5 DEF Contains
  <2> QED BY <2>3, <2>4, <2>6
<1>4. ASSUME todo[i].kind = "op" PROVE Holder(todo[i].cell) # 0
  <2>1. PICK k \in BlocksIn(todo, i) :
           k \in 1..Len(todo) /\ todo[k].kind = "body" /\ todo[i].cell = todo[k].mark
    BY <1>1, <1>4, CellIs
  <2>2. memory[todo[k].frame + 2] = todo[k].mark
    BY <1>1, <2>1 DEF Stacked, Good, GoodBlock, Laid
  <2>3. Bodies(k) + 1 \in 1..Len(Frames) /\ Reverse(Frames)[Bodies(k) + 1] = todo[k].frame
    BY <1>2, BlockIsMet
  <2> DEFINE at == {p \in DOMAIN Frames : memory[Reverse(Frames)[p] + 2] = todo[i].cell}
  <2>4. DOMAIN Frames = 1..Len(Frames)  BY FramesMeet
  <2>5. Bodies(k) + 1 \in at  BY <2>1, <2>2, <2>3, <2>4
  <2>6. (CHOOSE p \in at : TRUE) \in at  BY <2>5
  <2>7. \A p \in at : p # 0  BY <2>4
  <2> HIDE DEF at
  <2>8. at # {}  BY <2>5
  <2> QED BY <2>6, <2>7, <2>8 DEF Holder, at
<1> QED BY <1>3, <1>4

-----------------------------------------------------------------------------
(* The theorems.                                                           *)

\* The invariant is inductive where no function returns from inside a `with` it
\* opened and the host is asked last.
THEOREM InvHolds == ASSUME ~ ReturnsInside, ~ AsksAnywhere PROVE Spec => []Inv
<1>1. Inv /\ [Next]_vars => Inv'  BY NextKeeps
<1> QED BY <1>1, InitHolds, PTL DEF Spec

\* HANDLERS, FRAME_BUMP and every address the code under way still holds are
\* addresses of the frame stack.
THEOREM TypeCorrect == ASSUME ~ ReturnsInside, ~ AsksAnywhere PROVE Spec => []TypeOK
BY InvHolds, InvTypes, PTL

\* The walk `perform` takes from HANDLERS meets the frames of the open blocks,
\* innermost first, and no other.
THEOREM WalkMeetsTheOpenBlocks ==
    ASSUME ~ ReturnsInside, ~ AsksAnywhere PROVE Spec => []FramesAreTheOpenBlocks
BY InvHolds, InvFrames, PTL

\* Ending a block gives back all it took: FRAME_BUMP is where what is still
\* open ends, and no two cells or frames overlap.
THEOREM RoomComesBack ==
    ASSUME ~ ReturnsInside, ~ AsksAnywhere PROVE Spec => []RoomIsGivenBack
BY InvHolds, InvRoom, PTL

\* The frame a `perform` found and the cell an operation was handed are still
\* linked when they are read.
THEOREM NothingStale ==
    ASSUME ~ ReturnsInside, ~ AsksAnywhere PROVE Spec => []NothingStaleIsRead
BY InvHolds, InvStale, PTL

-----------------------------------------------------------------------------
(* The compiled code implements what `with` means.  First what the mapping  *)
(* gives, in terms of the open blocks: their installations in order, and    *)
(* what is under way with the number of blocks below it.                    *)
Words(m, at, n) == [f \in 1..n |-> m[at + f - 1]]
ScopeIn(m, x) ==
    [handler |-> HandlerIn(m, x.frame), state |-> Words(m, x.mark, Fields[HandlerIn(m, x.frame)])]

Installs(t, m, s) ==
    /\ s = [p \in 1..Rank(t, Len(t) + 1) |-> s[p]]
    /\ \A j \in BlocksIn(t, Len(t) + 1) :
          Rank(t, j) + 1 \in 1..Rank(t, Len(t) + 1) /\ s[Rank(t, j) + 1] = ScopeIn(m, t[j])
    /\ \A p \in 1..Rank(t, Len(t) + 1) : \E j \in BlocksIn(t, Len(t) + 1) : p = Rank(t, j) + 1

Shows(t, m, i, x) ==
    /\ t[i].kind = "call" => x = [kind |-> "call", height |-> Rank(t, i)]
    /\ t[i].kind = "op" => \A k \in BlocksIn(t, i) : t[k].mark = t[i].cell =>
          x = [kind |-> "op", height |-> Rank(t, i), self |-> Rank(t, k) + 1, code |-> t[i].code]
    /\ t[i].kind = "fields" =>
          x = [kind |-> "fields", handler |-> t[i].handler, start |-> Words(m, t[i].held, t[i].n)]
    /\ t[i].kind = "body" => x = [kind |-> "body", height |-> Rank(t, i)]
    /\ t[i].kind = "args" => x = [kind |-> "args", effect |-> t[i].effect, op |-> t[i].op]
    /\ t[i].kind = "host" => x = [kind |-> "host"]
    /\ x.kind = t[i].kind

Views(t, m, v) ==
    /\ v = [i \in 1..Len(t) |-> v[i]]
    /\ \A i \in 1..Len(t) : Shows(t, m, i, v[i])

LEMMA RankType ==
    ASSUME Stacked(todo, memory), NEW i \in 1..(Len(todo) + 1)
    PROVE  Rank(todo, i) \in Nat
<1>0. todo \in Seq(Items) /\ Len(todo) \in Nat  BY DEF Stacked
<1>1. CASE i \in 1..Len(todo)  BY <1>0, <1>1, RankAbove
<1>2. CASE i = Len(todo) + 1
  <2>1. CASE Len(todo) = 0  BY <1>2, <2>1, RankZero
  <2>2. CASE Len(todo) # 0
    <3>1. Len(todo) \in 1..Len(todo)  BY <1>0, <2>2
    <3> QED BY <1>0, <1>2, <3>1, RankAbove
  <2> QED BY <2>1, <2>2
<1> QED BY <1>0, <1>1, <1>2

LEMMA InstalledIs == Inv => Installs(todo, memory, Installed)
<1> SUFFICES ASSUME Inv PROVE Installs(todo, memory, Installed)  OBVIOUS
<1> DEFINE N == Len(todo) + 1
           R == Rank(todo, N)
<1>1. /\ Frames \in Seq(Room) /\ Meets(todo, Frames, N) /\ Stacked(todo, memory) /\ Len(todo) \in Nat
      /\ R \in Nat
  BY FramesMeet, RankType
<1>2. Len(Frames) = R /\ DOMAIN Frames = 1..R  BY <1>1 DEF Meets
<1>3. Installed = [p \in 1..R |-> Scope(Reverse(Frames)[p])]  BY <1>2 DEF Installed
<1>4. Installed = [p \in 1..R |-> Installed[p]]  BY <1>3
<1>5. ASSUME NEW j \in BlocksIn(todo, N)
      PROVE  Rank(todo, j) + 1 \in 1..R /\ Installed[Rank(todo, j) + 1] = ScopeIn(memory, todo[j])
  <2>1. Rank(todo, j) + 1 \in 1..R /\ Reverse(Frames)[Rank(todo, j) + 1] = todo[j].frame
    BY <1>2, BlockIsMet, BlocksAre
  <2>2. j \in 1..Len(todo) /\ todo[j].kind = "body"  BY <1>1 DEF BlocksIn, IsBlock
  <2>3. memory[todo[j].frame + 2] = todo[j].mark  BY <1>1, <2>2 DEF Stacked, Good, GoodBlock, Laid
  <2>4. Scope(todo[j].frame) = ScopeIn(memory, todo[j])
    BY <2>3 DEF Scope, ScopeIn, Words, HandlerAt, HandlerIn
  <2>5. Installed[Rank(todo, j) + 1] = Scope(Reverse(Frames)[Rank(todo, j) + 1])  BY <1>3, <2>1
  <2> QED BY <2>1, <2>4, <2>5
<1>6. ASSUME NEW p \in 1..R PROVE \E j \in BlocksIn(todo, N) : p = Rank(todo, j) + 1
  <2> HIDE DEF R
  <2>1. (R - p) + 1 \in 1..R  BY <1>1
  <2>2. PICK j \in BlocksIn(todo, N) : (R - p) + 1 = R - Rank(todo, j)
    BY <1>1, <2>1 DEF Meets, R
  <2>3. Rank(todo, j) \in 0..(R - 1)  BY <1>1 DEF Meets, R
  <2>4. p = Rank(todo, j) + 1  BY <1>1, <2>2, <2>3
  <2> QED BY <2>4
<1> QED BY <1>4, <1>5, <1>6 DEF Installs

\* No two open blocks began at the same word.
LEMMA MarksDiffer ==
    ASSUME Stacked(todo, memory), NEW j \in 1..Len(todo), NEW k \in 1..Len(todo),
           todo[j].kind = "body", todo[k].kind = "body", todo[j].mark = todo[k].mark
    PROVE  j = k
<1>1. ASSUME NEW a \in 1..Len(todo), NEW b \in 1..Len(todo), a < b,
             todo[a].kind = "body", todo[b].kind = "body"
      PROVE  todo[a].mark # todo[b].mark
  <2>1. /\ todo[a].mark \in Nat /\ todo[a].frame \in Nat /\ todo[a].mark <= todo[a].frame
        /\ todo[a].frame + 4 <= EndIn(memory, todo[a])
        /\ EndIn(memory, todo[a]) = todo[a].frame + FrameSize(HandlerIn(memory, todo[a].frame))
        /\ HandlerIn(memory, todo[a].frame) \in Handlers
    BY <1>1, FrameIs
  <2>2. FrameSize(HandlerIn(memory, todo[a].frame)) \in Nat  BY <2>1, HandlerIs
  <2>3. EndIn(memory, todo[a]) \in Nat  BY <2>1, <2>2
  <2>4. a \in OpensIn(todo, b)  BY <1>1 DEF Stacked, OpensIn, IsOpen, Open
  <2>5. EndIn(memory, todo[a]) <= todo[b].mark
    BY <1>1, <2>4 DEF Stacked, Good, GoodBlock, Above
  <2>6. todo[b].mark \in Nat  BY <1>1, FrameIs
  <2> DEFINE ma == todo[a].mark
             fa == todo[a].frame
             ea == EndIn(memory, todo[a])
             mb == todo[b].mark
  <2>7. ma \in Nat /\ fa \in Nat /\ ea \in Nat /\ mb \in Nat /\ ma <= fa /\ fa + 4 <= ea /\ ea <= mb
    BY <2>1, <2>3, <2>5, <2>6
  <2> HIDE DEF ma, fa, ea, mb
  <2>8. ma # mb  BY <2>7
  <2> QED BY <2>8 DEF ma, mb
<1>2. j \in Nat /\ k \in Nat  BY DEF Stacked
<1>3. ~ (j < k) /\ ~ (k < j)  BY <1>1
<1> QED BY <1>2, <1>3

\* The installation a cell belongs to.
LEMMA HolderIs ==
    ASSUME Inv, NEW k \in BlocksIn(todo, Len(todo) + 1)
    PROVE  Holder(todo[k].mark) = Rank(todo, k) + 1
<1> DEFINE at == {p \in DOMAIN Frames : memory[Reverse(Frames)[p] + 2] = todo[k].mark}
           N == Len(todo) + 1
           R == Rank(todo, N)
<1>1. /\ Frames \in Seq(Room) /\ Meets(todo, Frames, N) /\ Stacked(todo, memory) /\ Len(todo) \in Nat
      /\ R \in Nat
  BY FramesMeet, RankType
<1>2. DOMAIN Frames = 1..R /\ Len(Frames) = R  BY <1>1 DEF Meets
<1>3. \A j \in BlocksIn(todo, N) :
         /\ j \in 1..Len(todo) /\ todo[j].kind = "body"
         /\ memory[todo[j].frame + 2] = todo[j].mark
         /\ Rank(todo, j) + 1 \in 1..R
         /\ Reverse(Frames)[Rank(todo, j) + 1] = todo[j].frame
  <2> SUFFICES ASSUME NEW j \in BlocksIn(todo, N)
               PROVE  /\ j \in 1..Len(todo) /\ todo[j].kind = "body"
                      /\ memory[todo[j].frame + 2] = todo[j].mark
                      /\ Rank(todo, j) + 1 \in 1..R
                      /\ Reverse(Frames)[Rank(todo, j) + 1] = todo[j].frame
    OBVIOUS
  <2>1. j \in 1..Len(todo) /\ todo[j].kind = "body"  BY <1>1 DEF BlocksIn, IsBlock
  <2>2. memory[todo[j].frame + 2] = todo[j].mark  BY <1>1, <2>1 DEF Stacked, Good, GoodBlock, Laid
  <2> QED BY <1>2, <2>1, <2>2, BlockIsMet, BlocksAre
<1>4. \A p \in 1..R : \E j \in BlocksIn(todo, N) : p = Rank(todo, j) + 1
  BY InstalledIs DEF Installs
<1> HIDE DEF N, R
<1>5. Rank(todo, k) + 1 \in at  BY <1>2, <1>3 DEF N
<1>6. ASSUME NEW p \in at PROVE p = Rank(todo, k) + 1
  <2>1. p \in 1..R /\ memory[Reverse(Frames)[p] + 2] = todo[k].mark  BY <1>2
  <2>2. PICK j \in BlocksIn(todo, N) : p = Rank(todo, j) + 1  BY <1>4, <2>1
  <2>3. todo[j].mark = todo[k].mark  BY <1>3, <2>1, <2>2
  <2>4. j = k  BY <1>1, <1>3, <2>3, MarksDiffer DEF N
  <2> QED BY <2>2, <2>4
<1> HIDE DEF at
<1>7. at # {} /\ (CHOOSE p \in at : TRUE) = Rank(todo, k) + 1  BY <1>5, <1>6
<1> QED BY <1>7 DEF Holder, at

LEMMA UnderWayIs == Inv => Views(todo, memory, UnderWay)
<1> SUFFICES ASSUME Inv PROVE Views(todo, memory, UnderWay)  OBVIOUS
<1>1. Stacked(todo, memory) /\ todo \in Seq(Items) /\ Len(todo) \in Nat /\ DOMAIN todo = 1..Len(todo)
  BY DEF Inv, Stacked
<1>2. UnderWay = [i \in 1..Len(todo) |-> UnderWay[i]]
  <2> DEFINE View(i) ==
        CASE todo[i].kind = "call" -> [kind |-> "call", height |-> Bodies(i)]
          [] todo[i].kind = "op" -> [kind |-> "op", height |-> Bodies(i),
                                     self |-> Holder(todo[i].cell), code |-> todo[i].code]
          [] todo[i].kind = "fields" -> [kind |-> "fields", handler |-> todo[i].handler,
                 start |-> [f \in 1..todo[i].n |-> memory[todo[i].held + f - 1]]]
          [] todo[i].kind = "body" -> [kind |-> "body", height |-> Bodies(i)]
          [] todo[i].kind = "args" -> [kind |-> "args", effect |-> todo[i].effect, op |-> todo[i].op]
          [] todo[i].kind = "host" -> todo[i]
  <2>1. UnderWay = [i \in DOMAIN todo |-> View(i)]  BY DEF UnderWay
  <2> HIDE DEF View
  <2>2. UnderWay = [i \in 1..Len(todo) |-> View(i)]  BY <1>1, <2>1
  <2> QED BY <2>2
<1>3. ASSUME NEW i \in 1..Len(todo) PROVE Shows(todo, memory, i, UnderWay[i])
  <2>1. todo[i] \in Items  BY <1>1
  <2>2. todo[i].kind \in {"call", "host", "fields", "body", "args", "op"}  BY <2>1, ItemIs
  <2>3. UnderWay[i] =
        CASE todo[i].kind = "call" -> [kind |-> "call", height |-> Bodies(i)]
          [] todo[i].kind = "op" -> [kind |-> "op", height |-> Bodies(i),
                                     self |-> Holder(todo[i].cell), code |-> todo[i].code]
          [] todo[i].kind = "fields" -> [kind |-> "fields", handler |-> todo[i].handler,
                 start |-> Words(memory, todo[i].held, todo[i].n)]
          [] todo[i].kind = "body" -> [kind |-> "body", height |-> Bodies(i)]
          [] todo[i].kind = "args" -> [kind |-> "args", effect |-> todo[i].effect, op |-> todo[i].op]
          [] todo[i].kind = "host" -> todo[i]
    BY <1>1 DEF UnderWay, Words
  <2>4. Bodies(i) = Rank(todo, i)  BY BlocksAre
  <2>5. CASE todo[i].kind = "call"  BY <2>3, <2>4, <2>5 DEF Shows
  <2>6. CASE todo[i].kind = "fields"
    <3>1. UnderWay[i] = [kind |-> "fields", handler |-> todo[i].handler,
                         start |-> Words(memory, todo[i].held, todo[i].n)]
      BY <2>3, <2>6
    <3> QED BY <2>6, <3>1 DEF Shows
  <2>7. CASE todo[i].kind = "body"  BY <2>3, <2>4, <2>7 DEF Shows
  <2>8. CASE todo[i].kind = "args"  BY <2>3, <2>8 DEF Shows
  <2>9. CASE todo[i].kind = "host"
    <3>1. todo[i] = [kind |-> "host"]  BY <2>1, <2>9 DEF Items
    <3> QED BY <2>3, <2>9, <3>1 DEF Shows
  <2>10. CASE todo[i].kind = "op"
    <3>1. UnderWay[i] = [kind |-> "op", height |-> Rank(todo, i), self |-> Holder(todo[i].cell),
                         code |-> todo[i].code]
      BY <2>3, <2>4, <2>10
    <3>2. ASSUME NEW k \in BlocksIn(todo, i), todo[k].mark = todo[i].cell
          PROVE  Holder(todo[i].cell) = Rank(todo, k) + 1
      <4>1. k \in BlocksIn(todo, Len(todo) + 1)  BY <1>1 DEF BlocksIn
      <4> QED BY <3>2, <4>1, HolderIs
    <3> QED BY <2>10, <3>1, <3>2 DEF Shows
  <2> QED BY <2>2, <2>5, <2>6, <2>7, <2>8, <2>9, <2>10
<1> QED BY <1>2, <1>3 DEF Views

\* Sequences, without saying what of.
Listing(s, n) == n \in Nat /\ s = [p \in 1..n |-> s[p]]

LEMMA ListingIs ==
    ASSUME NEW n, NEW s, Listing(s, n)
    PROVE  \E S : s \in Seq(S) /\ Len(s) = n /\ DOMAIN s = 1..n /\ (s = <<>> <=> n = 0)
<1> DEFINE S == {s[p] : p \in 1..n}
<1>1. n \in Nat /\ s = [p \in 1..n |-> s[p]]  BY DEF Listing
<1>2. \A p \in 1..n : s[p] \in S  OBVIOUS
<1> HIDE DEF S
<1>3. s \in [1..n -> S]  BY <1>1, <1>2
<1>4. s \in Seq(S) /\ Len(s) = n  BY <1>1, <1>3
<1> QED BY <1>1, <1>4

LEMMA ListingsEqual ==
    ASSUME NEW n, NEW s, NEW y, Listing(s, n), Listing(y, n), \A p \in 1..n : y[p] = s[p]
    PROVE  y = s
BY DEF Listing

LEMMA AppendOf ==
    ASSUME NEW T, NEW s \in Seq(T), NEW x \in T
    PROVE  /\ Append(s, x) \in Seq(T) /\ Len(Append(s, x)) = Len(s) + 1
           /\ \A p \in 1..Len(s) : Append(s, x)[p] = s[p]
           /\ Append(s, x)[Len(s) + 1] = x
OBVIOUS

LEMMA AppendIs ==
    ASSUME NEW n, NEW s, NEW y, Listing(s, n), Listing(y, n + 1), \A p \in 1..n : y[p] = s[p]
    PROVE  y = Append(s, y[n + 1])
<1>1. PICK S : s \in Seq(S) /\ Len(s) = n  BY ListingIs
<1>2. n \in Nat /\ y = [p \in 1..(n + 1) |-> y[p]]  BY DEF Listing
<1> DEFINE x == y[n + 1]
           T == S \cup {x}
           a == Append(s, x)
<1>3. a = [p \in 1..(n + 1) |-> a[p]] /\ (\A p \in 1..n : a[p] = s[p]) /\ a[n + 1] = y[n + 1]
  <2>1. s \in Seq(T) /\ x \in T /\ Len(s) = n  BY <1>1
  <2> HIDE DEF T, x
  <2>2. /\ a \in Seq(T) /\ Len(a) = Len(s) + 1
        /\ \A p \in 1..Len(s) : a[p] = s[p]
        /\ a[Len(s) + 1] = x
    BY <2>1, AppendOf, Zenon
  <2> HIDE DEF a
  <2> QED BY <1>2, <2>1, <2>2 DEF x
<1> HIDE DEF a
<1>4. \A p \in 1..(n + 1) : p \in 1..n \/ p = n + 1  BY <1>2
<1>5. \A p \in 1..(n + 1) : a[p] = y[p]  BY <1>3, <1>4
<1>6. a = y  BY <1>2, <1>3, <1>5
<1> QED BY <1>6 DEF a, x

LEMMA CutIs ==
    ASSUME NEW n, NEW s, NEW r \in 0..n, Listing(s, n)
    PROVE  /\ Listing(SubSeq(s, 1, r), r)
           /\ \A p \in 1..r : SubSeq(s, 1, r)[p] = s[p]
<1>1. PICK S : s \in Seq(S) /\ Len(s) = n  BY ListingIs
<1>2. n \in Nat /\ r \in Nat  BY DEF Listing
<1> DEFINE c == SubSeq(s, 1, r)
<1>3. c \in Seq(S) /\ Len(c) = r /\ \A p \in 1..r : c[p] = s[p]  BY <1>1, <1>2
<1> HIDE DEF c
<1>4. c = [p \in 1..r |-> c[p]]  BY <1>3
<1> QED BY <1>2, <1>3, <1>4 DEF Listing, c

LEMMA FrontCut ==
    ASSUME NEW n, NEW s, Listing(s, n), n >= 1
    PROVE  /\ Listing(Front(s), n - 1) /\ \A p \in 1..(n - 1) : Front(s)[p] = s[p]
           /\ Last(s) = s[n] /\ s # <<>>
<1>1. PICK S : s \in Seq(S) /\ Len(s) = n /\ (s = <<>> <=> n = 0)  BY ListingIs
<1>2. n \in Nat /\ n - 1 \in 0..n  BY DEF Listing
<1>3. Front(s) = SubSeq(s, 1, n - 1)  BY <1>1 DEF Front
<1>4. Last(s) = s[n]  BY <1>1 DEF Last
<1> DEFINE r == n - 1
<1>5. r \in 0..n  BY <1>2
<1> HIDE DEF r
<1>6. Listing(SubSeq(s, 1, r), r) /\ \A p \in 1..r : SubSeq(s, 1, r)[p] = s[p]  BY <1>5, CutIs
<1>7. s # <<>>  BY <1>1, <1>2
<1> QED BY <1>3, <1>4, <1>6, <1>7 DEF r

\* What a step leaves below a place, whose cells it does not write, is mapped to
\* what it was mapped to.
SameCells(t, m, w, n) ==
    \A j \in 1..n : IsOpen(t[j]) =>
        \A a \in t[j].mark..(EndIn(m, t[j]) - 1) : w[a] = m[a]

LEMMA SameCellsFrames ==
    ASSUME Stacked(todo, memory), NEW n \in 0..Len(todo), NEW w, SameCells(todo, memory, w, n)
    PROVE  SameFrames(todo, memory, w, n)
<1> SUFFICES ASSUME NEW j \in 1..n, todo[j].kind = "body",
                    NEW a \in todo[j].frame..(EndIn(memory, todo[j]) - 1)
             PROVE  w[a] = memory[a]
  BY DEF SameFrames
<1>1. j \in 1..Len(todo) /\ IsOpen(todo[j])  BY DEF Stacked, IsOpen, Open
<1>2. todo[j].mark \in Nat /\ todo[j].frame \in Nat /\ todo[j].mark <= todo[j].frame  BY <1>1, FrameIs
<1>3. a \in todo[j].mark..(EndIn(memory, todo[j]) - 1)  BY <1>2
<1> QED BY <1>1, <1>3 DEF SameCells

LEMMA MapsBelow ==
    ASSUME NEW u \in Seq(Items), NEW w \in Memories, NEW n,
           Stacked(todo, memory), Agree(todo, u, n), SameCells(todo, memory, w, n)
    PROVE  /\ Kept(todo, u, memory, w, n)
           /\ \A i \in 1..(n + 1) : Rank(u, i) = Rank(todo, i)
           /\ \A i \in 1..(n + 1) : \A j \in BlocksIn(todo, i) :
                 Rank(u, j) = Rank(todo, j) /\ ScopeIn(w, u[j]) = ScopeIn(memory, todo[j])
           /\ \A i \in 1..n : \A x, y : Shows(todo, memory, i, x) /\ Shows(u, w, i, y) => y = x
<1>0. /\ todo \in Seq(Items) /\ n \in Nat /\ n <= Len(todo) /\ n \in 0..Len(todo)
      /\ \A j \in 1..n : u[j] = todo[j] /\ j \in 1..Len(todo) /\ todo[j] \in Items /\ j \in 1..(n + 1)
  BY DEF Stacked, Agree
<1>1. SameFrames(todo, memory, w, n)  BY <1>0, SameCellsFrames
<1>2. Kept(todo, u, memory, w, n)  BY <1>1, SameBelow
<1>3. /\ \A i \in 1..(n + 1) : BlocksIn(u, i) = BlocksIn(todo, i)
      /\ \A j \in 1..n : todo[j].kind = "body" => HandlerIn(w, todo[j].frame) = HandlerIn(memory, todo[j].frame)
  BY <1>2 DEF Kept
<1>4. \A i \in 1..(n + 1) : Rank(u, i) = Rank(todo, i)  BY <1>3 DEF Rank
<1>5. ASSUME NEW j \in 1..n, todo[j].kind = "body" PROVE ScopeIn(w, u[j]) = ScopeIn(memory, todo[j])
  <2> DEFINE h == HandlerIn(memory, todo[j].frame)
  <2>1. /\ HandlerIn(w, todo[j].frame) = h /\ u[j] = todo[j] /\ IsOpen(todo[j])
    BY <1>0, <1>3, <1>5 DEF IsOpen, Open
  <2>2. /\ h \in Handlers /\ todo[j].mark \in Nat /\ todo[j].frame \in Nat
        /\ EndIn(memory, todo[j]) = todo[j].frame + FrameSize(h)
    BY <1>0, <1>5, FrameIs
  <2>3. Laid(memory, todo[j])  BY <1>0, <1>5 DEF Stacked, Good, GoodBlock
  <2>4. todo[j].frame = todo[j].mark + Fields[h]  BY <2>3 DEF Laid
  <2> HIDE DEF h
  <2>5. Fields[h] \in Nat /\ FrameSize(h) \in Nat  BY <2>2, HandlerIs
  <2>6. ASSUME NEW f \in 1..Fields[h] PROVE w[todo[j].mark + f - 1] = memory[todo[j].mark + f - 1]
    <3> DEFINE c == todo[j].mark
               d == todo[j].frame
               e == EndIn(memory, todo[j])
    <3>1. c \in Nat /\ d \in Nat /\ e = d + FrameSize(h) /\ d = c + Fields[h]  BY <2>2, <2>4
    <3> HIDE DEF c, d, e
    <3>2. c + f - 1 \in c..(e - 1)  BY <2>5, <3>1
    <3> QED BY <2>1, <3>2 DEF SameCells, c, e
  <2>7. Words(w, todo[j].mark, Fields[h]) = Words(memory, todo[j].mark, Fields[h])  BY <2>6 DEF Words
  <2> QED BY <2>1, <2>7 DEF ScopeIn, h
<1>6. ASSUME NEW i \in 1..(n + 1), NEW j \in BlocksIn(todo, i)
      PROVE  Rank(u, j) = Rank(todo, j) /\ ScopeIn(w, u[j]) = ScopeIn(memory, todo[j])
  <2>1. j \in 1..n /\ todo[j].kind = "body"  BY <1>0 DEF BlocksIn, IsBlock
  <2> QED BY <1>0, <1>4, <1>5, <2>1
<1>7. ASSUME NEW i \in 1..n, NEW x, NEW y, Shows(todo, memory, i, x), Shows(u, w, i, y) PROVE y = x
  <2>1. /\ u[i] = todo[i] /\ Rank(u, i) = Rank(todo, i) /\ todo[i] \in Items /\ i \in 1..(n + 1)
        /\ i \in 1..Len(todo) /\ BlocksIn(u, i) = BlocksIn(todo, i)
    BY <1>0, <1>3, <1>4
  <2>2. todo[i].kind \in {"call", "host", "fields", "body", "args", "op"}  BY <2>1, ItemIs
  <2>3. CASE todo[i].kind \in {"call", "body"}  BY <1>7, <2>1, <2>3 DEF Shows
  <2>4. CASE todo[i].kind \in {"args", "host"}  BY <1>7, <2>1, <2>4 DEF Shows
  <2>5. CASE todo[i].kind = "fields"
    <3> DEFINE at == todo[i].held
               k == todo[i].n
    <3>1. /\ x = [kind |-> "fields", handler |-> todo[i].handler, start |-> Words(memory, at, k)]
          /\ y = [kind |-> "fields", handler |-> todo[i].handler, start |-> Words(w, at, k)]
      BY <1>7, <2>1, <2>5 DEF Shows
    <3>2. Reserved(todo[i])  BY <2>1, <2>5 DEF Stacked, Good, GoodFields
    <3>3. IsOpen(todo[i]) /\ EndIn(memory, todo[i]) = at + Fields[todo[i].handler]
      BY <2>1, <2>5, ItemIs DEF EndIn
    <3>4. at \in Nat /\ Fields[todo[i].handler] \in Nat /\ todo[i].mark = at /\ k \in 0..Fields[todo[i].handler]
      BY <2>1, <2>5, <3>2, ItemIs, HandlerIs DEF Reserved
    <3>5. ASSUME NEW f \in 1..k PROVE w[at + f - 1] = memory[at + f - 1]
      <4> HIDE DEF at, k
      <4>1. at + f - 1 \in at..(EndIn(memory, todo[i]) - 1)  BY <3>3, <3>4
      <4> QED BY <3>3, <3>4, <4>1 DEF SameCells
    <3> HIDE DEF at, k
    <3>6. Words(w, at, k) = Words(memory, at, k)  BY <3>5 DEF Words
    <3> QED BY <3>1, <3>6
  <2>6. CASE todo[i].kind = "op"
    <3>1. PICK k \in BlocksIn(todo, i) : todo[i].cell = todo[k].mark /\ k \in 1..Len(todo)
      BY <2>1, <2>6, CellIs
    <3>2. k \in 1..n  BY <1>0 DEF BlocksIn
    <3>3. u[k].mark = u[i].cell /\ Rank(u, k) = Rank(todo, k)  BY <1>0, <1>4, <2>1, <3>1, <3>2
    <3>4. x = [kind |-> "op", height |-> Rank(todo, i), self |-> Rank(todo, k) + 1, code |-> todo[i].code]
      BY <1>7, <2>6, <3>1 DEF Shows
    <3>5. y = [kind |-> "op", height |-> Rank(u, i), self |-> Rank(u, k) + 1, code |-> u[i].code]
      BY <1>7, <2>1, <2>6, <3>1, <3>3 DEF Shows
    <3> QED BY <2>1, <3>3, <3>4, <3>5
  <2> QED BY <2>2, <2>3, <2>4, <2>5, <2>6
<1> QED BY <1>2, <1>4, <1>6, <1>7

Moves(u, w, n, s, v, y, z) ==
    /\ u \in Seq(Items) /\ w \in Memories
    /\ Stacked(todo, memory) /\ Agree(todo, u, n) /\ SameCells(todo, memory, w, n)
    /\ Installs(todo, memory, s) /\ Views(todo, memory, v)
    /\ Installs(u, w, y) /\ Views(u, w, z) /\ Len(u) \in {n, n + 1}

MapsTo(u, n, s, v, y, z) ==
    /\ \A i \in 1..n : z[i] = v[i]
    /\ Listing(v, Len(todo)) /\ Listing(z, Len(u))
    /\ Listing(s, Rank(todo, Len(todo) + 1)) /\ Listing(y, Rank(u, Len(u) + 1))
    /\ Rank(u, n + 1) = Rank(todo, n + 1)
    /\ Rank(todo, n + 1) \in 0..Rank(todo, Len(todo) + 1)
    /\ \A p \in 1..Rank(todo, n + 1) : y[p] = s[p]

LEMMA Mapped ==
    ASSUME NEW u, NEW w, NEW n, NEW s, NEW v, NEW y, NEW z, Moves(u, w, n, s, v, y, z)
    PROVE  MapsTo(u, n, s, v, y, z)
<1>12. /\ u \in Seq(Items) /\ w \in Memories
      /\ Stacked(todo, memory) /\ Agree(todo, u, n) /\ SameCells(todo, memory, w, n)
      /\ Installs(todo, memory, s) /\ Views(todo, memory, v)
      /\ Installs(u, w, y) /\ Views(u, w, z) /\ Len(u) \in {n, n + 1}
  BY DEF Moves
<1>0. /\ todo \in Seq(Items) /\ n \in Nat /\ n <= Len(todo) /\ Len(todo) \in Nat /\ Len(u) \in Nat
      /\ n + 1 \in 1..(n + 1) /\ n + 1 \in 1..(Len(todo) + 1) /\ Len(todo) + 1 \in 1..(Len(todo) + 1)
      /\ n <= Len(u)
      /\ \A j \in 1..n : j \in 1..Len(todo) /\ j \in 1..Len(u) /\ u[j] = todo[j]
  BY <1>12 DEF Stacked, Agree
<1>1. /\ Kept(todo, u, memory, w, n)
      /\ \A i \in 1..(n + 1) : Rank(u, i) = Rank(todo, i)
      /\ \A i \in 1..(n + 1) : \A j \in BlocksIn(todo, i) :
            Rank(u, j) = Rank(todo, j) /\ ScopeIn(w, u[j]) = ScopeIn(memory, todo[j])
      /\ \A i \in 1..n : \A a, b : Shows(todo, memory, i, a) /\ Shows(u, w, i, b) => b = a
  BY <1>12, MapsBelow
<1>2. \A i \in 1..n : z[i] = v[i]
  <2>1. \A i \in 1..n : Shows(todo, memory, i, v[i]) /\ Shows(u, w, i, z[i])  BY <1>0, <1>12 DEF Views
  <2> QED BY <1>1, <2>1
<1>3. Listing(v, Len(todo)) /\ Listing(z, Len(u))  BY <1>0, <1>12 DEF Views, Listing
<1>4. Rank(todo, n + 1) \in Nat /\ Rank(todo, Len(todo) + 1) \in Nat  BY <1>0, <1>12, RankType
<1>5. Rank(u, n + 1) = Rank(todo, n + 1)  BY <1>0, <1>1
<1>6. Rank(u, Len(u) + 1) \in Nat
  <2>1. CASE Len(u) = n  BY <1>4, <1>5, <2>1
  <2>2. CASE Len(u) = n + 1
    <3>1. n + 1 \in 1..Len(u)  BY <1>0, <2>2
    <3> DEFINE k == n + 1
    <3>2. k \in 1..Len(u) /\ Rank(u, k) \in Nat  BY <1>4, <1>5, <3>1
    <3> HIDE DEF k
    <3>3. Rank(u, k + 1) = IF IsBlock(u[k]) THEN Rank(u, k) + 1 ELSE Rank(u, k)  BY <1>12, <3>2, RankAbove
    <3>4. Rank(u, k + 1) \in Nat  BY <3>2, <3>3
    <3> QED BY <2>2, <3>4 DEF k
  <2> QED BY <1>12, <2>1, <2>2
<1>7. Listing(s, Rank(todo, Len(todo) + 1)) /\ Listing(y, Rank(u, Len(u) + 1))
  BY <1>4, <1>6, <1>12 DEF Installs, Listing
<1>8. \A j \in BlocksIn(todo, n + 1) :
         /\ j \in BlocksIn(todo, Len(todo) + 1) /\ j \in BlocksIn(u, Len(u) + 1)
         /\ j \in 1..n
  BY <1>0 DEF BlocksIn, IsBlock
<1>9. \A p \in 1..Rank(todo, n + 1) : \E j \in BlocksIn(todo, n + 1) : p = Rank(todo, j) + 1
  <2> SUFFICES ASSUME NEW p \in 1..Rank(todo, n + 1)
               PROVE  \E j \in BlocksIn(todo, n + 1) : p = Rank(todo, j) + 1
    OBVIOUS
  <2> DEFINE r == Rank(todo, n + 1)
  <2>1. Meets(todo, Chain[Linked(todo, n + 1)], n + 1)  BY <1>0, <1>12, WalkMeets
  <2>2. /\ \A j \in BlocksIn(todo, n + 1) : Rank(todo, j) \in 0..(r - 1)
        /\ \A q \in 1..r : \E j \in BlocksIn(todo, n + 1) : q = r - Rank(todo, j)
    BY <2>1 DEF Meets
  <2>5. r \in Nat /\ p \in 1..r  BY <1>4
  <2> HIDE DEF r
  <2>3. r - p + 1 \in 1..r  BY <2>5
  <2>4. PICK j \in BlocksIn(todo, n + 1) : r - p + 1 = r - Rank(todo, j)  BY <2>2, <2>3
  <2>6. Rank(todo, j) \in 0..(r - 1)  BY <2>2
  <2>7. p = Rank(todo, j) + 1  BY <2>4, <2>5, <2>6
  <2> QED BY <2>7
<1>10. ASSUME NEW p \in 1..Rank(todo, n + 1) PROVE y[p] = s[p]
  <2>1. PICK j \in BlocksIn(todo, n + 1) : p = Rank(todo, j) + 1  BY <1>9
  <2>2. s[Rank(todo, j) + 1] = ScopeIn(memory, todo[j])  BY <1>8, <1>12 DEF Installs
  <2>3. y[Rank(u, j) + 1] = ScopeIn(w, u[j])  BY <1>8, <1>12 DEF Installs
  <2>4. Rank(u, j) = Rank(todo, j) /\ ScopeIn(w, u[j]) = ScopeIn(memory, todo[j])  BY <1>0, <1>1
  <2> QED BY <2>1, <2>2, <2>3, <2>4
<1>11. Rank(todo, n + 1) \in 0..Rank(todo, Len(todo) + 1)
  <2>1. CASE Rank(todo, n + 1) = 0  BY <1>4, <2>1
  <2>2. CASE Rank(todo, n + 1) # 0
    <3>1. Rank(todo, n + 1) \in 1..Rank(todo, n + 1)  BY <1>4, <2>2
    <3>2. PICK j \in BlocksIn(todo, n + 1) : Rank(todo, n + 1) = Rank(todo, j) + 1  BY <1>9, <3>1
    <3>3. Rank(todo, j) + 1 \in 1..Rank(todo, Len(todo) + 1)  BY <1>8, <1>12 DEF Installs
    <3> QED BY <1>4, <3>2, <3>3
  <2> QED BY <2>1, <2>2
<1> QED BY <1>2, <1>3, <1>5, <1>7, <1>10, <1>11 DEF MapsTo

\* The same at the end of a step.
MapsState == Installs(todo, memory, Installed) /\ Views(todo, memory, UnderWay)

LEMMA MapsNext == Inv' => Installs(todo', memory', Installed') /\ Views(todo', memory', UnderWay')
<1>1. Inv => MapsState  BY InstalledIs, UnderWayIs DEF MapsState
<1>2. Inv' => MapsState'  BY <1>1, PTL
<1> QED BY <1>2 DEF MapsState

LEMMA MappedNext ==
    ASSUME Inv, Inv', NEW n \in Nat, Agree(todo, todo', n), SameCells(todo, memory, memory', n),
           Len(todo') \in {n, n + 1}
    PROVE  /\ \A i \in 1..n : UnderWay'[i] = UnderWay[i]
           /\ Listing(UnderWay, Len(todo)) /\ Listing(UnderWay', Len(todo'))
           /\ Listing(Installed, Rank(todo, Len(todo) + 1))
           /\ Listing(Installed', Rank(todo', Len(todo') + 1))
           /\ Rank(todo', n + 1) = Rank(todo, n + 1)
           /\ Rank(todo, n + 1) \in 0..Rank(todo, Len(todo) + 1)
           /\ \A p \in 1..Rank(todo, n + 1) : Installed'[p] = Installed[p]
<1> DEFINE u == todo'
           w == memory'
           s == Installed
           v == UnderWay
           y == Installed'
           z == UnderWay'
<1>1. /\ Stacked(todo, memory) /\ Installs(todo, memory, s) /\ Views(todo, memory, v)
      /\ Installs(u, w, y) /\ Views(u, w, z)
  BY MapsNext, InstalledIs, UnderWayIs DEF Inv
<1>2. /\ u \in Seq(Items) /\ w \in Memories /\ Agree(todo, u, n) /\ SameCells(todo, memory, w, n)
      /\ Len(u) \in {n, n + 1}
  BY DEF Inv, Stacked
<1> HIDE DEF u, w, s, v, y, z
<1>4. Moves(u, w, n, s, v, y, z)  BY <1>1, <1>2 DEF Moves
<1>5. MapsTo(u, n, s, v, y, z)  BY <1>4, Mapped
<1>3. /\ \A i \in 1..n : z[i] = v[i]
      /\ Listing(v, Len(todo)) /\ Listing(z, Len(u))
      /\ Listing(s, Rank(todo, Len(todo) + 1)) /\ Listing(y, Rank(u, Len(u) + 1))
      /\ Rank(u, n + 1) = Rank(todo, n + 1)
      /\ Rank(todo, n + 1) \in 0..Rank(todo, Len(todo) + 1)
      /\ \A p \in 1..Rank(todo, n + 1) : y[p] = s[p]
  BY <1>5 DEF MapsTo
<1> QED BY <1>3 DEF u, w, s, v, y, z

LEMMA SameMemoryCells == ASSUME NEW t, NEW m, NEW n PROVE SameCells(t, m, m, n)
BY DEF SameCells

\* What the mapping shows of a state.
LEMMA ShownIs ==
    ASSUME Inv, todo # <<>>
    PROVE  /\ Len(todo) \in Nat /\ Len(todo) \in 1..Len(todo)
           /\ Listing(UnderWay, Len(todo)) /\ UnderWay # <<>> /\ Len(UnderWay) = Len(todo)
           /\ Scopes!Top = UnderWay[Len(todo)]
           /\ \A i \in 1..Len(todo) : Shows(todo, memory, i, UnderWay[i])
           /\ \A i \in 1..Len(todo) : UnderWay[i].kind = todo[i].kind
           /\ Scopes!Current = Current
           /\ Len(Installed) = Rank(todo, Len(todo) + 1)
           /\ Listing(Installed, Rank(todo, Len(todo) + 1))
           /\ (Running => Scopes!Running)
<1>1. /\ Stacked(todo, memory) /\ todo \in Seq(Items) /\ Len(todo) \in Nat /\ Len(todo) \in 1..Len(todo)
      /\ DOMAIN todo = 1..Len(todo)
  BY DEF Inv, Stacked
<1>2. Views(todo, memory, UnderWay) /\ Installs(todo, memory, Installed)  BY InstalledIs, UnderWayIs
<1>3. Listing(UnderWay, Len(todo))  BY <1>1, <1>2 DEF Views, Listing
<1>4. Len(UnderWay) = Len(todo) /\ DOMAIN UnderWay = 1..Len(todo)  BY <1>3, ListingIs
<1>5. Last(UnderWay) = UnderWay[Len(todo)] /\ UnderWay # <<>>
  <2> DEFINE v == UnderWay
             n == Len(todo)
  <2>1. Listing(v, n) /\ n >= 1  BY <1>1, <1>3
  <2> HIDE DEF v, n
  <2>2. Last(v) = v[n] /\ v # <<>>  BY <2>1, FrontCut
  <2> QED BY <2>2 DEF v, n
<1>6. Scopes!Top = UnderWay[Len(todo)]  BY <1>5 DEF Scopes!Top, Scopes!Last, Last
<1>7. \A i \in 1..Len(todo) : Shows(todo, memory, i, UnderWay[i])  BY <1>2 DEF Views
<1>8. \A i \in 1..Len(todo) : UnderWay[i].kind = todo[i].kind  BY <1>7 DEF Shows
<1>9. Scopes!Boundaries = Boundaries  BY <1>1, <1>4, <1>8 DEF Scopes!Boundaries, Boundaries
<1>10. Scopes!Current = Current  BY <1>9 DEF Scopes!Current, Current
<1>11. Rank(todo, Len(todo) + 1) \in Nat
  <2>1. Len(todo) + 1 \in 1..(Len(todo) + 1)  BY <1>1
  <2> QED BY <1>1, <2>1, RankType
<1>12. Listing(Installed, Rank(todo, Len(todo) + 1))  BY <1>2, <1>11 DEF Installs, Listing
<1>13. Len(Installed) = Rank(todo, Len(todo) + 1)  BY <1>12, ListingIs
<1>14. Running => Scopes!Running
  <2>1. Running => trapped = "no" /\ Top.kind # "host"  BY DEF Running
  <2>2. Top = todo[Len(todo)]  BY DEF Top, Last
  <2> QED BY <1>1, <1>5, <1>6, <1>8, <2>1, <2>2 DEF Scopes!Running
<1> QED BY <1>1, <1>3, <1>4, <1>5, <1>6, <1>7, <1>8, <1>10, <1>12, <1>13, <1>14

\* A step that puts something on top that is no block, on all there was or in
\* place of something that was no block, leaves the installations as they were.
LEMMA PushMaps ==
    ASSUME Inv, Inv', Running, NEW x \in Items, ~ IsBlock(x), Push(x), memory' = memory
    PROVE  /\ Installed' = Installed
           /\ UnderWay' = Append(UnderWay, UnderWay'[Len(todo) + 1])
           /\ Shows(todo', memory', Len(todo) + 1, UnderWay'[Len(todo) + 1])
           /\ todo'[Len(todo) + 1] = x
           /\ Rank(todo', Len(todo) + 1) = Rank(todo, Len(todo) + 1)
<1> DEFINE n == Len(todo)
<1>1. todo \in Seq(Items) /\ n \in Nat  BY RunningIs
<1>2. todo' \in Seq(Items) /\ Len(todo') = n + 1 /\ todo'[n + 1] = x /\ Agree(todo, todo', n)
  BY PushIs
<1>3. SameCells(todo, memory, memory', n)  BY SameMemoryCells
<1> HIDE DEF n
<1>4. Len(todo') \in {n, n + 1} /\ n + 1 \in 1..Len(todo') /\ n + 1 \in Nat  BY <1>1, <1>2
<1>5. /\ \A i \in 1..n : UnderWay'[i] = UnderWay[i]
      /\ Listing(UnderWay, Len(todo)) /\ Listing(UnderWay', Len(todo'))
      /\ Listing(Installed, Rank(todo, Len(todo) + 1))
      /\ Listing(Installed', Rank(todo', Len(todo') + 1))
      /\ Rank(todo', n + 1) = Rank(todo, n + 1)
      /\ \A p \in 1..Rank(todo, n + 1) : Installed'[p] = Installed[p]
  BY <1>1, <1>2, <1>3, <1>4, MappedNext
<1>6. Rank(todo', (n + 1) + 1) = Rank(todo', n + 1)
  <2> DEFINE k == n + 1
  <2>1. k \in 1..Len(todo') /\ ~ IsBlock(todo'[k])  BY <1>2, <1>4
  <2> HIDE DEF k
  <2>2. Rank(todo', k + 1) = Rank(todo', k)  BY <1>2, <2>1, RankAbove
  <2> QED BY <2>2 DEF k
<1>7. Installed' = Installed
  <2> DEFINE r == Rank(todo, n + 1)
             s == Installed
             y == Installed'
  <2>1. Listing(s, r) /\ Listing(y, r) /\ \A p \in 1..r : y[p] = s[p]  BY <1>2, <1>5, <1>6 DEF n
  <2> HIDE DEF r, s, y
  <2>2. y = s  BY <2>1, ListingsEqual
  <2> QED BY <2>2 DEF s, y
<1>8. UnderWay' = Append(UnderWay, UnderWay'[n + 1])
  <2> DEFINE s == UnderWay
             y == UnderWay'
  <2>1. Listing(s, n) /\ Listing(y, n + 1) /\ \A p \in 1..n : y[p] = s[p]  BY <1>2, <1>5 DEF n
  <2> HIDE DEF s, y
  <2>2. y = Append(s, y[n + 1])  BY <2>1, AppendIs
  <2> QED BY <2>2 DEF s, y
<1>9. Shows(todo', memory', n + 1, UnderWay'[n + 1])  BY <1>4, MapsNext DEF Views
<1> QED BY <1>2, <1>5, <1>7, <1>8, <1>9 DEF n

LEMMA ReplaceBelow ==
    ASSUME Inv, Inv', Running, Top.kind \notin {"call", "body"}, NEW x \in Items,
           todo' = Append(Front(todo), x), SameCells(todo, memory, memory', Len(todo) - 1)
    PROVE  /\ Listing(Installed, Rank(todo, Len(todo)))
           /\ Listing(Installed', Rank(todo', Len(todo) + 1))
           /\ Rank(todo', Len(todo)) = Rank(todo, Len(todo))
           /\ Rank(todo, Len(todo) + 1) = Rank(todo, Len(todo))
           /\ \A p \in 1..Rank(todo, Len(todo)) : Installed'[p] = Installed[p]
           /\ UnderWay' = Append(Front(UnderWay), UnderWay'[Len(todo)])
           /\ Shows(todo', memory', Len(todo), UnderWay'[Len(todo)])
           /\ todo'[Len(todo)] = x
           /\ todo' \in Seq(Items) /\ Len(todo) \in 1..Len(todo')
<1> DEFINE N == Len(todo)
           n == N - 1
<1>1. /\ todo \in Seq(Items) /\ N \in Nat /\ N \in 1..N /\ Top = todo[N] /\ Top \in Items
      /\ n \in Nat /\ n + 1 = N
  BY RunningIs
<1>2. todo' \in Seq(Items) /\ Len(todo') = N /\ todo'[N] = x /\ Agree(todo, todo', n)
  BY ReplaceIs
<1>3. SameCells(todo, memory, memory', n)  OBVIOUS
<1> HIDE DEF n
<1>4. Len(todo') \in {n, n + 1} /\ N \in 1..Len(todo')  BY <1>1, <1>2
<1>5. /\ \A i \in 1..n : UnderWay'[i] = UnderWay[i]
      /\ Listing(UnderWay, Len(todo)) /\ Listing(UnderWay', Len(todo'))
      /\ Listing(Installed, Rank(todo, Len(todo) + 1))
      /\ Listing(Installed', Rank(todo', Len(todo') + 1))
      /\ Rank(todo', n + 1) = Rank(todo, n + 1)
      /\ \A p \in 1..Rank(todo, n + 1) : Installed'[p] = Installed[p]
  BY <1>1, <1>2, <1>3, <1>4, MappedNext
<1>6. Rank(todo, N + 1) = Rank(todo, N)
  <2>1. ~ IsBlock(todo[N])  BY <1>1 DEF IsBlock
  <2> QED BY <1>1, <2>1, RankAbove
<1>7. UnderWay' = Append(Front(UnderWay), UnderWay'[N])
  <2> DEFINE s == UnderWay
             y == UnderWay'
             f == Front(s)
  <2>1. Listing(s, N) /\ N >= 1  BY <1>1, <1>5
  <2>4. Listing(y, n + 1) /\ \A p \in 1..n : y[p] = s[p]  BY <1>1, <1>2, <1>5
  <2> HIDE DEF s, y
  <2>2. Listing(f, N - 1) /\ \A p \in 1..(N - 1) : f[p] = s[p]  BY <2>1, FrontCut
  <2>3. Listing(f, n) /\ \A p \in 1..n : f[p] = s[p]  BY <2>2 DEF n
  <2> HIDE DEF f
  <2>5. \A p \in 1..n : y[p] = f[p]  BY <2>3, <2>4
  <2>6. y = Append(f, y[n + 1])  BY <2>3, <2>4, <2>5, AppendIs
  <2> QED BY <1>1, <2>6 DEF s, y, f
<1>8. Shows(todo', memory', N, UnderWay'[N])  BY <1>4, MapsNext DEF Views
<1> QED BY <1>1, <1>2, <1>4, <1>5, <1>6, <1>7, <1>8

LEMMA ReplaceMaps ==
    ASSUME Inv, Inv', Running, Top.kind \notin {"call", "body"}, NEW x \in Items, ~ IsBlock(x),
           todo' = Append(Front(todo), x), SameCells(todo, memory, memory', Len(todo) - 1)
    PROVE  Installed' = Installed
<1> DEFINE N == Len(todo)
           r == Rank(todo, N)
           s == Installed
           y == Installed'
<1>1. /\ Listing(s, r) /\ Listing(y, Rank(todo', N + 1)) /\ Rank(todo', N) = r
      /\ \A p \in 1..r : y[p] = s[p]
      /\ todo'[N] = x /\ todo' \in Seq(Items) /\ N \in 1..Len(todo')
  BY ReplaceBelow
<1> HIDE DEF N, s, y
<1>2. Rank(todo', N + 1) = Rank(todo', N)  BY <1>1, RankAbove
<1> HIDE DEF r
<1>3. y = s  BY <1>1, <1>2, ListingsEqual
<1> QED BY <1>3 DEF s, y

\* Cells and frames below the top are in the frame stack, below where it began.
LEMMA CellsBelow ==
    ASSUME Inv, Running, NEW at, Above(todo, memory, Len(todo), at),
           NEW j \in 1..(Len(todo) - 1), IsOpen(todo[j]),
           NEW a \in todo[j].mark..(EndIn(memory, todo[j]) - 1)
    PROVE  a \in Room /\ EndIn(memory, todo[j]) \in Nat /\ EndIn(memory, todo[j]) <= at /\ a \in Nat
           /\ a < EndIn(memory, todo[j])
<1>1. Stacked(todo, memory) /\ todo \in Seq(Items) /\ Len(todo) \in Nat  BY RunningIs
<1>2. j \in 1..Len(todo) /\ j \in OpensIn(todo, Len(todo)) /\ todo[j] \in Items  BY <1>1 DEF OpensIn
<1>3. EndIn(memory, todo[j]) <= at  BY <1>2 DEF Above
<1>4. todo[j].kind \in {"fields", "body"} /\ todo[j].mark \in Nat  BY <1>2, ItemIs
<1>5. EndIn(memory, todo[j]) \in Nat  BY <1>1, <1>2, AboveUp
<1>6. FRAME_START <= todo[j].mark
  BY <1>1, <1>2, <1>4 DEF Stacked, Good, GoodFields, GoodBlock, Above
<1>7. EndIn(memory, todo[j]) <= HEAP_START
  <2>1. CASE todo[j].kind = "fields"
    <3>1. Reserved(todo[j])  BY <1>1, <1>2, <2>1 DEF Stacked, Good, GoodFields
    <3> QED BY <2>1, <3>1 DEF Reserved, EndIn
  <2>2. CASE todo[j].kind = "body"  BY <1>1, <1>2, <2>2, FrameIs
  <2> QED BY <1>4, <2>1, <2>2
<1> DEFINE c == todo[j].mark
           e == EndIn(memory, todo[j])
<1>8. c \in Nat /\ e \in Nat /\ FRAME_START <= c /\ e <= HEAP_START /\ a \in c..(e - 1)
  BY <1>4, <1>5, <1>6, <1>7
<1>9. FRAME_START \in Nat /\ HEAP_START \in Nat  BY LayoutAssumption
<1> HIDE DEF c, e
<1>10. a \in Room /\ a \in Nat /\ a < e  BY <1>8, <1>9 DEF Room
<1> QED BY <1>3, <1>5, <1>10 DEF e

\* A push is a push.
LEMMA PushShown ==
    ASSUME Inv, Inv', Running, NEW x \in Items, ~ IsBlock(x), Push(x), memory' = memory
    PROVE  /\ Scopes!Push(UnderWay'[Len(todo) + 1])
           /\ Scopes!Running /\ Installed' = Installed
           /\ Shows(todo', memory', Len(todo) + 1, UnderWay'[Len(todo) + 1])
           /\ todo'[Len(todo) + 1] = x
           /\ Rank(todo', Len(todo) + 1) = Len(Installed)
<1>1. todo # <<>> /\ Len(todo) < MaxDepth  BY DEF Running, Push
<1>2. Len(UnderWay) = Len(todo) /\ Scopes!Running /\ Len(Installed) = Rank(todo, Len(todo) + 1)
  BY <1>1, ShownIs
<1>3. /\ Installed' = Installed
      /\ UnderWay' = Append(UnderWay, UnderWay'[Len(todo) + 1])
      /\ Shows(todo', memory', Len(todo) + 1, UnderWay'[Len(todo) + 1])
      /\ todo'[Len(todo) + 1] = x
      /\ Rank(todo', Len(todo) + 1) = Rank(todo, Len(todo) + 1)
  BY PushMaps
<1>4. Scopes!Push(UnderWay'[Len(todo) + 1])
  <2>1. Len(UnderWay) < MaxDepth  BY <1>1, <1>2
  <2> QED BY <1>3, <2>1 DEF Scopes!Push
<1> QED BY <1>2, <1>3, <1>4

LEMMA NoWords == \A m, at : Words(m, at, 0) = <<>>
<1> SUFFICES ASSUME NEW m, NEW at PROVE Words(m, at, 0) = <<>>  OBVIOUS
<1> DEFINE s == Words(m, at, 0)
<1>1. s = [p \in 1..0 |-> s[p]]  BY DEF Words
<1> HIDE DEF s
<1>2. Listing(s, 0)  BY <1>1 DEF Listing
<1>3. s = <<>>  BY <1>2, ListingIs
<1> QED BY <1>3 DEF s

LEMMA WithMaps == ASSUME Inv, Inv', NEW h \in Handlers, With(h) PROVE Scopes!With(h)
<1> DEFINE x == [kind |-> "fields", handler |-> h, mark |-> frameBump, held |-> frameBump, n |-> 0]
           N == Len(todo) + 1
<1>1. Running /\ Push(x) /\ memory' = memory /\ trapped' = trapped  BY DEF With, Continue
<1>2. frameBump \in Nat  BY LayoutAssumption DEF Inv
<1>3. x \in Items  BY <1>2 DEF Items
<1>4. x.kind = "fields" /\ x.handler = h /\ x.n = 0 /\ ~ IsBlock(x)  BY <1>3, ItemIs
<1> HIDE DEF x
<1>5. /\ Scopes!Push(UnderWay'[N]) /\ Scopes!Running /\ Installed' = Installed
      /\ Shows(todo', memory', N, UnderWay'[N]) /\ todo'[N] = x
  BY <1>1, <1>3, <1>4, PushShown
<1>6. UnderWay'[N] = [kind |-> "fields", handler |-> h, start |-> Words(memory', x.held, 0)]
  BY <1>4, <1>5 DEF Shows
<1>7. UnderWay'[N] = Scopes!Starting(h, <<>>)  BY <1>6, NoWords DEF Scopes!Starting
<1> QED BY <1>1, <1>5, <1>7 DEF Scopes!With, Scopes!Continue

LEMMA CallMaps == ASSUME Inv, Inv', Call PROVE Scopes!Call
<1> DEFINE x == [kind |-> "call"]
           N == Len(todo) + 1
<1>1. Running /\ Push(x) /\ memory' = memory /\ trapped' = trapped  BY DEF Call, Continue
<1>2. x \in Items
  <2>1. x \in [kind : {"call", "host"}]  OBVIOUS
  <2> QED BY <2>1 DEF Items
<1>3. x.kind = "call" /\ ~ IsBlock(x)  BY DEF IsBlock
<1> HIDE DEF x
<1>4. /\ Scopes!Push(UnderWay'[N]) /\ Scopes!Running /\ Installed' = Installed
      /\ Shows(todo', memory', N, UnderWay'[N]) /\ todo'[N] = x /\ Rank(todo', N) = Len(Installed)
  BY <1>1, <1>2, <1>3, PushShown
<1>5. UnderWay'[N] = Scopes!Function(Len(Installed))  BY <1>3, <1>4 DEF Shows, Scopes!Function
<1> QED BY <1>1, <1>4, <1>5 DEF Scopes!Call, Scopes!Continue

LEMMA PerformMaps ==
    ASSUME Inv, Inv', NEW e \in Effects, NEW op \in 1..Operations[e], Perform(e, op)
    PROVE  Scopes!Perform(e, op)
<1> DEFINE x == [kind |-> "args", effect |-> e, op |-> op, cursor |-> Found(e)]
           N == Len(todo) + 1
<1>1. Running /\ Push(x) /\ memory' = memory /\ trapped' = trapped  BY DEF Perform, Continue
<1>2. x \in Items
  <2>1. todo'[N] = x /\ N \in 1..Len(todo') /\ todo' \in Seq(Items)
    <3>1. todo \in Seq(Items) /\ Len(todo) \in Nat /\ todo' = Append(todo, x)
      BY <1>1, RunningIs DEF Push
    <3>2. todo'[N] = x  BY <3>1
    <3>3. Len(todo') = N  BY <3>1
    <3>4. todo' \in Seq(Items)  BY DEF Inv, Stacked
    <3> QED BY <3>1, <3>2, <3>3, <3>4
  <2> QED BY <2>1
<1>3. x.kind = "args" /\ x.effect = e /\ x.op = op /\ ~ IsBlock(x)  BY DEF IsBlock
<1> HIDE DEF x
<1>4. /\ Scopes!Push(UnderWay'[N]) /\ Scopes!Running /\ Installed' = Installed
      /\ Shows(todo', memory', N, UnderWay'[N]) /\ todo'[N] = x
  BY <1>1, <1>2, <1>3, PushShown
<1>5. UnderWay'[N] = Scopes!Arguments(e, op)  BY <1>3, <1>4 DEF Shows, Scopes!Arguments
<1> QED BY <1>1, <1>4, <1>5 DEF Scopes!Perform, Scopes!Continue

\* Replacing the top is replacing the top.
LEMMA ReplaceShown ==
    ASSUME Inv, Inv', Running, Top.kind \notin {"call", "body"}, NEW x \in Items,
           todo' = Append(Front(todo), x), SameCells(todo, memory, memory', Len(todo) - 1)
    PROVE  /\ UnderWay' = Append(Scopes!Front(UnderWay), UnderWay'[Len(todo)])
           /\ Shows(todo', memory', Len(todo), UnderWay'[Len(todo)])
           /\ Shows(todo, memory, Len(todo), Scopes!Top)
           /\ todo[Len(todo)] = Top /\ todo'[Len(todo)] = x /\ Scopes!Running
           /\ Rank(todo', Len(todo)) = Rank(todo, Len(todo))
           /\ Len(Installed) = Rank(todo, Len(todo))
<1>1. todo # <<>> /\ Top = todo[Len(todo)]  BY RunningIs DEF Running
<1>2. /\ Scopes!Top = UnderWay[Len(todo)] /\ Len(todo) \in 1..Len(todo) /\ Scopes!Running
      /\ \A i \in 1..Len(todo) : Shows(todo, memory, i, UnderWay[i])
      /\ Len(Installed) = Rank(todo, Len(todo) + 1)
  BY <1>1, ShownIs
<1>3. /\ Rank(todo', Len(todo)) = Rank(todo, Len(todo))
      /\ Rank(todo, Len(todo) + 1) = Rank(todo, Len(todo))
      /\ UnderWay' = Append(Front(UnderWay), UnderWay'[Len(todo)])
      /\ Shows(todo', memory', Len(todo), UnderWay'[Len(todo)])
      /\ todo'[Len(todo)] = x
  BY ReplaceBelow
<1>4. Scopes!Front(UnderWay) = Front(UnderWay)  BY DEF Scopes!Front, Front
<1> QED BY <1>1, <1>2, <1>3, <1>4

LEMMA StartFieldMaps == ASSUME Inv, Inv', NEW v \in Values, StartField(v) PROVE Scopes!StartField(v)
<1> DEFINE N == Len(todo)
           x == [Top EXCEPT !.n = @ + 1]
           at == Top.held
           k == Top.n
<1>1. /\ Running /\ Top.kind = "fields" /\ k < Fields[Top.handler]
      /\ memory' = [memory EXCEPT ![at + k] = v] /\ todo' = Append(Front(todo), x)
      /\ trapped' = trapped
  BY DEF StartField, Continue
<1>2. /\ Stacked(todo, memory) /\ Top \in Items /\ todo \in Seq(Items)
  BY <1>1, RunningIs
<1>3. /\ Top.handler \in Handlers /\ Fields[Top.handler] \in Nat
      /\ Top.mark \in Nat /\ at = Top.mark /\ k \in 0..Fields[Top.handler]
      /\ Top.mark + Fields[Top.handler] = frameBump
      /\ FRAME_START <= Top.mark /\ frameBump <= HEAP_START
      /\ FRAME_START \in Nat /\ HEAP_START \in Nat /\ frameBump \in Nat
      /\ Above(todo, memory, N, Top.mark)
  BY <1>1, FieldsAre
<1>4. x = [kind |-> "fields", handler |-> Top.handler, mark |-> Top.mark, held |-> at, n |-> k + 1]
  <2>1. Top \in [kind : {"fields"}, handler : Handlers, mark : Nat, held : Nat, n : Nat]
    BY <1>1, <1>2 DEF Items
  <2> QED BY <2>1
<1>5. x \in Items  BY <1>3, <1>4 DEF Items
<1>6. x.kind = "fields" /\ x.handler = Top.handler /\ x.held = at /\ x.n = k + 1 /\ ~ IsBlock(x)
  BY <1>4 DEF IsBlock
<1> HIDE DEF x, at, k
<1>7. memory \in [Room -> Int]  BY <1>2 DEF Stacked, Memories
<1>8. at \in Nat /\ k \in Nat /\ at + k \in Room /\ FRAME_START <= at /\ at + k < HEAP_START
  <2>1. at \in Nat /\ k \in Nat /\ FRAME_START <= at /\ at + k < HEAP_START  BY <1>1, <1>3
  <2> QED BY <2>1, LayoutAssumption DEF Room
<1>9. SameCells(todo, memory, memory', N - 1)
  <2> SUFFICES ASSUME NEW j \in 1..(N - 1), IsOpen(todo[j]),
                      NEW a \in todo[j].mark..(EndIn(memory, todo[j]) - 1)
               PROVE  memory'[a] = memory[a]
    BY DEF SameCells
  <2>1. /\ a \in Room /\ EndIn(memory, todo[j]) \in Nat /\ EndIn(memory, todo[j]) <= Top.mark
        /\ a \in Nat /\ a < EndIn(memory, todo[j])
    BY <1>1, <1>3, CellsBelow
  <2>2. a # at + k  BY <1>3, <1>8, <2>1
  <2> QED BY <1>1, <1>7, <2>1, <2>2
<1>10. /\ UnderWay' = Append(Scopes!Front(UnderWay), UnderWay'[N])
       /\ Shows(todo', memory', N, UnderWay'[N])
       /\ Shows(todo, memory, N, Scopes!Top)
       /\ todo[N] = Top /\ todo'[N] = x /\ Scopes!Running
  BY <1>1, <1>5, <1>9, ReplaceShown
<1>11. Installed' = Installed  BY <1>1, <1>5, <1>6, <1>9, ReplaceMaps
<1>12. Scopes!Top = [kind |-> "fields", handler |-> Top.handler, start |-> Words(memory, at, k)]
  BY <1>1, <1>10 DEF Shows, at, k
<1>13. UnderWay'[N] = [kind |-> "fields", handler |-> Top.handler, start |-> Words(memory', at, k + 1)]
  BY <1>6, <1>10 DEF Shows
<1>14. Words(memory', at, k + 1) = Append(Words(memory, at, k), v) /\ Len(Words(memory, at, k)) = k
  <2> DEFINE s == Words(memory, at, k)
             y == Words(memory', at, k + 1)
  <2>1. s = [p \in 1..k |-> s[p]] /\ y = [p \in 1..(k + 1) |-> y[p]]  BY DEF Words
  <2>2. ASSUME NEW p \in 1..k PROVE y[p] = s[p]
    <3>1. p \in 1..(k + 1) /\ y[p] = memory'[at + p - 1] /\ s[p] = memory[at + p - 1]
      BY <1>8 DEF Words
    <3>2. at + p - 1 \in Room /\ at + p - 1 # at + k
      <4>1. FRAME_START <= at + p - 1 /\ at + p - 1 < HEAP_START /\ at + p - 1 \in Nat /\ at + p - 1 # at + k
        BY <1>8, LayoutAssumption
      <4> QED BY <4>1, LayoutAssumption DEF Room
    <3> QED BY <1>1, <1>7, <3>1, <3>2
  <2>3. y[k + 1] = v
    <3>1. k + 1 \in 1..(k + 1) /\ at + (k + 1) - 1 = at + k  BY <1>8
    <3>2. y[k + 1] = memory'[at + (k + 1) - 1]  BY <3>1 DEF Words
    <3>3. memory'[at + k] = v  BY <1>1, <1>7, <1>8
    <3> QED BY <3>1, <3>2, <3>3
  <2> HIDE DEF s, y
  <2>4. Listing(s, k) /\ Listing(y, k + 1)  BY <1>8, <2>1 DEF Listing
  <2>5. y = Append(s, y[k + 1])  BY <2>2, <2>4, AppendIs
  <2>6. Len(s) = k  BY <2>4, ListingIs
  <2> QED BY <2>3, <2>5, <2>6 DEF s, y
<1>15. Scopes!Top.kind = "fields" /\ Len(Scopes!Top.start) < Fields[Scopes!Top.handler]
       /\ UnderWay'[N] = Scopes!Starting(Scopes!Top.handler, Append(Scopes!Top.start, v))
  BY <1>1, <1>12, <1>13, <1>14 DEF Scopes!Starting
<1> QED BY <1>1, <1>10, <1>11, <1>15 DEF Scopes!StartField, Scopes!Continue

LEMMA InstallMaps == ASSUME Inv, Inv', Install PROVE Scopes!Install
<1> DEFINE N == Len(todo)
           h == Top.handler
           at == Top.mark
           b == frameBump
           x == [kind |-> "body", mark |-> Top.mark, frame |-> b]
<1>1. /\ Running /\ Top.kind = "fields" /\ Top.n = Fields[h]
      /\ todo' = Append(Front(todo), x) /\ trapped' = trapped
  BY DEF Install, Continue
<1>2. /\ h \in Handlers /\ Fields[h] \in Nat /\ at \in Nat /\ Top.held = at
      /\ at + Fields[h] = b /\ FRAME_START <= at /\ b <= HEAP_START
      /\ FRAME_START \in Nat /\ HEAP_START \in Nat /\ b \in Nat
      /\ Above(todo, memory, N, at)
  BY <1>1, FieldsAre
<1>3. /\ memory' \in Memories
      /\ \A a \in Room : a < b => memory'[a] = memory[a]
      /\ HandlerIn(memory', b) = h
  BY InstallWrites
<1>4. x \in Items  BY <1>2 DEF Items
<1>5. x.kind = "body" /\ x.mark = at /\ x.frame = b /\ IsBlock(x)  BY DEF IsBlock
<1> HIDE DEF x, h, at, b
<1>6. SameCells(todo, memory, memory', N - 1)
  <2> SUFFICES ASSUME NEW j \in 1..(N - 1), IsOpen(todo[j]),
                      NEW a \in todo[j].mark..(EndIn(memory, todo[j]) - 1)
               PROVE  memory'[a] = memory[a]
    BY DEF SameCells
  <2>1. /\ a \in Room /\ EndIn(memory, todo[j]) \in Nat /\ EndIn(memory, todo[j]) <= at
        /\ a \in Nat /\ a < EndIn(memory, todo[j])
    BY <1>1, <1>2, CellsBelow
  <2>2. a < b  BY <1>2, <2>1
  <2> QED BY <1>3, <2>1, <2>2
<1>7. /\ UnderWay' = Append(Scopes!Front(UnderWay), UnderWay'[N])
      /\ Shows(todo', memory', N, UnderWay'[N])
      /\ Shows(todo, memory, N, Scopes!Top)
      /\ todo[N] = Top /\ todo'[N] = x /\ Scopes!Running
      /\ Rank(todo', N) = Rank(todo, N) /\ Len(Installed) = Rank(todo, N)
  BY <1>1, <1>4, <1>6, ReplaceShown
<1>8. /\ Listing(Installed, Rank(todo, N)) /\ Listing(Installed', Rank(todo', N + 1))
      /\ \A p \in 1..Rank(todo, N) : Installed'[p] = Installed[p]
      /\ todo' \in Seq(Items) /\ Len(todo') = N /\ N \in 1..Len(todo')
  <2>1. Top.kind \notin {"call", "body"} /\ Top.kind # "call"  BY <1>1
  <2>2. /\ Listing(Installed, Rank(todo, N)) /\ Listing(Installed', Rank(todo', N + 1))
        /\ \A p \in 1..Rank(todo, N) : Installed'[p] = Installed[p]
    BY <1>1, <1>4, <1>6, <2>1, ReplaceBelow
  <2>3. todo' \in Seq(Items) /\ Len(todo') = N  BY <1>1, <1>4, <2>1, ReplaceIs
  <2>4. N \in 1..N  BY <1>1, RunningIs
  <2> QED BY <2>2, <2>3, <2>4
<1>9. Words(memory', at, Fields[h]) = Words(memory, at, Fields[h])
  <2> SUFFICES ASSUME NEW f \in 1..Fields[h] PROVE memory'[at + f - 1] = memory[at + f - 1]
    BY DEF Words
  <2>1. at + f - 1 \in Nat /\ at + f - 1 < b /\ FRAME_START <= at + f - 1 /\ at + f - 1 < HEAP_START
    BY <1>2
  <2>2. at + f - 1 \in Room  BY <1>2, <2>1 DEF Room
  <2> QED BY <1>3, <2>1, <2>2
<1>10. Scopes!Top = [kind |-> "fields", handler |-> h, start |-> Words(memory, at, Fields[h])]
  BY <1>1, <1>2, <1>7 DEF Shows, h
<1>11. UnderWay'[N] = Scopes!Block(Len(Installed))  BY <1>5, <1>7 DEF Shows, Scopes!Block
<1>12. Len(Words(memory, at, Fields[h])) = Fields[h]
  <2> DEFINE s == Words(memory, at, Fields[h])
  <2>1. s = [p \in 1..Fields[h] |-> s[p]]  BY DEF Words
  <2> HIDE DEF s
  <2>2. Listing(s, Fields[h])  BY <1>2, <2>1 DEF Listing
  <2>3. Len(s) = Fields[h]  BY <2>2, ListingIs
  <2> QED BY <2>3 DEF s
<1>13. Installed' = Append(Installed, [handler |-> h, state |-> Words(memory, at, Fields[h])])
  <2> DEFINE r == Rank(todo, N)
             s == Installed
             y == Installed'
  <2>1. Rank(todo', N + 1) = r + 1  BY <1>5, <1>7, <1>8, RankAbove
  <2>2. Listing(s, r) /\ Listing(y, r + 1) /\ \A p \in 1..r : y[p] = s[p]  BY <1>8, <2>1
  <2>3. y[r + 1] = ScopeIn(memory', x)
    <3>1. Installs(todo', memory', y)  BY MapsNext
    <3>2. N \in BlocksIn(todo', Len(todo') + 1)  BY <1>5, <1>7, <1>8 DEF BlocksIn
    <3>3. y[Rank(todo', N) + 1] = ScopeIn(memory', todo'[N])  BY <3>1, <3>2 DEF Installs
    <3> QED BY <1>7, <3>3
  <2>4. ScopeIn(memory', x) = [handler |-> h, state |-> Words(memory, at, Fields[h])]
    BY <1>3, <1>5, <1>9 DEF ScopeIn
  <2> HIDE DEF r, s, y
  <2>5. y = Append(s, y[r + 1])  BY <2>2, AppendIs
  <2> QED BY <2>3, <2>4, <2>5 DEF s, y
<1>14. Scopes!Top.kind = "fields" /\ Scopes!Top.handler = h
       /\ Scopes!Top.start = Words(memory, at, Fields[h])
       /\ Len(Scopes!Top.start) = Fields[Scopes!Top.handler]
  BY <1>10, <1>12
<1> QED BY <1>1, <1>7, <1>11, <1>13, <1>14 DEF Scopes!Install, Scopes!Continue

\* Nothing that matters to the mapping changes.
LEMMA StillMaps ==
    ASSUME Inv, Inv', todo' = todo, memory' = memory
    PROVE  Installed' = Installed /\ UnderWay' = UnderWay
<1> DEFINE n == Len(todo)
           r == Rank(todo, n + 1)
           s == Installed
           v == UnderWay
           y == Installed'
           z == UnderWay'
<1>1. n \in Nat /\ Agree(todo, todo', n) /\ Len(todo') \in {n, n + 1} /\ SameCells(todo, memory, memory', n)
  BY SameMemoryCells DEF Inv, Stacked, Agree
<1>2. /\ \A i \in 1..n : z[i] = v[i]
      /\ Listing(v, n) /\ Listing(z, n) /\ Listing(s, r) /\ Listing(y, r)
      /\ \A p \in 1..r : y[p] = s[p]
  BY <1>1, MappedNext
<1> HIDE DEF n, r, s, v, y, z
<1>3. y = s /\ z = v  BY <1>2, ListingsEqual
<1> QED BY <1>3 DEF s, v, y, z

LEMMA NoRoomMaps == ASSUME Inv, Inv', NoRoom PROVE Scopes!NoRoom
<1>1. Running /\ todo # <<>> /\ trapped' = "room" /\ todo' = todo /\ memory' = memory
  BY DEF NoRoom, Trap, Running
<1>2. Scopes!Running  BY <1>1, ShownIs
<1>3. Installed' = Installed /\ UnderWay' = UnderWay  BY <1>1, StillMaps
<1> QED BY <1>1, <1>2, <1>3 DEF Scopes!NoRoom

\* The installations that answer for an effect are the open blocks' whose frames
\* do.
LEMMA AnsweringIs ==
    ASSUME Inv, NEW e \in Effects
    PROVE  /\ \A j \in AnswersIn(todo, memory, Len(todo) + 1, e) : Rank(todo, j) + 1 \in Scopes!Answering(e)
           /\ \A p \in Scopes!Answering(e) :
                 \E j \in AnswersIn(todo, memory, Len(todo) + 1, e) : p = Rank(todo, j) + 1
<1> DEFINE N == Len(todo) + 1
           R == Rank(todo, N)
           s == Installed
<1>1. Stacked(todo, memory) /\ Len(todo) \in Nat /\ N \in 1..(Len(todo) + 1) /\ Installs(todo, memory, s)
  BY InstalledIs DEF Inv, Stacked
<1>2. R \in Nat  BY <1>1, RankType
<1>3. DOMAIN s = 1..R  BY <1>1 DEF Installs
<1>4. ASSUME NEW j \in BlocksIn(todo, N)
      PROVE  /\ Rank(todo, j) + 1 \in 1..R
             /\ s[Rank(todo, j) + 1].handler = HandlerIn(memory, todo[j].frame)
             /\ memory[todo[j].frame + 1] = EffectOf[HandlerIn(memory, todo[j].frame)]
  <2>1. Rank(todo, j) + 1 \in 1..R /\ s[Rank(todo, j) + 1] = ScopeIn(memory, todo[j])
    BY <1>1 DEF Installs
  <2>2. j \in 1..Len(todo) /\ todo[j].kind = "body"  BY <1>1 DEF BlocksIn, IsBlock
  <2>3. Laid(memory, todo[j])  BY <1>1, <2>2 DEF Stacked, Good, GoodBlock
  <2> QED BY <2>1, <2>3 DEF ScopeIn, Laid
<1>5. ASSUME NEW j \in AnswersIn(todo, memory, N, e) PROVE Rank(todo, j) + 1 \in Scopes!Answering(e)
  <2>1. j \in BlocksIn(todo, N) /\ memory[todo[j].frame + 1] = e  BY DEF AnswersIn
  <2>2. Rank(todo, j) + 1 \in DOMAIN s /\ EffectOf[s[Rank(todo, j) + 1].handler] = e
    BY <1>3, <1>4, <2>1
  <2> QED BY <2>2 DEF Scopes!Answering
<1>6. ASSUME NEW p \in Scopes!Answering(e) PROVE \E j \in AnswersIn(todo, memory, N, e) : p = Rank(todo, j) + 1
  <2>1. p \in 1..R /\ EffectOf[s[p].handler] = e  BY <1>3 DEF Scopes!Answering
  <2>2. PICK j \in BlocksIn(todo, N) : p = Rank(todo, j) + 1  BY <1>1, <2>1 DEF Installs
  <2>3. j \in AnswersIn(todo, memory, N, e)  BY <1>4, <2>1, <2>2 DEF AnswersIn
  <2> QED BY <2>2, <2>3
<1> QED BY <1>5, <1>6

LEMMA UnansweredMaps == ASSUME Inv, Inv', NEW e \in Effects, Unanswered(e) PROVE Scopes!Unanswered(e)
<1> DEFINE N == Len(todo) + 1
           A == AnswersIn(todo, memory, N, e)
<1>1. /\ Running /\ todo # <<>> /\ Found(e) = 0 /\ ~ Hosted(e)
      /\ trapped' = "nobody" /\ todo' = todo /\ memory' = memory
  BY DEF Unanswered, Trap, Running
<1>2. Stacked(todo, memory) /\ Len(todo) \in Nat  BY DEF Inv, Stacked
<1>3. A = {}
  <2> SUFFICES ASSUME A # {} PROVE FALSE  OBVIOUS
  <2>1. Answerer(todo, memory, N, e) = 0  BY <1>1, FoundIs
  <2>2. A \subseteq 1..Len(todo) /\ \A j \in A : todo[j].kind = "body"
    BY <1>2 DEF AnswersIn, BlocksIn, IsBlock
  <2>3. Max(A) \in A  BY <1>2, <2>2, MaxIsGreatest
  <2>4. todo[Max(A)].frame = 0  BY <2>1 DEF Answerer
  <2>5. todo[Max(A)].frame > 0  BY <1>2, <2>2, <2>3, FrameIs
  <2> QED BY <2>4, <2>5
<1>4. Scopes!Answering(e) = {}  BY <1>3, AnsweringIs
<1>5. Scopes!Running  BY <1>1, ShownIs
<1>6. Installed' = Installed /\ UnderWay' = UnderWay  BY <1>1, StillMaps
<1>7. ~ Scopes!Hosted(e)  BY <1>1 DEF Hosted, Scopes!Hosted
<1> QED BY <1>1, <1>4, <1>5, <1>6, <1>7 DEF Scopes!Unanswered

LEMMA AskHostMaps == ASSUME ~ AsksAnywhere, Inv, Inv', AskHost PROVE Scopes!AskHost
<1> DEFINE N == Len(todo)
           x == [kind |-> "host"]
<1>1. /\ Running /\ Top.kind = "args" /\ Top.cursor = 0 /\ todo' = Append(Front(todo), x)
      /\ memory' = memory /\ trapped' = trapped
  BY DEF AskHost, Continue
<1>2. x \in Items /\ x.kind = "host" /\ ~ IsBlock(x)
  <2>1. x \in [kind : {"call", "host"}]  OBVIOUS
  <2> QED BY <2>1 DEF Items, IsBlock
<1> HIDE DEF x
<1>3. SameCells(todo, memory, memory', N - 1)  BY <1>1, SameMemoryCells
<1>4. Top.kind \notin {"call", "body"}  BY <1>1
<1>5. /\ UnderWay' = Append(Scopes!Front(UnderWay), UnderWay'[N])
      /\ Shows(todo', memory', N, UnderWay'[N])
      /\ Shows(todo, memory, N, Scopes!Top)
      /\ todo[N] = Top /\ todo'[N] = x /\ Scopes!Running
  BY <1>1, <1>2, <1>3, <1>4, ReplaceShown
<1>6. Installed' = Installed  BY <1>1, <1>2, <1>3, <1>4, ReplaceMaps
<1>7. UnderWay'[N] = Scopes!Asked  BY <1>2, <1>5 DEF Shows, Scopes!Asked
<1>8. Scopes!Top = [kind |-> "args", effect |-> Top.effect, op |-> Top.op]  BY <1>1, <1>5 DEF Shows
<1>9. Hosted(Top.effect)  BY <1>1, <1>5, RunningIs DEF Good, GoodArgs
<1>10. Scopes!Top.kind = "args" /\ Scopes!Hosted(Scopes!Top.effect)
  BY <1>8, <1>9 DEF Hosted, Scopes!Hosted
<1> QED BY <1>1, <1>5, <1>6, <1>7, <1>10 DEF Scopes!AskHost, Scopes!Continue

LEMMA AnswerMaps == ASSUME Inv, Inv', Answer PROVE Scopes!Answer
<1> DEFINE N == Len(todo)
           e == Top.effect
           o == Top.op
           x == [kind |-> "op", cell |-> memory[Top.cursor + 2], code |-> memory[Top.cursor + 2 + o]]
           A == AnswersIn(todo, memory, N, e)
<1>1. /\ Running /\ Top.kind = "args" /\ Top.kind \notin {"call", "body"} /\ Top.kind # "call"
      /\ Top.cursor # 0 /\ todo' = Append(Front(todo), x) /\ memory' = memory /\ trapped' = trapped
  BY DEF Answer, Continue
<1>2. /\ todo \in Seq(Items) /\ N \in Nat /\ N \in 1..N /\ N \in 1..(N + 1) /\ Top = todo[N]
      /\ Stacked(todo, memory) /\ Top \in Items /\ Good(todo, memory, N)
  BY <1>1, RunningIs
<1>3. e \in Effects /\ Top.cursor = Answerer(todo, memory, N, e) /\ o \in 1..Operations[e]
  BY <1>1, <1>2, ItemIs DEF Good, GoodArgs
<1>4. PICK j \in BlocksIn(todo, N) :
         /\ j = Max(A) /\ (\A k \in A : k <= j)
         /\ todo[j].frame = Top.cursor /\ j \in 1..Len(todo)
         /\ HandlerIn(memory, todo[j].frame) \in Handlers
         /\ EffectOf[HandlerIn(memory, todo[j].frame)] = e
         /\ memory[todo[j].frame + 2] = todo[j].mark /\ todo[j].mark \in Nat
         /\ (\A p \in 1..Operations[e] :
               memory[todo[j].frame + 2 + p] = Codes[HandlerIn(memory, todo[j].frame)][p])
  BY <1>1, <1>2, <1>3, AnswererIs
<1> DEFINE h == HandlerIn(memory, todo[j].frame)
           P == Rank(todo, j) + 1
<1>5. memory[Top.cursor + 2] = todo[j].mark /\ memory[Top.cursor + 2 + o] = Codes[h][o]
  BY <1>3, <1>4
<1>6. h \in Handlers /\ o \in 1..Operations[EffectOf[h]]  BY <1>3, <1>4
<1>7. Codes[h][o] \in Nat
  <2> HIDE DEF h, o
  <2> QED BY <1>6, HandlersAssumption
<1>8. x.kind = "op" /\ x.cell = todo[j].mark /\ x.code = Codes[h][o] /\ ~ IsBlock(x)
  BY <1>5 DEF IsBlock
<1>9. x \in Items  BY <1>4, <1>5, <1>7 DEF Items
<1> HIDE DEF x, h, e, o
<1>10. SameCells(todo, memory, memory', N - 1) /\ SameFrames(todo, memory, memory', N - 1)
       /\ memory' \in Memories
  BY <1>1, <1>2, SameMemoryCells, SameMemory DEF Stacked
<1>11. /\ UnderWay' = Append(Scopes!Front(UnderWay), UnderWay'[N])
       /\ Shows(todo', memory', N, UnderWay'[N])
       /\ Shows(todo, memory, N, Scopes!Top)
       /\ todo'[N] = x /\ Scopes!Running
       /\ Rank(todo', N) = Rank(todo, N) /\ Len(Installed) = Rank(todo, N)
  BY <1>1, <1>9, <1>10, ReplaceShown
<1>12. Installed' = Installed  BY <1>1, <1>8, <1>9, <1>10, ReplaceMaps
<1>13. /\ j \in BlocksIn(todo', N) /\ todo'[j] = todo[j] /\ Rank(todo', j) = Rank(todo, j)
  <2>1. Kept(todo, todo', memory, memory', N - 1) /\ BlocksIn(todo', N) = BlocksIn(todo, N)
    BY <1>1, <1>9, <1>10, ReplaceLeaves
  <2>2. Agree(todo, todo', N - 1)  BY <1>1, <1>9, ReplaceIs
  <2>3. j \in 1..(N - 1) /\ j \in 1..((N - 1) + 1)  BY <1>2, <1>4 DEF BlocksIn
  <2>4. BlocksIn(todo', j) = BlocksIn(todo, j)  BY <2>1, <2>3 DEF Kept
  <2> QED BY <1>4, <2>1, <2>2, <2>3, <2>4 DEF Agree, Rank
<1>14. UnderWay'[N] = [kind |-> "op", height |-> Rank(todo, N), self |-> P, code |-> Codes[h][o]]
  BY <1>8, <1>11, <1>13 DEF Shows
<1>15. AnswersIn(todo, memory, N + 1, e) = A
  <2>1. ~ IsBlock(todo[N])  BY <1>1, <1>2 DEF IsBlock
  <2>2. BlocksIn(todo, N + 1) = BlocksIn(todo, N)  BY <1>2, <2>1, Higher
  <2> QED BY <2>2 DEF AnswersIn
<1>16. j \in A
  <2>1. A \subseteq 1..N /\ A # {}
    <3>1. A \subseteq 1..N  BY <1>2 DEF AnswersIn, BlocksIn
    <3>2. A # {}  BY <1>1, <1>3 DEF Answerer
    <3> QED BY <3>1, <3>2
  <2> HIDE DEF A
  <2> QED BY <1>2, <1>4, <2>1, MaxIsGreatest
<1>17. P \in Scopes!Answering(e)
  BY <1>3, <1>15, <1>16, AnsweringIs
<1>18. ASSUME NEW p \in Scopes!Answering(e) PROVE p <= P /\ p \in Nat
  <2>1. PICK k \in A : p = Rank(todo, k) + 1  BY <1>3, <1>15, AnsweringIs
  <2>2. k <= j /\ k \in BlocksIn(todo, N) /\ k \in 1..N /\ k \in 1..(N + 1) /\ j \in 1..(N + 1)
        /\ j \in 1..N
    BY <1>2, <1>4, <2>1 DEF AnswersIn, BlocksIn
  <2>3. Rank(todo, k) \in Nat /\ Rank(todo, j) \in Nat  BY <1>2, <2>2, RankType
  <2>4. CASE k = j  BY <2>1, <2>3, <2>4
  <2>5. CASE k # j
    <3>1. k \in BlocksIn(todo, j)  BY <2>2, <2>5 DEF BlocksIn
    <3>2. Rank(todo, k) \in 0..(Rank(todo, j) - 1)  BY <1>2, <2>2, <3>1, RankGrows
    <3> QED BY <2>1, <2>3, <3>2
  <2> QED BY <2>4, <2>5
<1>19. Scopes!Innermost(e) = P
  <2> DEFINE S == Scopes!Answering(e)
  <2>1. P \in S /\ \A p \in S : p <= P /\ p \in Nat  BY <1>17, <1>18
  <2> HIDE DEF S, P
  <2>2. \A p \in S : (\A q \in S : q <= p) => p = P
    <3> SUFFICES ASSUME NEW p \in S, \A q \in S : q <= p PROVE p = P  OBVIOUS
    <3>1. p <= P /\ P <= p /\ p \in Nat /\ P \in Nat  BY <2>1
    <3> QED BY <3>1
  <2>3. (CHOOSE p \in S : \A q \in S : q <= p) = P  BY <2>1, <2>2
  <2> QED BY <2>3 DEF Scopes!Innermost, S
<1>20. Installed[P].handler = h
  <2>1. j \in BlocksIn(todo, N + 1)  BY <1>2, <1>4 DEF BlocksIn
  <2>2. Installed[P] = ScopeIn(memory, todo[j])  BY <2>1, InstalledIs DEF Installs
  <2> QED BY <2>2 DEF ScopeIn, h
<1>21. Scopes!Top = [kind |-> "args", effect |-> e, op |-> o]
  BY <1>1, <1>2, <1>11 DEF Shows, e, o
<1>22. Scopes!Top.kind = "args" /\ Scopes!Top.effect = e /\ Scopes!Top.op = o  BY <1>21
<1> HIDE DEF P
<1>23. UnderWay'[N] = Scopes!Operation(Len(Installed), P, Codes[Installed[P].handler][o])
  BY <1>11, <1>14, <1>20 DEF Scopes!Operation
<1>24. UnderWay' = Append(Scopes!Front(UnderWay),
                      Scopes!Operation(Len(Installed), P, Codes[Installed[P].handler][o]))
  BY <1>11, <1>23
<1> QED BY <1>1, <1>11, <1>12, <1>17, <1>19, <1>22, <1>24 DEF Scopes!Answer, Scopes!Continue

\* Ending items from the top is ending the installations above.
LEMMA CutMaps ==
    ASSUME Inv, Inv', NEW n \in 0..(Len(todo) - 1), todo' = SubSeq(todo, 1, n), memory' = memory
    PROVE  /\ UnderWay' = SubSeq(UnderWay, 1, n)
           /\ Installed' = SubSeq(Installed, 1, Rank(todo, n + 1))
<1> DEFINE N == Len(todo)
           R == Rank(todo, N + 1)
           r == Rank(todo, n + 1)
           s == Installed
           v == UnderWay
           y == Installed'
           z == UnderWay'
           vn == SubSeq(v, 1, n)
           sr == SubSeq(s, 1, r)
<1>1. todo \in Seq(Items) /\ N \in Nat /\ n \in Nat /\ n \in 0..N  BY DEF Inv, Stacked
<1>2. Len(todo') = n /\ \A i \in 1..n : todo'[i] = todo[i]  BY <1>1
<1>3. Agree(todo, todo', n) /\ Len(todo') \in {n, n + 1} /\ SameCells(todo, memory, memory', n)
  BY <1>1, <1>2, SameMemoryCells DEF Agree
<1>4. /\ \A i \in 1..n : z[i] = v[i]
      /\ Listing(v, N) /\ Listing(z, Len(todo')) /\ Listing(s, R) /\ Listing(y, Rank(todo', Len(todo') + 1))
      /\ Rank(todo', n + 1) = r /\ r \in 0..R
      /\ \A p \in 1..r : y[p] = s[p]
  BY <1>1, <1>3, MappedNext
<1>5. Listing(z, n) /\ Listing(y, r)  BY <1>2, <1>4
<1> HIDE DEF N, R, r, s, v, y, z
<1>6. Listing(vn, n) /\ \A i \in 1..n : vn[i] = v[i]
  <2>1. n \in 0..N /\ Listing(v, N)  BY <1>1, <1>4
  <2> QED BY <2>1, CutIs, Zenon
<1>7. Listing(sr, r) /\ \A p \in 1..r : sr[p] = s[p]  BY <1>4, CutIs
<1> HIDE DEF vn, sr
<1>8. z = vn
  <2>1. \A i \in 1..n : z[i] = vn[i]  BY <1>4, <1>6
  <2> QED BY <1>5, <1>6, <2>1, ListingsEqual
<1>9. y = sr
  <2>1. \A p \in 1..r : y[p] = sr[p]  BY <1>4, <1>7
  <2> QED BY <1>5, <1>7, <2>1, ListingsEqual
<1> QED BY <1>8, <1>9 DEF y, z, vn, sr, s, v, r

LEMMA EndWithMaps == ASSUME Inv, Inv', EndWith PROVE Scopes!EndWith
<1> DEFINE N == Len(todo)
           n == N - 1
<1>1. Running /\ todo # <<>> /\ Top.kind = "body" /\ todo' = Front(todo) /\ memory' = memory /\ trapped' = trapped
  BY DEF EndWith, Continue, Running
<1>2. todo \in Seq(Items) /\ N \in Nat /\ N \in 1..N /\ Top = todo[N]  BY <1>1, RunningIs
<1>3. n \in 0..(Len(todo) - 1) /\ n + 1 = N /\ todo' = SubSeq(todo, 1, n)  BY <1>1, <1>2 DEF Front
<1>4. /\ Len(UnderWay) = N /\ Scopes!Top = UnderWay[N] /\ Shows(todo, memory, N, UnderWay[N])
      /\ Scopes!Running
  BY <1>1, <1>2, ShownIs
<1>5. Scopes!Top = [kind |-> "body", height |-> Rank(todo, N)]  BY <1>1, <1>2, <1>4 DEF Shows
<1> HIDE DEF n
<1>6. UnderWay' = SubSeq(UnderWay, 1, n) /\ Installed' = SubSeq(Installed, 1, Rank(todo, n + 1))
  BY <1>1, <1>3, CutMaps
<1>7. UnderWay' = Scopes!Front(UnderWay)  BY <1>4, <1>6 DEF Scopes!Front, n
<1>8. Scopes!Top.kind = "body" /\ Scopes!Top.height = Rank(todo, N)  BY <1>5
<1>9. Installed' = Scopes!Outermost(Scopes!Top.height)  BY <1>3, <1>6, <1>8 DEF Scopes!Outermost
<1> QED BY <1>1, <1>4, <1>7, <1>8, <1>9 DEF Scopes!EndWith, Scopes!Continue

LEMMA LeaveMaps == ASSUME Inv, Inv', todo # <<>>, Leave PROVE Scopes!Leave
<1> DEFINE c == Current
           n == c - 1
<1>1. Stacked(todo, memory) /\ todo \in Seq(Items) /\ Len(todo) \in Nat  BY DEF Inv, Stacked
<1>2. c \in 1..Len(todo) /\ todo[c].kind \in {"call", "op"}  BY <1>1, CurrentIs
<1>3. Shows(todo, memory, c, UnderWay[c]) /\ Scopes!Current = c  BY <1>2, ShownIs
<1>4. UnderWay[c].height = Rank(todo, c)
  <2>1. CASE todo[c].kind = "call"  BY <1>3, <2>1 DEF Shows
  <2>2. CASE todo[c].kind = "op"
    <3>1. PICK k \in BlocksIn(todo, c) : todo[k].mark = todo[c].cell  BY <1>1, <1>2, <2>2, CellIs
    <3>2. UnderWay[c] = [kind |-> "op", height |-> Rank(todo, c), self |-> Rank(todo, k) + 1,
                         code |-> todo[c].code]
      BY <1>3, <2>2, <3>1 DEF Shows
    <3> QED BY <3>2
  <2> QED BY <1>2, <2>1, <2>2
<1>5. n \in 0..(Len(todo) - 1) /\ n + 1 = c  BY <1>1, <1>2
<1>6. todo' = SubSeq(todo, 1, n) /\ memory' = memory  BY DEF Leave
<1> HIDE DEF n
<1>7. UnderWay' = SubSeq(UnderWay, 1, n) /\ Installed' = SubSeq(Installed, 1, Rank(todo, n + 1))
  BY <1>5, <1>6, CutMaps
<1> HIDE DEF c
<1> QED BY <1>3, <1>4, <1>5, <1>7 DEF Scopes!Leave, Scopes!Outermost, n

LEMMA ReturnMaps == ASSUME Inv, Inv', Return PROVE Scopes!Return
<1>1. Running /\ todo # <<>> /\ Leave /\ trapped' = trapped  BY DEF Return, Running, Continue
<1>2. Scopes!Running /\ Scopes!Leave  BY <1>1, ShownIs, LeaveMaps
<1> QED BY <1>1, <1>2 DEF Scopes!Return, Scopes!Continue

LEMMA HostAnswerMaps == ASSUME Inv, Inv', HostAnswer PROVE Scopes!HostAnswerLast
<1> DEFINE N == Len(todo)
<1>1. trapped = "no" /\ todo # <<>> /\ Top.kind = "host" /\ Leave /\ trapped' = trapped
  BY DEF HostAnswer, Continue
<1>2. Stacked(todo, memory) /\ todo \in Seq(Items) /\ N \in Nat  BY DEF Inv, Stacked
<1>3. N \in 1..N /\ todo[N].kind = "host"  BY <1>1, <1>2 DEF Top, Last
<1>4. N > 1 /\ todo[N - 1].kind \in {"call", "op"}  BY <1>2, <1>3 DEF Stacked, Good, GoodHost
<1>5. Current = N - 1
  <2>1. N - 1 \in 1..N /\ \A j \in ((N - 1) + 1)..N : j = N  BY <1>2, <1>4
  <2>2. \A j \in ((N - 1) + 1)..N : todo[j].kind \notin {"call", "op"}  BY <1>3, <2>1
  <2> QED BY <1>1, <1>2, <1>4, <2>1, <2>2, CurrentIs
<1>6. /\ Len(UnderWay) = N /\ Scopes!Top = UnderWay[N] /\ UnderWay # <<>> /\ Scopes!Current = Current
      /\ Shows(todo, memory, N, UnderWay[N])
  BY <1>1, <1>3, ShownIs
<1>7. Scopes!Top = Scopes!Asked  BY <1>3, <1>6 DEF Shows, Scopes!Asked
<1>8. Scopes!Leave  BY <1>1, LeaveMaps
<1> QED BY <1>1, <1>5, <1>6, <1>7, <1>8 DEF Scopes!HostAnswerLast, Scopes!HostAnswers, Scopes!Continue

\* The words of a state cell are no other open block's.
LEMMA CellsApart ==
    ASSUME Stacked(todo, memory), NEW k \in 1..Len(todo), todo[k].kind = "body",
           NEW a \in todo[k].mark..(todo[k].frame - 1),
           NEW j \in 1..Len(todo), IsOpen(todo[j]), j # k,
           NEW b \in todo[j].mark..(EndIn(memory, todo[j]) - 1)
    PROVE  a # b /\ b \in Room
<1>1. /\ todo[k].mark \in Nat /\ todo[k].frame \in Nat
      /\ todo[k].frame + 4 <= EndIn(memory, todo[k])
  BY FrameIs
<1>2. /\ todo \in Seq(Items) /\ Len(todo) \in Nat /\ j \in Nat /\ k \in Nat /\ todo[j] \in Items
      /\ IsOpen(todo[k])
  BY DEF Stacked, IsOpen, Open
<1>3. todo[j].kind \in {"fields", "body"} /\ todo[j].mark \in Nat  BY <1>2, ItemIs
<1>4. EndIn(memory, todo[j]) \in Nat /\ EndIn(memory, todo[k]) \in Nat  BY <1>2, AboveUp
<1>5. j < k => EndIn(memory, todo[j]) <= todo[k].mark
  <2> SUFFICES ASSUME j < k PROVE EndIn(memory, todo[j]) <= todo[k].mark  OBVIOUS
  <2>1. j \in OpensIn(todo, k)  BY <1>2 DEF OpensIn
  <2> QED BY <2>1 DEF Stacked, Good, GoodBlock, Above
<1>6. k < j => EndIn(memory, todo[k]) <= todo[j].mark
  <2> SUFFICES ASSUME k < j PROVE EndIn(memory, todo[k]) <= todo[j].mark  OBVIOUS
  <2>1. k \in OpensIn(todo, j)  BY <1>2 DEF OpensIn
  <2>2. Above(todo, memory, j, todo[j].mark)  BY <1>3 DEF Stacked, Good, GoodBlock, GoodFields
  <2> QED BY <2>1, <2>2 DEF Above
<1> DEFINE mk == todo[k].mark
           fk == todo[k].frame
           ek == EndIn(memory, todo[k])
           mj == todo[j].mark
           ej == EndIn(memory, todo[j])
<1>7. /\ mk \in Nat /\ fk \in Nat /\ ek \in Nat /\ mj \in Nat /\ ej \in Nat
      /\ fk + 4 <= ek
      /\ j < k => ej <= mk
      /\ k < j => ek <= mj
      /\ a \in mk..(fk - 1) /\ b \in mj..(ej - 1)
  BY <1>1, <1>3, <1>4, <1>5, <1>6
<1> HIDE DEF mk, fk, ek, mj, ej
<1>8. a \in Nat /\ b \in Nat /\ a >= mk /\ a < fk /\ b >= mj /\ b < ej  BY <1>7
<1>9. a # b  BY <1>2, <1>7, <1>8
<1>10. FRAME_START <= mj
  BY <1>2, <1>3 DEF Stacked, Good, GoodFields, GoodBlock, Above, mj
<1>11. ej <= HEAP_START
  <2>1. CASE todo[j].kind = "fields"
    <3>1. Reserved(todo[j])  BY <2>1 DEF Stacked, Good, GoodFields
    <3> QED BY <2>1, <3>1 DEF Reserved, EndIn, ej
  <2>2. CASE todo[j].kind = "body"  BY <2>2, FrameIs DEF ej
  <2> QED BY <1>3, <2>1, <2>2
<1>12. b \in Room  BY <1>7, <1>8, <1>10, <1>11, LayoutAssumption DEF Room
<1> QED BY <1>9, <1>12

\* An assignment changes one field of one installation and nothing under way.
LEMMA SetFieldMaps == ASSUME Inv, Inv', NEW v \in Values, SetField(v) PROVE Scopes!SetField(v)
<1> DEFINE N == Len(todo)
           C == Current
           h == HandlerOf(todo[C].code)
<1>1. /\ Running /\ todo # <<>> /\ todo[C].kind = "op" /\ todo' = todo /\ trapped' = trapped
  BY DEF SetField, Continue, Running
<1>2. PICK f \in 1..Fields[h] : memory' = [memory EXCEPT ![todo[C].cell + f - 1] = v]
  BY DEF SetField
<1>3. /\ todo \in Seq(Items) /\ N \in Nat /\ Stacked(todo, memory)
  BY <1>1, RunningIs
<1>4. C \in 1..N  BY <1>1, <1>3, CurrentIs
<1>5. PICK k \in BlocksIn(todo, C) :
         /\ k \in 1..Len(todo) /\ todo[k].kind = "body"
         /\ todo[C].cell = todo[k].mark /\ todo[k].mark \in Nat
         /\ HandlerIn(memory, todo[k].frame) = h
         /\ h \in Handlers /\ todo[k].frame = todo[k].mark + Fields[h]
  BY <1>1, <1>3, <1>4, CellIs
<1> DEFINE mk == todo[k].mark
           c == mk + f - 1
           w == memory'
           P == Rank(todo, k) + 1
           s == Installed
           y == Installed'
           R == Rank(todo, N + 1)
<1>6. c \in todo[k].mark..(todo[k].frame - 1)
  <2>1. Fields[h] \in Nat  BY <1>5, HandlerIs
  <2> HIDE DEF h
  <2> QED BY <1>5, <2>1
<1>7. memory' = [memory EXCEPT ![c] = v]  BY <1>2, <1>5
<1>8. memory \in [Room -> Int] /\ v \in Int  BY <1>3, HandlersAssumption DEF Stacked, Memories
<1>9. Fields[h] \in Nat /\ mk \in Nat  BY <1>5, HandlerIs
<1>10. c \in Room
  <2>1. IsOpen(todo[k]) /\ EndIn(memory, todo[k]) \in Nat /\ FRAME_START <= mk
        /\ todo[k].frame + 4 <= EndIn(memory, todo[k]) /\ EndIn(memory, todo[k]) <= HEAP_START
        /\ todo[k].frame \in Nat
    <3>1. IsOpen(todo[k])  BY <1>5 DEF IsOpen, Open
    <3>2. EndIn(memory, todo[k]) \in Nat  BY <1>3, <1>5, <3>1, AboveUp
    <3> QED BY <1>3, <1>5, <3>1, <3>2, FrameIs
  <2> DEFINE ek == EndIn(memory, todo[k])
             fk == todo[k].frame
  <2>2. /\ ek \in Nat /\ FRAME_START <= mk /\ fk + 4 <= ek /\ ek <= HEAP_START /\ fk \in Nat
        /\ c \in mk..(fk - 1) /\ mk \in Nat
    BY <1>6, <1>9, <2>1
  <2> HIDE DEF ek, fk, mk, c
  <2>3. c \in Nat /\ FRAME_START <= c /\ c < HEAP_START  BY <2>2, LayoutAssumption
  <2> QED BY <2>3, LayoutAssumption DEF Room
<1> HIDE DEF c, w, h, C
<1>11. w[c] = v /\ \A a \in Room : a # c => w[a] = memory[a]  BY <1>7, <1>8, <1>10 DEF w
<1>12. ASSUME NEW j \in 1..N, IsOpen(todo[j]), j # k, NEW a \in todo[j].mark..(EndIn(memory, todo[j]) - 1)
       PROVE  w[a] = memory[a]
  <2>1. c # a /\ a \in Room  BY <1>3, <1>5, <1>6, <1>12, CellsApart
  <2> QED BY <1>11, <2>1
<1>13. SameFrames(todo, memory, w, N)
  <2> SUFFICES ASSUME NEW j \in 1..N, todo[j].kind = "body",
                      NEW b \in todo[j].frame..(EndIn(memory, todo[j]) - 1)
               PROVE  w[b] = memory[b]
    BY DEF SameFrames
  <2>1. c # b /\ b \in Room  BY <1>3, <1>5, <1>6, CellIsNoFrame
  <2> QED BY <1>11, <2>1
<1>14. ASSUME NEW j \in 1..N, todo[j].kind = "body"
       PROVE  HandlerIn(w, todo[j].frame) = HandlerIn(memory, todo[j].frame)
  <2>1. Agree(todo, todo, N) /\ w \in Memories  BY <1>1, <1>3 DEF Agree, Inv, Stacked, w
  <2>2. Kept(todo, todo, memory, w, N)  BY <1>3, <1>13, <2>1, SameBelow
  <2> QED BY <1>14, <2>2 DEF Kept
<1>15. /\ Installs(todo, memory, s) /\ Views(todo, memory, UnderWay)
       /\ Installs(todo, w, y) /\ Views(todo, w, UnderWay')
  BY <1>1, InstalledIs, UnderWayIs, MapsNext DEF w
<1>16. N + 1 \in 1..(N + 1) /\ R \in Nat
  BY <1>3, RankType
<1>17. \A j \in BlocksIn(todo, N + 1) : j \in 1..N /\ todo[j].kind = "body" /\ IsOpen(todo[j])
  BY <1>3 DEF BlocksIn, IsBlock, IsOpen, Open
<1>18. ASSUME NEW j \in BlocksIn(todo, N + 1), j # k
       PROVE  ScopeIn(w, todo[j]) = ScopeIn(memory, todo[j])
  <2> DEFINE g == HandlerIn(memory, todo[j].frame)
             d == todo[j].mark
             fr == todo[j].frame
             ej == EndIn(memory, todo[j])
  <2>1. j \in 1..N /\ todo[j].kind = "body" /\ IsOpen(todo[j])  BY <1>17
  <2>2. HandlerIn(w, todo[j].frame) = g  BY <1>14, <2>1
  <2>3. g \in Handlers /\ d \in Nat /\ fr \in Nat /\ ej = fr + FrameSize(g)  BY <1>3, <2>1, FrameIs
  <2>4. fr = d + Fields[g]  BY <1>3, <2>1 DEF Stacked, Good, GoodBlock, Laid
  <2> HIDE DEF g, d, fr, ej
  <2>5. Fields[g] \in Nat /\ FrameSize(g) \in Nat  BY <2>3, HandlerIs
  <2>6. ASSUME NEW p \in 1..Fields[g] PROVE w[d + p - 1] = memory[d + p - 1]
    <3>1. d + p - 1 \in d..(ej - 1)  BY <2>3, <2>4, <2>5
    <3> QED BY <1>12, <1>18, <2>1, <3>1 DEF d, ej
  <2>7. Words(w, d, Fields[g]) = Words(memory, d, Fields[g])  BY <2>6 DEF Words
  <2> QED BY <2>2, <2>7 DEF ScopeIn, g, d, fr
<1>19. ScopeIn(memory, todo[k]) = [handler |-> h, state |-> Words(memory, mk, Fields[h])]
  BY <1>5 DEF ScopeIn
<1>20. ScopeIn(w, todo[k]) = [handler |-> h, state |-> [Words(memory, mk, Fields[h]) EXCEPT ![f] = v]]
  <2>1. HandlerIn(w, todo[k].frame) = h  BY <1>5, <1>14
  <2>2. ASSUME NEW p \in 1..Fields[h] PROVE w[mk + p - 1] = IF p = f THEN v ELSE memory[mk + p - 1]
    <3>1. CASE p = f  BY <1>11, <3>1 DEF c
    <3>2. CASE p # f
      <4> DEFINE a == mk + p - 1
                 fr == todo[k].frame
      <4>1. fr = mk + Fields[h] /\ a # c /\ a \in mk..(fr - 1)
        <5> HIDE DEF mk
        <5>1. fr = mk + Fields[h]  BY <1>5 DEF mk
        <5> HIDE DEF fr
        <5> QED BY <1>9, <3>2, <5>1 DEF c
      <4>2. a \in Room
        <5>1. /\ EndIn(memory, todo[k]) \in Nat /\ FRAME_START <= mk /\ fr \in Nat
              /\ fr + 4 <= EndIn(memory, todo[k]) /\ EndIn(memory, todo[k]) <= HEAP_START
          <6>1. IsOpen(todo[k])  BY <1>5 DEF IsOpen, Open
          <6> QED BY <1>3, <1>5, <6>1, AboveUp, FrameIs
        <5> DEFINE ek == EndIn(memory, todo[k])
        <5>2. ek \in Nat /\ FRAME_START <= mk /\ fr \in Nat /\ fr + 4 <= ek /\ ek <= HEAP_START
          BY <5>1
        <5> HIDE DEF ek, fr, mk, a
        <5>3. a \in Nat /\ a >= mk /\ a < fr  BY <1>9, <4>1, <5>2
        <5> QED BY <1>9, <5>2, <5>3, LayoutAssumption DEF Room
      <4> HIDE DEF a
      <4>3. w[a] = memory[a]  BY <1>11, <4>1, <4>2
      <4> QED BY <3>2, <4>3 DEF a
    <3> QED BY <3>1, <3>2
  <2>3. Words(w, mk, Fields[h]) = [Words(memory, mk, Fields[h]) EXCEPT ![f] = v]
    BY <2>2 DEF Words
  <2> QED BY <2>1, <2>3 DEF ScopeIn
<1>21. k \in BlocksIn(todo, N + 1)  BY <1>3, <1>4 DEF BlocksIn
<1>22. P \in 1..R /\ s[P] = ScopeIn(memory, todo[k]) /\ y[P] = ScopeIn(w, todo[k])
  BY <1>15, <1>21 DEF Installs
<1>23. \A p \in 1..R : p # P => y[p] = s[p]
  <2> SUFFICES ASSUME NEW p \in 1..R, p # P PROVE y[p] = s[p]  OBVIOUS
  <2>1. PICK j \in BlocksIn(todo, N + 1) : p = Rank(todo, j) + 1  BY <1>15 DEF Installs
  <2>2. j # k  BY <2>1
  <2>3. s[p] = ScopeIn(memory, todo[j]) /\ y[p] = ScopeIn(w, todo[j])  BY <1>15, <2>1 DEF Installs
  <2> QED BY <1>18, <2>2, <2>3
<1>24. s = [p \in 1..R |-> s[p]] /\ y = [p \in 1..R |-> y[p]]  BY <1>15 DEF Installs
<1>25. y = [s EXCEPT ![P].state[f] = v]
  <2> DEFINE m == Words(memory, mk, Fields[h])
             n == [m EXCEPT ![f] = v]
  <2>1. s[P] = [handler |-> h, state |-> m] /\ y[P] = [handler |-> h, state |-> n]
    BY <1>19, <1>20, <1>22
  <2> HIDE DEF P, s, y, R, m
  <2>2. [s EXCEPT ![P].state[f] = v][P] = y[P]
    BY <1>22, <1>24, <2>1
  <2>3. \A p \in 1..R : p # P => [s EXCEPT ![P].state[f] = v][p] = s[p]
    BY <1>22, <1>24
  <2>4. [s EXCEPT ![P].state[f] = v] = [p \in 1..R |-> [s EXCEPT ![P].state[f] = v][p]]
    BY <1>24
  <2> DEFINE z == [s EXCEPT ![P].state[f] = v]
  <2>5. z[P] = y[P] /\ (\A p \in 1..R : p # P => z[p] = s[p]) /\ z = [p \in 1..R |-> z[p]]
    BY <2>2, <2>3, <2>4
  <2> HIDE DEF z
  <2>6. \A p \in 1..R : z[p] = y[p]  BY <1>23, <2>5
  <2>7. z = y  BY <1>24, <2>5, <2>6
  <2> QED BY <2>7 DEF z
<1>26. UnderWay' = UnderWay
  <2> DEFINE z == UnderWay'
             x == UnderWay
  <2>1. ASSUME NEW i \in 1..N PROVE z[i] = x[i]
    <3>1. Shows(todo, memory, i, x[i]) /\ Shows(todo, w, i, z[i])  BY <1>15 DEF Views
    <3>2. todo[i] \in Items /\ todo[i].kind \in {"call", "host", "fields", "body", "args", "op"}
      BY <1>3, ItemIs
    <3> HIDE DEF w, z, x
    <3>3. CASE todo[i].kind \in {"call", "body"}  BY <3>1, <3>3 DEF Shows
    <3>4. CASE todo[i].kind \in {"args", "host"}  BY <3>1, <3>4 DEF Shows
    <3>5. CASE todo[i].kind = "op"
      <4>1. PICK l \in BlocksIn(todo, i) : todo[l].mark = todo[i].cell  BY <1>3, <3>5, CellIs
      <4> QED BY <3>1, <3>5, <4>1 DEF Shows
    <3>6. CASE todo[i].kind = "fields"
      <4> DEFINE at == todo[i].held
                 q == todo[i].n
                 g == Fields[todo[i].handler]
                 ei == EndIn(memory, todo[i])
      <4>1. /\ x[i] = [kind |-> "fields", handler |-> todo[i].handler, start |-> Words(memory, at, q)]
            /\ z[i] = [kind |-> "fields", handler |-> todo[i].handler, start |-> Words(w, at, q)]
        BY <3>1, <3>6 DEF Shows
      <4>2. Reserved(todo[i])  BY <1>3, <3>6 DEF Stacked, Good, GoodFields
      <4>3. IsOpen(todo[i]) /\ ei = at + g /\ i # k  BY <1>5, <3>2, <3>6, ItemIs DEF EndIn
      <4>4. at \in Nat /\ g \in Nat /\ todo[i].mark = at /\ q \in 0..g
        BY <3>2, <3>6, <4>2, ItemIs, HandlerIs DEF Reserved
      <4> HIDE DEF at, q, g, ei
      <4>5. ASSUME NEW p \in 1..q PROVE w[at + p - 1] = memory[at + p - 1]
        <5>1. at + p - 1 \in at..(ei - 1)  BY <4>3, <4>4
        <5> QED BY <1>12, <4>3, <4>4, <5>1 DEF ei
      <4>6. Words(w, at, q) = Words(memory, at, q)  BY <4>5 DEF Words
      <4> QED BY <4>1, <4>6
    <3> QED BY <3>2, <3>3, <3>4, <3>5, <3>6
  <2>2. Listing(x, N) /\ Listing(z, N)  BY <1>3, <1>15 DEF Views, Listing
  <2> HIDE DEF z, x
  <2>3. z = x  BY <2>1, <2>2, ListingsEqual
  <2> QED BY <2>3 DEF z, x
<1>27. Shows(todo, memory, C, UnderWay[C]) /\ Scopes!Current = C /\ Scopes!Running
  BY <1>1, <1>4, ShownIs DEF C
<1>28. UnderWay[C] = [kind |-> "op", height |-> Rank(todo, C), self |-> P, code |-> todo[C].code]
  BY <1>1, <1>5, <1>27 DEF Shows
<1>29. UnderWay[C].kind = "op" /\ UnderWay[C].self = P  BY <1>28
<1>30. f \in DOMAIN s[P].state  BY <1>19, <1>22 DEF Words
<1> HIDE DEF P
<1> QED BY <1>1, <1>25, <1>26, <1>27, <1>29, <1>30 DEF Scopes!SetField, Scopes!Continue

LEMMA InitMaps == Init => Scopes!Init
<1> SUFFICES ASSUME Init PROVE Scopes!Init  OBVIOUS
<1> DEFINE x == [kind |-> "call"]
           s == Installed
           v == UnderWay
<1>1. Inv /\ todo = <<x>> /\ trapped = "no"  BY InitHolds DEF Init
<1>2. todo \in Seq(Items) /\ Len(todo) = 1 /\ todo[1] = x /\ 1 \in 1..Len(todo)
  BY <1>1 DEF Inv, Stacked
<1>3. Rank(todo, 1) = 0  BY RankZero
<1>4. Rank(todo, 1 + 1) = 0
  <2>1. ~ IsBlock(todo[1])  BY <1>2 DEF IsBlock
  <2> HIDE DEF x
  <2> QED BY <1>2, <1>3, <2>1, RankAbove
<1>5. Installs(todo, memory, s) /\ Views(todo, memory, v)  BY <1>1, InstalledIs, UnderWayIs
<1>6. s = <<>>
  <2> HIDE DEF s
  <2>1. Listing(s, 0)  BY <1>2, <1>4, <1>5 DEF Installs, Listing
  <2> QED BY <2>1, ListingIs
<1>7. v = <<Scopes!Function(0)>>
  <2>1. Shows(todo, memory, 1, v[1])  BY <1>2, <1>5 DEF Views
  <2>2. todo[1].kind = "call"  BY <1>2
  <2>3. v[1] = Scopes!Function(0)  BY <1>3, <2>1, <2>2 DEF Shows, Scopes!Function
  <2> HIDE DEF v
  <2>4. v = [i \in 1..1 |-> v[i]]  BY <1>2, <1>5 DEF Views
  <2> QED BY <2>3, <2>4
<1> QED BY <1>1, <1>6, <1>7 DEF Scopes!Init

LEMMA NextMaps ==
    ASSUME ~ ReturnsInside, ~ AsksAnywhere, Inv, Inv', [Next]_vars
    PROVE  [Scopes!Next]_(Scopes!vars)
<1>1. ASSUME NEW h \in Handlers, With(h) PROVE Scopes!Next  BY <1>1, WithMaps DEF Scopes!Next
<1>2. ASSUME NEW v \in Values, StartField(v) PROVE Scopes!Next  BY <1>2, StartFieldMaps DEF Scopes!Next
<1>3. ASSUME NEW v \in Values, SetField(v) PROVE Scopes!Next  BY <1>3, SetFieldMaps DEF Scopes!Next
<1>4. CASE Install  BY <1>4, InstallMaps DEF Scopes!Next
<1>5. CASE EndWith  BY <1>5, EndWithMaps DEF Scopes!Next
<1>6. CASE Call  BY <1>6, CallMaps DEF Scopes!Next
<1>7. CASE Return  BY <1>7, ReturnMaps DEF Scopes!Next
<1>8. ASSUME NEW e \in Effects, NEW op \in 1..Operations[e], Perform(e, op) PROVE Scopes!Next
  BY <1>8, PerformMaps DEF Scopes!Next
<1>9. ASSUME NEW e \in Effects, Unanswered(e) PROVE Scopes!Next  BY <1>9, UnansweredMaps DEF Scopes!Next
<1>10. CASE Answer  BY <1>10, AnswerMaps DEF Scopes!Next
<1>11. CASE AskHost  BY <1>11, AskHostMaps DEF Scopes!Next
<1>12. CASE HostAnswer  BY <1>12, HostAnswerMaps DEF Scopes!Next
<1>13. CASE NoRoom  BY <1>13, NoRoomMaps DEF Scopes!Next
<1>14. CASE UNCHANGED vars
  <2>1. todo' = todo /\ memory' = memory /\ trapped' = trapped  BY <1>14 DEF vars
  <2>2. Installed' = Installed /\ UnderWay' = UnderWay  BY <2>1, StillMaps
  <2> QED BY <2>1, <2>2 DEF Scopes!vars
<1> QED BY <1>1, <1>2, <1>3, <1>4, <1>5, <1>6, <1>7, <1>8, <1>9, <1>10, <1>11, <1>12, <1>13, <1>14
    DEF Next

\* The code emitted for `with`, `perform` and `return` does what they mean: under
\* the mapping of its memory to the installed handlers, every step is a step of
\* HandlerScopes or changes nothing there.  In particular the frame found before
\* the arguments of a `perform` were worked out is the innermost installation's
\* that answers once they have been, and every function leaves the handlers its
\* caller had.
THEOREM CompiledCodeMeansWith ==
    ASSUME ~ ReturnsInside, ~ AsksAnywhere PROVE Spec => ImplementsScopes
<1>1. Init => Scopes!Init  BY InitMaps
<1>2. Inv /\ Inv' /\ [Next]_vars => [Scopes!Next]_(Scopes!vars)  BY NextMaps
<1>3. Spec => []Inv  BY InvHolds
<1> QED BY <1>1, <1>2, <1>3, PTL DEF Spec, ImplementsScopes, Scopes!Spec

=============================================================================
