------------------------------- MODULE ReuseProofs -------------------------------
(***************************************************************************)
(* The reuse analysis, for every program.  Answers only grow, and rounds   *)
(* that end because nothing moved end at a fixed point.  A fixed point is  *)
(* a certificate: the states a walk goes through say, at each place of the *)
(* body, what every slot may hold in any run that comes there.  A run then *)
(* keeps to the certificates of the calls on its stack, step by step, so   *)
(* what it lets go of is what the answers said.                            *)
(***************************************************************************)
EXTENDS ReuseSummaries, SequenceTheorems, NaturalsInduction, WellFoundedInduction, TLAPS

IsUse(u) == u = [shared |-> u.shared, retained |-> u.retained]

Answers(p, sums) == sums = [f \in DOMAIN p |-> sums[f]] /\ \A f \in DOMAIN p : IsUse(sums[f])

\* The first n functions have nothing to say that is not in sums.
Settled(n, p, sums) == \A f \in 1 .. n : Within(Walk(p[f], sums), sums[f])

\* Every function before the one whose turn it is has nothing new to say, as
\* long as nothing moved since the round began.
Inv ==
    /\ prog \in Programs
    /\ Answers(prog, known) /\ Answers(prog, before)
    /\ func \in 1 .. Len(prog) + 1
    /\ \A f \in DOMAIN prog : Within(before[f], known[f])
    /\ phase = "rounds" => ~quiet
    /\ phase = "rounds" /\ known = before => Settled(func - 1, prog, known)
    /\ quiet => Settled(Len(prog), prog, known)

LEMMA ProgramFacts ==
  ASSUME Inv
  PROVE  Len(prog) \in Nat /\ DOMAIN prog = 1 .. Len(prog)
BY ProgramsAssumption DEF Inv

LEMMA Starts == Init => Inv
<1> SUFFICES ASSUME Init PROVE Inv
  OBVIOUS
<1>1. Len(prog) \in Nat /\ DOMAIN prog = 1 .. Len(prog)
  BY ProgramsAssumption DEF Init
<1>2. Answers(prog, known) /\ Answers(prog, before)
  BY DEF Init, Answers, IsUse, Nothing
<1>3. func - 1 = 0 /\ func \in 1 .. Len(prog) + 1
  BY <1>1 DEF Init
<1>4. Settled(func - 1, prog, known)
  BY <1>3 DEF Settled
<1>5. \A f \in DOMAIN prog : Within(before[f], known[f])
  BY DEF Init, Within
<1> QED
  BY <1>2, <1>3, <1>4, <1>5 DEF Init, Inv

\* Widening keeps what was known, and leaves it as it was only if there was
\* nothing to add.
LEMMA WidenFacts ==
  ASSUME NEW STATE use, NEW STATE found, NEW STATE other, IsUse(use), IsUse(other)
  PROVE  /\ IsUse(Widen(use, found))
         /\ Widen(use, found) = use => Within(found, use)
         /\ Within(other, use) => Within(other, Widen(use, found))
         /\ Within(other, use) /\ Widen(use, found) = other => use = other
<1> DEFINE sum == Widen(use, found)
<1>1. /\ sum = [shared |-> use.shared \union found.shared,
                retained |-> use.retained \union found.retained]
      /\ sum.shared = use.shared \union found.shared
      /\ sum.retained = use.retained \union found.retained
  BY DEF Widen
<1>2. IsUse(sum)
  BY <1>1 DEF IsUse
<1> HIDE DEF sum
<1>3. sum = use => Within(found, use)
  BY <1>1 DEF Within
<1>4. Within(other, use) => Within(other, sum)
  BY <1>1 DEF Within
<1>5. ASSUME Within(other, use), sum = other PROVE use = other
  <2>1. use.shared = other.shared /\ use.retained = other.retained
    BY <1>1, <1>5 DEF Within
  <2> QED
    BY <2>1 DEF IsUse
<1> QED
  BY <1>2, <1>3, <1>4, <1>5 DEF sum

LEMMA Walks ==
  ASSUME Inv, WalkFunction PROVE Inv'
<1> DEFINE found == Walk(prog[func], known)
<1>1. /\ Len(prog) \in Nat /\ DOMAIN prog = 1 .. Len(prog)
      /\ func \in DOMAIN prog /\ func - 1 \in Nat
  BY ProgramFacts DEF Inv, WalkFunction
<1>2. IsUse(known[func]) /\ Within(before[func], known[func]) /\ IsUse(before[func])
  BY <1>1 DEF Inv, Answers
<1>3. /\ known' = [known EXCEPT ![func] = Widen(@, found)]
      /\ func' = func + 1 /\ phase = "rounds" /\ phase' = phase
      /\ prog' = prog /\ before' = before /\ quiet' = quiet
  BY DEF WalkFunction
<1> HIDE DEF found
<1>4. known = [f \in DOMAIN prog |-> known[f]] /\ before = [f \in DOMAIN prog |-> before[f]]
  BY DEF Inv, Answers
<1>5. /\ known'[func] = Widen(known[func], found)
      /\ \A f \in DOMAIN prog : f # func => known'[f] = known[f]
      /\ known' = [f \in DOMAIN prog |-> known'[f]]
  BY <1>1, <1>3, <1>4
<1>6. /\ IsUse(known'[func])
      /\ Widen(known[func], found) = known[func] => Within(found, known[func])
      /\ Within(before[func], known'[func])
      /\ Widen(known[func], found) = before[func] => known[func] = before[func]
  <2> DEFINE use == known[func]
  <2> DEFINE other == before[func]
  <2>1. IsUse(use) /\ IsUse(other) /\ Within(other, use)
    BY <1>2
  <2> HIDE DEF use, other
  <2>2. /\ IsUse(Widen(use, found))
        /\ Widen(use, found) = use => Within(found, use)
        /\ Within(other, Widen(use, found))
        /\ Widen(use, found) = other => use = other
    BY <2>1, WidenFacts
  <2> QED
    BY <1>5, <2>2 DEF use, other
<1>7. Answers(prog, known') /\ Answers(prog, before)
  BY <1>5, <1>6 DEF Inv, Answers
<1>8. \A f \in DOMAIN prog : Within(before[f], known'[f])
  BY <1>5, <1>6 DEF Inv
<1>9. ASSUME known' = before PROVE Settled(func, prog, known')
  <2>1. known[func] = before[func] /\ known'[func] = before[func]
    BY <1>5, <1>6, <1>9
  <2>2. \A f \in DOMAIN prog : before[f] = known[f]
    BY <1>5, <1>9, <2>1
  <2>3. before = known
    BY <1>4, <2>2
  <2>4. known' = known
    BY <1>9, <2>3
  <2>5. Within(found, known[func])
    BY <1>5, <1>6, <2>4
  <2>6. Settled(func - 1, prog, known)
    BY <1>3, <2>3 DEF Inv
  <2>7. Settled(func, prog, known)
    <3> SUFFICES ASSUME NEW f \in 1 .. func
                 PROVE  Within(Walk(prog[f], known), known[f])
      BY DEF Settled
    <3>1. CASE f = func
      BY <2>5, <3>1 DEF found
    <3>2. CASE f # func
      <4>1. f \in 1 .. func - 1
        BY <1>1, <3>2
      <4> QED
        BY <2>6, <4>1 DEF Settled
    <3> QED
      BY <3>1, <3>2
  <2> QED
    BY <2>4, <2>7
<1>10. func' - 1 = func /\ func' \in 1 .. Len(prog) + 1
  BY <1>1, <1>3
<1>11. prog \in Programs /\ ~quiet
  BY <1>3 DEF Inv
<1> QED
  BY <1>3, <1>7, <1>8, <1>9, <1>10, <1>11 DEF Inv

LEMMA RoundEnds ==
  ASSUME Inv, EndRound PROVE Inv'
<1>1. Len(prog) \in Nat /\ DOMAIN prog = 1 .. Len(prog) /\ func = Len(prog) + 1
  BY ProgramFacts DEF Inv, EndRound
<1>2. prog' = prog /\ known' = known /\ phase = "rounds"
  BY DEF EndRound
<1>3. Answers(prog, known) /\ Answers(prog, before) /\ prog \in Programs
  BY DEF Inv
<1>4. CASE Moved /\ MoreRounds
  <2>1. before' = known /\ func' = 1 /\ phase' = phase /\ quiet' = quiet
    BY <1>4 DEF EndRound
  <2>2. func' - 1 = 0 /\ func' \in 1 .. Len(prog) + 1
    BY <1>1, <2>1
  <2>3. Settled(0, prog, known)
    BY DEF Settled
  <2>4. \A f \in DOMAIN prog : Within(known[f], known[f])
    BY DEF Within
  <2>5. ~quiet
    BY <1>2 DEF Inv
  <2> QED
    BY <1>2, <1>3, <2>1, <2>2, <2>3, <2>4, <2>5 DEF Inv
<1>5. CASE ~(Moved /\ MoreRounds)
  <2>1. quiet' = ~Moved /\ phase' = "runs" /\ before' = before /\ func' = func
    BY <1>5 DEF EndRound
  <2>2. quiet' => known = before
    BY <2>1 DEF Moved
  <2>3. known = before => Settled(Len(prog), prog, known)
    <3>1. func - 1 = Len(prog)
      BY <1>1
    <3> QED
      BY <1>2, <3>1 DEF Inv
  <2>4. func \in 1 .. Len(prog) + 1 /\ \A f \in DOMAIN prog : Within(before[f], known[f])
    BY DEF Inv
  <2> QED
    BY <1>2, <1>3, <2>1, <2>2, <2>3, <2>4 DEF Inv
<1> QED
  BY <1>4, <1>5

\* A run of the program reads the answers and changes none.
LEMMA RunChanges ==
    ASSUME Run
    PROVE  UNCHANGED analysis /\ phase = "runs" /\ phase' \in {"runs", "returned", "exhausted"}
<1>1. ASSUME NEW value, Answer(value), phase = "runs" PROVE phase' \in {"runs", "returned"}
  BY <1>1, ZenonT(30) DEF Answer
<1>2. CASE Return
  BY <1>1, <1>2 DEF Return, AtCode, Running
<1>3. CASE Fall
  BY <1>1, <1>3 DEF Fall, Running
<1>4. CASE Build \/ HandOver \/ Keep
  BY <1>4 DEF Build, HandOver, Keep, AtCode, Running
<1>5. CASE Call
  BY <1>5 DEF Call, AtCode, Running
<1>6. CASE While \/ Again \/ \E s \in Slots : Choose(s)
  BY <1>6 DEF While, Again, Choose, AtCode, Running
<1> QED BY <1>2, <1>3, <1>4, <1>5, <1>6 DEF Run

LEMMA RunsOn ==
  ASSUME Inv,
         prog' = prog, known' = known, before' = before, func' = func, quiet' = quiet,
         phase' = phase \/ (phase # "rounds" /\ phase' # "rounds")
  PROVE  Inv'
BY DEF Inv

LEMMA Keeps == Inv /\ [Next]_vars => Inv'
<1> SUFFICES ASSUME Inv, [Next]_vars PROVE Inv'
  OBVIOUS
<1>1. CASE WalkFunction
  BY <1>1, Walks
<1>2. CASE EndRound
  BY <1>2, RoundEnds
<1>3. CASE \E f \in DOMAIN prog : Start(f)
  BY <1>3, RunsOn DEF Start, analysis
<1>4. CASE Run
  <2>1. UNCHANGED analysis /\ phase = "runs" /\ phase' \in {"runs", "returned", "exhausted"}
    BY <1>4, RunChanges
  <2>2. phase # "rounds" /\ phase' # "rounds"
    BY <2>1
  <2> QED
    BY <2>1, <2>2, RunsOn DEF analysis
<1>5. CASE UNCHANGED vars
  BY <1>5 DEF vars, analysis, Inv
<1> QED
  BY <1>1, <1>2, <1>3, <1>4, <1>5 DEF Next

THEOREM Invariant == Spec => []Inv
BY Starts, Keeps, PTL DEF Spec

\* Rounds that end because nothing moved have found a fixed point, for every
\* program and however its functions call each other (reuse.rs summarise).
THEOREM QuietIsEnough == Spec => []QuietIsConverged
<1>1. Inv => QuietIsConverged
  BY ProgramFacts DEF Inv, QuietIsConverged, Converged, Settled
<1> QED
  BY Invariant, <1>1, PTL

(***************************************************************************)
(* The walk of one function, one instruction at a time.                    *)
(***************************************************************************)
Binding == {"put", "pick", "give", "call"}
Jumping == {"while", "again"}
Reading == {"put", "pick", "give", "keep", "return"}

\* What an instruction that binds a slot binds it to.
Bound(i, slots, sums) == IF i.op = "call" THEN Shared(i, slots, sums) ELSE Held(slots, i.from)

IsWalk(w) ==
    /\ w = [slots |-> w.slots, shared |-> w.shared, retained |-> w.retained]
    /\ w.slots = [s \in Slots |-> w.slots[s]]

\* All of one state of the slots is in another.
Inside(b, a) == \A s \in Slots : b[s] \subseteq a[s]

\* After the instruction a holds what b held, and what it binds.
Carries(i, b, a, sums) ==
    \A s \in Slots : IF i.op \in Binding /\ s = i.to THEN Bound(i, b, sums) \subseteq a[s]
                     ELSE b[s] \subseteq a[s]

\* A jump binds nothing.
Stays(i, b, a) == i.op \in Jumping => a = b

\* The uses of the parameters count what the instruction does with them.
Counts(i, b, use, sums) ==
    /\ i.op \in {"give", "keep"} => Held(b, i.from) \subseteq use.retained
    /\ i.op = "call" => Retained(i, b, sums) \subseteq use.retained
    /\ i.op = "return" => Held(b, i.from) \subseteq use.shared

\* An instruction of a function of a program.
Proper(i, p) ==
    /\ i.op \in Binding \union {"keep", "return", "while", "again"}
    /\ i.op \in Binding => i.to \in Slots
    /\ i.op \in Reading => i.from \subseteq Slots
    /\ i.op = "call" => i.of \in DOMAIN p /\ \A a \in DOMAIN i.args : i.args[a] \in Slots

LEMMA EffectOfBinding ==
    ASSUME NEW i, NEW w, NEW sums, IsWalk(w), i.op \in Binding, i.to \in Slots, NEW x,
           x = Effect(i, w, sums)
    PROVE  /\ IsWalk(x) /\ w.shared \subseteq x.shared /\ w.retained \subseteq x.retained
           /\ x.slots = [w.slots EXCEPT ![i.to] = Bound(i, w.slots, sums)]
           /\ Counts(i, w.slots, x, sums)
<1>1. PICK sl, sh, re : sl = w.slots /\ sh = w.shared /\ re = w.retained
  OBVIOUS
<1>2. w = [slots |-> sl, shared |-> sh, retained |-> re] /\ sl = [s \in Slots |-> sl[s]]
  BY <1>1 DEF IsWalk
<1>3. PICK v : v = [sl EXCEPT ![i.to] = Bound(i, sl, sums)]
  OBVIOUS
<1>4. v = [s \in Slots |-> v[s]]
  BY <1>2, <1>3
<1>5. CASE i.op \in {"put", "pick"}
  <2>1. x = [slots |-> v, shared |-> sh, retained |-> re]
    BY <1>1, <1>2, <1>3, <1>5 DEF Effect, Bound
  <2> QED BY <1>1, <1>3, <1>4, <1>5, <2>1 DEF IsWalk, Counts
<1>6. CASE i.op = "give"
  <2>1. x = [slots |-> v, shared |-> sh, retained |-> re \union Held(sl, i.from)]
    BY <1>1, <1>2, <1>3, <1>6 DEF Effect, Bound
  <2> QED BY <1>1, <1>3, <1>4, <1>6, <2>1 DEF IsWalk, Counts
<1>7. CASE i.op = "call"
  <2>1. x = [slots |-> v, shared |-> sh, retained |-> re \union Retained(i, sl, sums)]
    BY <1>1, <1>2, <1>3, <1>7 DEF Effect, Bound
  <2> QED BY <1>1, <1>3, <1>4, <1>7, <2>1 DEF IsWalk, Counts
<1> QED BY <1>5, <1>6, <1>7 DEF Binding

LEMMA EffectOfTheRest ==
    ASSUME NEW i, NEW w, NEW sums, IsWalk(w), i.op \in {"keep", "return", "while", "again"}, NEW x,
           x = Effect(i, w, sums)
    PROVE  /\ IsWalk(x) /\ w.shared \subseteq x.shared /\ w.retained \subseteq x.retained
           /\ x.slots = w.slots
           /\ Counts(i, w.slots, x, sums)
<1>1. PICK sl, sh, re : sl = w.slots /\ sh = w.shared /\ re = w.retained
  OBVIOUS
<1>2. w = [slots |-> sl, shared |-> sh, retained |-> re] /\ sl = [s \in Slots |-> sl[s]]
  BY <1>1 DEF IsWalk
<1>3. CASE i.op = "keep"
  <2>1. x = [slots |-> sl, shared |-> sh, retained |-> re \union Held(sl, i.from)]
    BY <1>1, <1>2, <1>3 DEF Effect
  <2>2. /\ x.slots = sl /\ x.shared = sh
        /\ x.retained = re \union Held(sl, i.from)
    BY <2>1
  <2>3. IsWalk(x)
    BY <1>2, <2>1, <2>2 DEF IsWalk
  <2>4. Counts(i, sl, x, sums)
    BY <1>3, <2>2 DEF Counts
  <2> QED BY <1>1, <2>2, <2>3, <2>4
<1>4. CASE i.op = "return"
  <2>1. x = [slots |-> sl, shared |-> sh \union Held(sl, i.from), retained |-> re]
    BY <1>1, <1>2, <1>4 DEF Effect
  <2>2. /\ x.slots = sl /\ x.shared = sh \union Held(sl, i.from)
        /\ x.retained = re
    BY <2>1
  <2>3. IsWalk(x)
    BY <1>2, <2>1, <2>2 DEF IsWalk
  <2>4. Counts(i, sl, x, sums)
    BY <1>4, <2>2 DEF Counts
  <2> QED BY <1>1, <2>2, <2>3, <2>4
<1>5. CASE i.op \in {"while", "again"}
  <2>1. x = w
    BY <1>5 DEF Effect
  <2> QED BY <1>5, <2>1 DEF IsWalk, Counts
<1> QED BY <1>3, <1>4, <1>5

\* One instruction of a walk.
LEMMA EffectDoes ==
    ASSUME NEW i, NEW p, Proper(i, p), NEW w, NEW sums, IsWalk(w), NEW x,
           x = Effect(i, w, sums)
    PROVE  /\ IsWalk(x) /\ w.shared \subseteq x.shared /\ w.retained \subseteq x.retained
           /\ Carries(i, w.slots, x.slots, sums)
           /\ Counts(i, w.slots, x, sums)
           /\ Stays(i, w.slots, x.slots)
<1>1. CASE i.op \in Binding
  <2>0. i.to \in Slots
    BY <1>1 DEF Proper
  <2>1. /\ IsWalk(x) /\ w.shared \subseteq x.shared /\ w.retained \subseteq x.retained
        /\ x.slots = [w.slots EXCEPT ![i.to] = Bound(i, w.slots, sums)]
        /\ Counts(i, w.slots, x, sums)
    BY <1>1, <2>0, EffectOfBinding
  <2>2. PICK b, a, v : b = w.slots /\ a = x.slots /\ v = Bound(i, w.slots, sums)
    OBVIOUS
  <2>3. a = [b EXCEPT ![i.to] = v] /\ b = [s \in Slots |-> b[s]]
    BY <2>1, <2>2 DEF IsWalk
  <2>4. \A s \in Slots : a[s] = IF s = i.to THEN v ELSE b[s]
    BY <2>3
  <2>5. Carries(i, w.slots, x.slots, sums)
    <3>1. \A s \in Slots : IF i.op \in Binding /\ s = i.to THEN Bound(i, b, sums) \subseteq a[s]
                          ELSE b[s] \subseteq a[s]
      <4> SUFFICES ASSUME NEW s \in Slots
                   PROVE  IF i.op \in Binding /\ s = i.to THEN Bound(i, b, sums) \subseteq a[s]
                          ELSE b[s] \subseteq a[s]
        OBVIOUS
      <4>1. CASE s = i.to
        <5>1. a[s] = Bound(i, b, sums)
          BY <2>2, <2>4, <4>1
        <5> QED BY <1>1, <4>1, <5>1
      <4>2. CASE s # i.to
        BY <2>4, <4>2
      <4> QED BY <4>1, <4>2
    <3> QED BY <2>2, <3>1 DEF Carries
  <2>6. i.op \notin Jumping
    BY <1>1 DEF Binding, Jumping
  <2> QED BY <2>1, <2>5, <2>6 DEF Stays
<1>2. CASE i.op \in {"keep", "return", "while", "again"}
  <2>1. /\ IsWalk(x) /\ w.shared \subseteq x.shared /\ w.retained \subseteq x.retained
        /\ x.slots = w.slots
        /\ Counts(i, w.slots, x, sums)
    BY <1>2, EffectOfTheRest
  <2>2. Carries(i, w.slots, x.slots, sums)
    BY <1>2, <2>1 DEF Carries, Binding
  <2> QED BY <2>1, <2>2 DEF Stays
<1> QED BY <1>1, <1>2 DEF Proper

\* A set of numbers that is not empty has a least member.
LEMMA Least ==
    ASSUME NEW S, S \subseteq Nat, S # {}
    PROVE  \E x \in S : \A y \in S : x <= y
<1> DEFINE R == {ss \in Nat \X Nat : ss[1] < ss[2]}
<1>1. IsWellFoundedOn(R, Nat)
  BY NatLessThanWellFounded DEF OpToRel
<1>2. \A x, y \in S : y < x => <<y, x>> \in R
  OBVIOUS
<1> HIDE DEF R
<1>3. PICK x \in S : \A y \in S : ~(<<y, x>> \in R)
  BY <1>1, WFMin
<1>4. ASSUME NEW y \in S PROVE x <= y
  <2>1. x \in Nat /\ y \in Nat /\ ~(y < x)
    BY <1>2, <1>3
  <2> QED BY <2>1
<1> QED BY <1>4

\* The states of a walk that goes over the instructions in an order.
Walked(body, order, sums, start, m, g) ==
    g = [n \in 0 .. m |-> IF n = 0 THEN start ELSE Effect(body[order[n]], g[n - 1], sums)]

\* One state after another.
InSteps(body, order, sums, start, m, g) ==
    /\ g = [n \in 0 .. m |-> g[n]] /\ g[0] = start
    /\ \A n \in 1 .. m : g[n] = Effect(body[order[n]], g[n - 1], sums)

LEMMA WalkedSoFar ==
    ASSUME NEW body, NEW order, NEW sums, NEW start, NEW m \in Nat, NEW g
    PROVE  Walked(body, order, sums, start, m, g) <=> InSteps(body, order, sums, start, m, g)
<1>1. ASSUME Walked(body, order, sums, start, m, g)
      PROVE  /\ g = [n \in 0 .. m |-> g[n]] /\ g[0] = start
             /\ \A n \in 1 .. m : g[n] = Effect(body[order[n]], g[n - 1], sums)
  <2>1. g = [n \in 0 .. m |-> IF n = 0 THEN start ELSE Effect(body[order[n]], g[n - 1], sums)]
    BY <1>1 DEF Walked
  <2>2. \A n \in 0 .. m : g[n] = IF n = 0 THEN start ELSE Effect(body[order[n]], g[n - 1], sums)
    BY <2>1
  <2>3. 0 \in 0 .. m /\ \A n \in 1 .. m : n \in 0 .. m /\ n # 0
    OBVIOUS
  <2> QED BY <2>1, <2>2, <2>3
<1>2. ASSUME g = [n \in 0 .. m |-> g[n]], g[0] = start,
             \A n \in 1 .. m : g[n] = Effect(body[order[n]], g[n - 1], sums)
      PROVE  Walked(body, order, sums, start, m, g)
  <2>1. \A n \in 0 .. m : g[n] = IF n = 0 THEN start ELSE Effect(body[order[n]], g[n - 1], sums)
    <3>1. \A n \in 0 .. m : n = 0 \/ n \in 1 .. m
      OBVIOUS
    <3> QED BY <1>2, <3>1
  <2>2. [n \in 0 .. m |-> g[n]]
           = [n \in 0 .. m |-> IF n = 0 THEN start ELSE Effect(body[order[n]], g[n - 1], sums)]
    BY <2>1
  <2> QED BY <1>2, <2>2 DEF Walked
<1> QED BY <1>1, <1>2 DEF InSteps

LEMMA WalkGoesOn ==
    ASSUME NEW body, NEW order, NEW sums, NEW start, NEW m \in Nat
    PROVE  \E g : Walked(body, order, sums, start, m, g)
<1> DEFINE Bad == {k \in Nat : ~ \E g : Walked(body, order, sums, start, k, g)}
<1> SUFFICES ASSUME Bad # {} PROVE FALSE
  OBVIOUS
<1>1. PICK k \in Bad : \A j \in Bad : k <= j
  <2>1. Bad \subseteq Nat
    OBVIOUS
  <2> HIDE DEF Bad
  <2> QED BY <2>1, Least
<1>2. k # 0
  <2> SUFFICES ASSUME k = 0 PROVE FALSE
    OBVIOUS
  <2>1. PICK g : g = [n \in 0 .. 0 |-> start]
    OBVIOUS
  <2>2. g = [n \in 0 .. 0 |-> g[n]] /\ g[0] = start
    BY <2>1
  <2>3. \A n \in 1 .. 0 : g[n] = Effect(body[order[n]], g[n - 1], sums)
    OBVIOUS
  <2>4. Walked(body, order, sums, start, 0, g)
    BY <2>2, <2>3, WalkedSoFar DEF InSteps
  <2> QED BY <1>1, <2>4
<1>3. k \in Nat /\ k - 1 \in Nat /\ ~(k <= k - 1)
  BY <1>1, <1>2
<1>4. k - 1 \notin Bad
  BY <1>1, <1>3
<1>5. PICK j : j = k - 1
  OBVIOUS
<1>6. PICK h : Walked(body, order, sums, start, j, h)
  BY <1>3, <1>4, <1>5
<1>13. j \in Nat
  BY <1>3, <1>5
<1>7. /\ h = [n \in 0 .. j |-> h[n]] /\ h[0] = start
      /\ \A n \in 1 .. j : h[n] = Effect(body[order[n]], h[n - 1], sums)
  <2>1. InSteps(body, order, sums, start, j, h)
    BY <1>6, <1>13, WalkedSoFar
  <2> QED BY <2>1 DEF InSteps
<1>8. PICK g : g = [n \in 0 .. k |-> IF n = k THEN Effect(body[order[k]], h[j], sums) ELSE h[n]]
  OBVIOUS
<1>9. /\ g = [n \in 0 .. k |-> g[n]]
      /\ g[k] = Effect(body[order[k]], h[j], sums)
      /\ \A n \in 0 .. j : g[n] = h[n]
  <2>1. k \in 0 .. k /\ \A n \in 0 .. j : n \in 0 .. k /\ n # k
    BY <1>3, <1>5
  <2> QED BY <1>8, <2>1
<1>10. \A n \in 1 .. k : g[n] = Effect(body[order[n]], g[n - 1], sums)
  <2> SUFFICES ASSUME NEW n \in 1 .. k PROVE g[n] = Effect(body[order[n]], g[n - 1], sums)
    OBVIOUS
  <2>1. CASE n = k
    <3>1. j \in 0 .. j /\ n - 1 = j
      BY <1>3, <1>5, <2>1
    <3>2. g[n - 1] = h[j]
      BY <1>9, <3>1
    <3> QED BY <1>9, <2>1, <3>2
  <2>2. CASE n # k
    <3>1. n \in 1 .. j /\ n \in 0 .. j /\ n - 1 \in 0 .. j
      BY <1>3, <1>5, <2>2
    <3>2. g[n] = h[n] /\ g[n - 1] = h[n - 1]
      BY <1>9, <3>1
    <3> QED BY <1>7, <3>1, <3>2
  <2> QED BY <2>1, <2>2
<1>11. g[0] = start
  <2>1. 0 \in 0 .. j
    BY <1>13
  <2> QED BY <1>7, <1>9, <2>1
<1>12. Walked(body, order, sums, start, k, g)
  BY <1>3, <1>9, <1>10, <1>11, WalkedSoFar DEF InSteps
<1> QED BY <1>1, <1>12

AtEntry(n) == Entered(n, [s \in Slots |-> {s}])
FirstState(f) == [slots |-> AtEntry(f.params), shared |-> {}, retained |-> {}]

\* The states of the walk of a function, in the order it takes.
StatesOf(f, sums) == CHOOSE g : Walked(f.body, Order(f.body), sums, FirstState(f), Len(Order(f.body)), g)

LEMMA WalkIs ==
    ASSUME NEW f, NEW sums, Len(Order(f.body)) \in Nat
    PROVE  /\ Walked(f.body, Order(f.body), sums, FirstState(f), Len(Order(f.body)), StatesOf(f, sums))
           /\ Walk(f, sums) =
                LET end == StatesOf(f, sums)[Len(Order(f.body))]
                IN  [shared |-> end.shared \union end.slots[f.value], retained |-> end.retained]
<1>1. \E g : Walked(f.body, Order(f.body), sums, FirstState(f), Len(Order(f.body)), g)
  BY WalkGoesOn
<1>2. Walk(f, sums) =
        LET end == StatesOf(f, sums)[Len(Order(f.body))]
        IN  [shared |-> end.shared \union end.slots[f.value], retained |-> end.retained]
  BY DEF Walk, StatesOf, Walked, FirstState, AtEntry
<1> QED BY <1>1, <1>2 DEF StatesOf

LEMMA CountsMore ==
    ASSUME NEW i, NEW b, NEW u, NEW v, NEW sums, Counts(i, b, u, sums), Within(u, v)
    PROVE  Counts(i, b, v, sums)
BY DEF Counts, Within

\* What a walk knows after each instruction.
LEMMA WalkStates ==
    ASSUME NEW p, NEW body, NEW order, NEW sums, NEW start, IsWalk(start), NEW l \in Nat, NEW g,
           Walked(body, order, sums, start, l, g),
           \A n \in 1 .. l : Proper(body[order[n]], p)
    PROVE  /\ \A n \in 0 .. l : IsWalk(g[n]) /\ Within(g[n], g[l])
           /\ \A n \in 1 .. l : /\ Carries(body[order[n]], g[n - 1].slots, g[n].slots, sums)
                                /\ Counts(body[order[n]], g[n - 1].slots, g[l], sums)
                                /\ Stays(body[order[n]], g[n - 1].slots, g[n].slots)
<1>1. g[0] = start /\ \A n \in 1 .. l : g[n] = Effect(body[order[n]], g[n - 1], sums)
  BY WalkedSoFar DEF InSteps
<1>2. ASSUME NEW n \in 1 .. l, IsWalk(g[n - 1])
      PROVE  /\ IsWalk(g[n]) /\ Within(g[n - 1], g[n])
             /\ Carries(body[order[n]], g[n - 1].slots, g[n].slots, sums)
             /\ Counts(body[order[n]], g[n - 1].slots, g[n], sums)
             /\ Stays(body[order[n]], g[n - 1].slots, g[n].slots)
  <2>1. PICK i, w, x : i = body[order[n]] /\ w = g[n - 1] /\ x = g[n]
    OBVIOUS
  <2>2. x = Effect(i, w, sums) /\ Proper(i, p) /\ IsWalk(w)
    BY <1>1, <1>2, <2>1
  <2>3. /\ IsWalk(x) /\ w.shared \subseteq x.shared /\ w.retained \subseteq x.retained
        /\ Carries(i, w.slots, x.slots, sums)
        /\ Counts(i, w.slots, x, sums)
        /\ Stays(i, w.slots, x.slots)
    BY <2>2, EffectDoes
  <2> QED BY <2>1, <2>3 DEF Within
<1>3. \A n \in 0 .. l : IsWalk(g[n])
  <2> DEFINE Bad == {n \in 0 .. l : ~IsWalk(g[n])}
  <2> SUFFICES ASSUME Bad # {} PROVE FALSE
    OBVIOUS
  <2>1. PICK k \in Bad : \A j \in Bad : k <= j
    <3>1. Bad \subseteq Nat
      OBVIOUS
    <3> HIDE DEF Bad
    <3> QED BY <3>1, Least
  <2>2. k # 0
    BY <1>1, <2>1
  <2>3. k \in 1 .. l /\ k - 1 \in 0 .. l /\ ~(k <= k - 1)
    BY <2>1, <2>2
  <2>4. IsWalk(g[k - 1])
    BY <2>1, <2>3
  <2>5. IsWalk(g[k])
    BY <1>2, <2>3, <2>4
  <2> QED BY <2>1, <2>5
<1>4. ASSUME NEW n \in 1 .. l
      PROVE  /\ Within(g[n - 1], g[n])
             /\ Carries(body[order[n]], g[n - 1].slots, g[n].slots, sums)
             /\ Counts(body[order[n]], g[n - 1].slots, g[n], sums)
             /\ Stays(body[order[n]], g[n - 1].slots, g[n].slots)
  <2>1. n - 1 \in 0 .. l
    OBVIOUS
  <2> QED BY <1>2, <1>3, <2>1
<1>5. \A n \in 0 .. l : Within(g[n], g[l])
  <2> DEFINE Bad == {k \in 0 .. l : ~Within(g[l - k], g[l])}
  <2>1. Bad = {}
    <3> SUFFICES ASSUME Bad # {} PROVE FALSE
      OBVIOUS
    <3>1. PICK k \in Bad : \A j \in Bad : k <= j
      <4>1. Bad \subseteq Nat
        OBVIOUS
      <4> HIDE DEF Bad
      <4> QED BY <4>1, Least
    <3>2. k # 0
      <4>1. l - 0 = l /\ Within(g[l], g[l])
        BY DEF Within
      <4> QED BY <3>1, <4>1
    <3>3. k - 1 \in 0 .. l /\ ~(k <= k - 1) /\ l - k + 1 \in 1 .. l
          /\ l - (k - 1) = l - k + 1 /\ (l - k + 1) - 1 = l - k
      BY <3>1, <3>2
    <3>4. Within(g[l - k + 1], g[l])
      BY <3>1, <3>3
    <3>5. Within(g[l - k], g[l - k + 1])
      BY <1>4, <3>3
    <3>6. Within(g[l - k], g[l])
      BY <3>4, <3>5 DEF Within
    <3> QED BY <3>1, <3>6
  <2> SUFFICES ASSUME NEW n \in 0 .. l PROVE Within(g[n], g[l])
    OBVIOUS
  <2>2. l - n \in 0 .. l /\ l - (l - n) = n
    OBVIOUS
  <2>3. l - n \notin Bad
    BY <2>1
  <2> QED BY <2>2, <2>3
<1>6. ASSUME NEW n \in 1 .. l PROVE Counts(body[order[n]], g[n - 1].slots, g[l], sums)
  <2>1. n \in 0 .. l
    OBVIOUS
  <2> QED BY <1>4, <1>5, <2>1, CountsMore
<1> QED BY <1>3, <1>4, <1>5, <1>6

(***************************************************************************)
(* A certificate for a function: at each place of its body, what each slot *)
(* may hold in any run that comes there.  The walk leaves one behind.      *)
(***************************************************************************)
\* Over what may hold before an instruction at place k, what may hold after.
Passes(i, k, use, sums, row) ==
    /\ i.op \notin Jumping => Carries(i, row[k], row[k + 1], sums) /\ Counts(i, row[k], use, sums)
    /\ i.op = "while" => Inside(row[k], row[k + 1]) /\ Inside(row[k], row[k + i.len + 1])
    /\ i.op = "again" => Inside(row[k], row[k - i.len])

Certifies(f, use, sums, row) ==
    /\ Inside(AtEntry(f.params), row[1])
    /\ \A k \in 1 .. Len(f.body) : Passes(f.body[k], k, use, sums, row)
    /\ row[Len(f.body) + 1][f.value] \subseteq use.shared

Straight(body) == \A k \in DOMAIN body : body[k].op \notin Jumping

\* One loop, of n instructions after its head at w.
Looping(body, w, n) ==
    /\ w \in DOMAIN body /\ n \in Nat \ {0} /\ w + n \in DOMAIN body
    /\ body[w].op = "while" /\ body[w].len = n
    /\ body[w + n].op = "again" /\ body[w + n].len = n
    /\ \A k \in DOMAIN body : /\ body[k].op = "while" => k = w
                              /\ body[k].op = "again" => k = w + n

\* A function as lowering leaves it: its slots are there, and what loop it has
\* is one.
ProperFunction(f, p) ==
    /\ f.params \in Nat /\ f.value \in Slots
    /\ Len(f.body) \in Nat /\ DOMAIN f.body = 1 .. Len(f.body)
    /\ \A k \in DOMAIN f.body : Proper(f.body[k], p)
    /\ Straight(f.body) \/ \E w, n : Looping(f.body, w, n)

WellFormed(p) == \A f \in DOMAIN p : ProperFunction(p[f], p)

\* The walk's two turns of a loop are as good as any number of them: the first
\* loses nothing of what was there before it, and the second finds nothing.
LoopSettles(f, sums) ==
    \A w \in DOMAIN f.body : f.body[w].op = "while" =>
        LET at(m) == StatesOf(f, sums)[m].slots
            n == f.body[w].len
        IN  /\ Inside(at(w), at(w + n))
            /\ Inside(at(w + n), at(w + n + n)) /\ Inside(at(w + n + n), at(w + n))

LEMMA FirstIsWalk == ASSUME NEW f PROVE IsWalk(FirstState(f))
<1>1. FirstState(f) = [slots |-> FirstState(f).slots, shared |-> FirstState(f).shared,
                       retained |-> FirstState(f).retained]
  BY DEF FirstState
<1>2. FirstState(f).slots = AtEntry(f.params)
  BY DEF FirstState
<1>3. AtEntry(f.params) = [s \in Slots |-> AtEntry(f.params)[s]]
  BY DEF AtEntry, Entered
<1> QED BY <1>1, <1>2, <1>3 DEF IsWalk

LEMMA Listed ==
    ASSUME NEW n \in Nat, NEW o, o = [i \in 1 .. n |-> o[i]]
    PROVE  Len(o) = n
<1>1. PICK T : T = {o[i] : i \in 1 .. n}
  OBVIOUS
<1>2. o \in [1 .. n -> T]
  BY <1>1
<1>3. o \in Seq(T) /\ DOMAIN o = 1 .. n
  BY <1>2
<1> QED BY <1>3

\* What the walk finds, read at its last state.
LEMMA FoundAtTheEnd ==
    ASSUME NEW f, NEW sums, NEW use, NEW l \in Nat, l = Len(Order(f.body)), NEW g,
           g = StatesOf(f, sums), Within(Walk(f, sums), use)
    PROVE  /\ Walked(f.body, Order(f.body), sums, FirstState(f), l, g)
           /\ Within(g[l], use) /\ g[l].slots[f.value] \subseteq use.shared
<1>1. Walk(f, sums) = [shared |-> g[l].shared \union g[l].slots[f.value], retained |-> g[l].retained]
  BY WalkIs
<1>2. Walked(f.body, Order(f.body), sums, FirstState(f), l, g)
  BY WalkIs
<1>3. /\ Walk(f, sums).shared = g[l].shared \union g[l].slots[f.value]
      /\ Walk(f, sums).retained = g[l].retained
  BY <1>1
<1> QED BY <1>2, <1>3 DEF Within

LEMMA CertifiedStraight ==
    ASSUME NEW f, NEW p, NEW sums, NEW use, ProperFunction(f, p), Straight(f.body),
           Within(Walk(f, sums), use)
    PROVE  \E row : Certifies(f, use, sums, row)
<1>1. PICK body, o, n : body = f.body /\ o = Order(f.body) /\ n = Len(f.body)
  OBVIOUS
<1>2. n \in Nat /\ DOMAIN body = 1 .. n /\ \A k \in 1 .. n : Proper(body[k], p)
  BY <1>1 DEF ProperFunction
<1>3. o = [i \in 1 .. n |-> i]
  <2>1. {i \in DOMAIN body : body[i].op = "while"} = {}
    BY <1>1 DEF Straight, Jumping
  <2>2. o = [i \in DOMAIN body |-> i]
    BY <1>1, <2>1 DEF Order
  <2> QED BY <1>2, <2>2
<1>4. Len(o) = n /\ \A i \in 1 .. n : o[i] = i
  BY <1>2, <1>3, Listed
<1>5. PICK g : g = StatesOf(f, sums)
  OBVIOUS
<1>6. /\ Walked(body, o, sums, FirstState(f), n, g)
      /\ Within(g[n], use) /\ g[n].slots[f.value] \subseteq use.shared
  BY <1>1, <1>2, <1>4, <1>5, FoundAtTheEnd
<1>7. \A k \in 1 .. n : Proper(body[o[k]], p)
  BY <1>2, <1>4
<1>8. \A k \in 1 .. n : /\ Carries(body[k], g[k - 1].slots, g[k].slots, sums)
                        /\ Counts(body[k], g[k - 1].slots, g[n], sums)
  <2>0. IsWalk(FirstState(f))
    BY FirstIsWalk
  <2>1. \A k \in 1 .. n : /\ Carries(body[o[k]], g[k - 1].slots, g[k].slots, sums)
                          /\ Counts(body[o[k]], g[k - 1].slots, g[n], sums)
    BY <1>2, <1>6, <1>7, <2>0, WalkStates
  <2> QED BY <1>4, <2>1
<1>9. PICK row : row = [k \in 1 .. (n + 1) |-> g[k - 1].slots]
  OBVIOUS
<1>10. ASSUME NEW k \in 1 .. n PROVE Passes(body[k], k, use, sums, row)
  <2>1. row[k] = g[k - 1].slots /\ row[k + 1] = g[k].slots
    <3>1. k \in 1 .. (n + 1) /\ k + 1 \in 1 .. (n + 1) /\ (k + 1) - 1 = k
      BY <1>2
    <3>2. row[k + 1] = g[(k + 1) - 1].slots /\ row[k] = g[k - 1].slots
      BY <1>9, <3>1
    <3> QED BY <3>1, <3>2
  <2>2. Counts(body[k], g[k - 1].slots, use, sums)
    BY <1>6, <1>8, CountsMore
  <2>3. body[k].op \notin Jumping
    BY <1>1, <1>2 DEF Straight
  <2> QED BY <1>8, <2>1, <2>2, <2>3 DEF Passes, Jumping
<1>11. Inside(AtEntry(f.params), row[1])
  <2>1. 1 \in 1 .. (n + 1) /\ 1 - 1 = 0
    BY <1>2
  <2>2. row[1] = g[0].slots
    BY <1>9, <2>1
  <2>3. g[0] = FirstState(f)
    <3>1. InSteps(body, o, sums, FirstState(f), n, g)
      BY <1>2, <1>6, WalkedSoFar
    <3> QED BY <3>1 DEF InSteps
  <2>4. g[0].slots = AtEntry(f.params)
    BY <2>3 DEF FirstState
  <2> QED BY <2>2, <2>4 DEF Inside
<1>12. row[n + 1] = g[n].slots
  <2>1. n + 1 \in 1 .. (n + 1) /\ (n + 1) - 1 = n
    BY <1>2
  <2> QED BY <1>9, <2>1
<1> QED BY <1>1, <1>6, <1>10, <1>11, <1>12 DEF Certifies

\* What either of two states of the slots holds.
Both(a, b) == [s \in Slots |-> a[s] \union b[s]]

LEMMA CarriesMore ==
    ASSUME NEW i, NEW b, NEW a, NEW c, NEW sums, Carries(i, b, a, sums), Inside(a, c)
    PROVE  Carries(i, b, c, sums)
<1> SUFFICES ASSUME NEW s \in Slots
             PROVE  IF i.op \in Binding /\ s = i.to THEN Bound(i, b, sums) \subseteq c[s]
                    ELSE b[s] \subseteq c[s]
  BY DEF Carries
<1>1. a[s] \subseteq c[s]
  BY DEF Inside
<1> QED BY <1>1 DEF Carries

LEMMA HeldInEither ==
    ASSUME NEW a, NEW b, NEW S, S \subseteq Slots
    PROVE  Held(Both(a, b), S) = Held(a, S) \union Held(b, S)
<1>1. \A s \in S : Both(a, b)[s] = a[s] \union b[s]
  BY DEF Both
<1> HIDE DEF Both
<1>2. \A x : x \in Held(Both(a, b), S) <=> \E s \in S : x \in Both(a, b)[s]
  BY DEF Held
<1>3. \A x : x \in Held(a, S) <=> \E s \in S : x \in a[s]
  BY DEF Held
<1>4. \A x : x \in Held(b, S) <=> \E s \in S : x \in b[s]
  BY DEF Held
<1> QED BY <1>1, <1>2, <1>3, <1>4

LEMMA GivenByEither ==
    ASSUME NEW i, NEW a, NEW b, NEW sums, \A e \in DOMAIN i.args : i.args[e] \in Slots
    PROVE  /\ Shared(i, Both(a, b), sums) = Shared(i, a, sums) \union Shared(i, b, sums)
           /\ Retained(i, Both(a, b), sums) = Retained(i, a, sums) \union Retained(i, b, sums)
<1>1. \A e \in DOMAIN i.args : Both(a, b)[i.args[e]] = a[i.args[e]] \union b[i.args[e]]
  BY DEF Both
<1>2. PICK c : c = Both(a, b)
  OBVIOUS
<1>3. ASSUME NEW d
      PROVE  \A x : x \in Shared(i, d, sums) <=>
                      \E e \in DOMAIN i.args \cap sums[i.of].shared : x \in d[i.args[e]]
  BY DEF Shared
<1>4. ASSUME NEW d
      PROVE  \A x : x \in Retained(i, d, sums) <=>
                      \E e \in DOMAIN i.args \cap sums[i.of].retained : x \in d[i.args[e]]
  BY DEF Retained
<1>5. \A e \in DOMAIN i.args : c[i.args[e]] = a[i.args[e]] \union b[i.args[e]]
  BY <1>1, <1>2
<1>6. Shared(i, c, sums) = Shared(i, a, sums) \union Shared(i, b, sums)
  BY <1>3, <1>5
<1>7. Retained(i, c, sums) = Retained(i, a, sums) \union Retained(i, b, sums)
  BY <1>4, <1>5
<1> QED BY <1>2, <1>6, <1>7

\* An instruction that is good for each of two states is good for both.
LEMMA EitherPasses ==
    ASSUME NEW i, NEW p, Proper(i, p), NEW a, NEW b, NEW c, NEW d, NEW use, NEW sums,
           Carries(i, a, c, sums), Carries(i, b, d, sums),
           Counts(i, a, use, sums), Counts(i, b, use, sums)
    PROVE  Carries(i, Both(a, b), Both(c, d), sums) /\ Counts(i, Both(a, b), use, sums)
<1>0. PICK u, v : u = Both(a, b) /\ v = Both(c, d)
  OBVIOUS
<1>1. \A s \in Slots : u[s] = a[s] \union b[s] /\ v[s] = c[s] \union d[s]
  BY <1>0 DEF Both
<1>2. i.op \in Reading => Held(u, i.from) = Held(a, i.from) \union Held(b, i.from)
  BY <1>0, HeldInEither DEF Proper
<1>3. i.op = "call" =>
        /\ Shared(i, u, sums) = Shared(i, a, sums) \union Shared(i, b, sums)
        /\ Retained(i, u, sums) = Retained(i, a, sums) \union Retained(i, b, sums)
  BY <1>0, GivenByEither DEF Proper
<1>4. i.op \in Binding => Bound(i, u, sums) = Bound(i, a, sums) \union Bound(i, b, sums)
  BY <1>2, <1>3 DEF Bound, Binding, Reading
<1>5. Carries(i, u, v, sums)
  <2> SUFFICES ASSUME NEW s \in Slots
               PROVE  IF i.op \in Binding /\ s = i.to THEN Bound(i, u, sums) \subseteq v[s]
                      ELSE u[s] \subseteq v[s]
    BY DEF Carries
  <2>1. CASE i.op \in Binding /\ s = i.to
    <3>1. Bound(i, a, sums) \subseteq c[s] /\ Bound(i, b, sums) \subseteq d[s]
      BY <2>1 DEF Carries
    <3> QED BY <1>1, <1>4, <2>1, <3>1
  <2>2. CASE ~(i.op \in Binding /\ s = i.to)
    <3>1. a[s] \subseteq c[s] /\ b[s] \subseteq d[s]
      BY <2>2 DEF Carries
    <3> QED BY <1>1, <2>2, <3>1
  <2> QED BY <2>1, <2>2
<1>6. Counts(i, u, use, sums)
  BY <1>2, <1>3 DEF Counts, Reading
<1> QED BY <1>0, <1>5, <1>6

\* A loop is walked a second time where it stands.
LEMMA OrderOfLoop ==
    ASSUME NEW body, NEW m \in Nat, Len(body) = m, DOMAIN body = 1 .. m, NEW w, NEW n,
           Looping(body, w, n), NEW o, o = Order(body)
    PROVE  /\ Len(o) = m + n
           /\ \A i \in 1 .. (w + n) : o[i] = i
           /\ \A i \in (w + 1) .. m : o[i + n] = i
<1>0. w \in 1 .. m /\ n \in Nat \ {0} /\ w + n \in 1 .. m /\ body[w].len = n
  BY DEF Looping
<1>1. PICK loops : loops = {i \in DOMAIN body : body[i].op = "while"}
  OBVIOUS
<1>2. \A x : x \in loops <=> x = w
  BY <1>1 DEF Looping
<1>3. loops # {} /\ (CHOOSE i \in loops : TRUE) = w
  BY <1>2
<1>4. o = [i \in 1 .. (m + n) |-> IF i <= w + n THEN i ELSE i - n]
  BY <1>0, <1>1, <1>3 DEF Order
<1>5. m + n \in Nat /\ o = [i \in 1 .. (m + n) |-> o[i]]
  BY <1>0, <1>4
<1>6. Len(o) = m + n
  BY <1>5, Listed
<1>7. \A i \in 1 .. (w + n) : i \in 1 .. (m + n) /\ i <= w + n
  BY <1>0
<1>8. \A i \in (w + 1) .. m : i + n \in 1 .. (m + n) /\ ~(i + n <= w + n) /\ (i + n) - n = i
  BY <1>0
<1> QED BY <1>4, <1>6, <1>7, <1>8

\* What of a looping function's walk its certificate is made of.
LoopWalk(body, w, n, m, g, use, sums) ==
    /\ \A i \in 1 .. (w + n) : /\ Carries(body[i], g[i - 1].slots, g[i].slots, sums)
                               /\ Counts(body[i], g[i - 1].slots, use, sums)
                               /\ Stays(body[i], g[i - 1].slots, g[i].slots)
    /\ \A i \in (w + 1) .. m : /\ Carries(body[i], g[i + n - 1].slots, g[i + n].slots, sums)
                               /\ Counts(body[i], g[i + n - 1].slots, use, sums)
                               /\ Stays(body[i], g[i + n - 1].slots, g[i + n].slots)

LEMMA WalkOfLoop ==
    ASSUME NEW f, NEW p, NEW sums, NEW use, ProperFunction(f, p), NEW w, NEW n,
           Looping(f.body, w, n), Within(Walk(f, sums), use), NEW g, g = StatesOf(f, sums),
           NEW m, m = Len(f.body)
    PROVE  /\ LoopWalk(f.body, w, n, m, g, use, sums)
           /\ g[0].slots = AtEntry(f.params) /\ g[m + n].slots[f.value] \subseteq use.shared
<1>1. PICK body, o, l : body = f.body /\ o = Order(f.body) /\ l = m + n
  OBVIOUS
<1>2. m \in Nat /\ DOMAIN body = 1 .. m /\ \A k \in 1 .. m : Proper(body[k], p)
  BY <1>1 DEF ProperFunction
<1>3. w \in 1 .. m /\ n \in Nat \ {0} /\ w + n \in 1 .. m /\ l \in Nat
  BY <1>1, <1>2 DEF Looping
<1>4. /\ Len(o) = l
      /\ \A i \in 1 .. (w + n) : o[i] = i
      /\ \A i \in (w + 1) .. m : o[i + n] = i
  BY <1>1, <1>2, OrderOfLoop
<1>5. /\ Walked(body, o, sums, FirstState(f), l, g)
      /\ Within(g[l], use) /\ g[l].slots[f.value] \subseteq use.shared
  BY <1>1, <1>3, <1>4, FoundAtTheEnd
<1>6. \A k \in 1 .. l : Proper(body[o[k]], p)
  <2> SUFFICES ASSUME NEW k \in 1 .. l PROVE Proper(body[o[k]], p)
    OBVIOUS
  <2>1. CASE k <= w + n
    <3>1. k \in 1 .. (w + n) /\ k \in 1 .. m
      BY <1>3, <2>1
    <3>2. o[k] = k
      BY <1>4, <3>1
    <3> QED BY <1>2, <3>1, <3>2
  <2>2. CASE ~(k <= w + n)
    <3>1. k - n \in (w + 1) .. m /\ k - n \in 1 .. m /\ (k - n) + n = k
      BY <1>1, <1>2, <1>3, <2>2
    <3>2. o[k] = k - n
      BY <1>4, <3>1
    <3> QED BY <1>2, <3>1, <3>2
  <2> QED BY <2>1, <2>2
<1>7. IsWalk(FirstState(f))
  BY FirstIsWalk
<1>8. \A k \in 1 .. l : /\ Carries(body[o[k]], g[k - 1].slots, g[k].slots, sums)
                        /\ Counts(body[o[k]], g[k - 1].slots, g[l], sums)
                        /\ Stays(body[o[k]], g[k - 1].slots, g[k].slots)
  <2>1. \A k \in 1 .. l : /\ Carries(body[o[k]], g[k - 1].slots, g[k].slots, sums)
                          /\ Counts(body[o[k]], g[k - 1].slots, g[l], sums)
    BY <1>3, <1>5, <1>6, <1>7, WalkStates
  <2>2. \A k \in 1 .. l : Stays(body[o[k]], g[k - 1].slots, g[k].slots)
    BY <1>3, <1>5, <1>6, <1>7, WalkStates
  <2> QED BY <2>1, <2>2
<1>9. \A k \in 1 .. l : Counts(body[o[k]], g[k - 1].slots, use, sums)
  BY <1>5, <1>8, CountsMore
<1>10. ASSUME NEW i \in 1 .. (w + n)
       PROVE  /\ Carries(body[i], g[i - 1].slots, g[i].slots, sums)
              /\ Counts(body[i], g[i - 1].slots, use, sums)
              /\ Stays(body[i], g[i - 1].slots, g[i].slots)
  <2>1. i \in 1 .. l /\ o[i] = i
    BY <1>1, <1>2, <1>3, <1>4
  <2> QED BY <1>8, <1>9, <2>1
<1>11. ASSUME NEW i \in (w + 1) .. m
       PROVE  /\ Carries(body[i], g[i + n - 1].slots, g[i + n].slots, sums)
              /\ Counts(body[i], g[i + n - 1].slots, use, sums)
              /\ Stays(body[i], g[i + n - 1].slots, g[i + n].slots)
  <2>1. PICK k : k = i + n
    OBVIOUS
  <2>2. k \in 1 .. l /\ o[k] = i
    BY <1>1, <1>2, <1>3, <1>4, <2>1
  <2>3. /\ Carries(body[i], g[k - 1].slots, g[k].slots, sums)
        /\ Counts(body[i], g[k - 1].slots, use, sums)
        /\ Stays(body[i], g[k - 1].slots, g[k].slots)
    BY <1>8, <1>9, <2>2
  <2>4. k - 1 = i + n - 1
    BY <1>2, <1>3, <2>1
  <2> QED BY <2>1, <2>3, <2>4
<1>12. g[0].slots = AtEntry(f.params)
  <2>1. InSteps(body, o, sums, FirstState(f), l, g)
    BY <1>3, <1>5, WalkedSoFar
  <2>2. g[0] = FirstState(f)
    BY <2>1 DEF InSteps
  <2> QED BY <2>2 DEF FirstState
<1> QED BY <1>1, <1>5, <1>10, <1>11, <1>12 DEF LoopWalk

\* At each place of a looping function, what the turns of the walk leave there.
LoopRow(w, n, m, g) ==
    [k \in 1 .. (m + 1) |->
        IF k < w THEN g[k - 1].slots
        ELSE IF k = w THEN g[w + n + n].slots
        ELSE IF k <= w + n THEN Both(g[k - 1].slots, g[k + n - 1].slots)
        ELSE g[k + n - 1].slots]

LEMMA LoopRowIs ==
    ASSUME NEW m \in Nat, NEW w \in 1 .. m, NEW n \in Nat \ {0}, w + n \in 1 .. m, NEW g, NEW row,
           row = LoopRow(w, n, m, g), NEW k \in 1 .. (m + 1)
    PROVE  /\ k < w => row[k] = g[k - 1].slots
           /\ k = w => row[k] = g[w + n + n].slots
           /\ w < k /\ k <= w + n => row[k] = Both(g[k - 1].slots, g[k + n - 1].slots)
           /\ w + n < k => row[k] = g[k + n - 1].slots
<1>1. row[k] = IF k < w THEN g[k - 1].slots
               ELSE IF k = w THEN g[w + n + n].slots
               ELSE IF k <= w + n THEN Both(g[k - 1].slots, g[k + n - 1].slots)
               ELSE g[k + n - 1].slots
  BY DEF LoopRow
<1> QED BY <1>1

LEMMA InsideBoth ==
    ASSUME NEW a, NEW b, NEW c
    PROVE  /\ Inside(c, b) => Inside(c, Both(a, b))
           /\ Inside(a, c) /\ Inside(b, c) => Inside(Both(a, b), c)
BY DEF Inside, Both

LEMMA LoopRowPasses ==
    ASSUME NEW body, NEW p, NEW m \in Nat, DOMAIN body = 1 .. m,
           \A k \in 1 .. m : Proper(body[k], p), NEW w, NEW n, Looping(body, w, n),
           NEW g, NEW use, NEW sums, LoopWalk(body, w, n, m, g, use, sums),
           Inside(g[w].slots, g[w + n].slots), Inside(g[w + n].slots, g[w + n + n].slots),
           Inside(g[w + n + n].slots, g[w + n].slots), NEW row, row = LoopRow(w, n, m, g),
           NEW k \in 1 .. m
    PROVE  Passes(body[k], k, use, sums, row)
<1>1. /\ w \in 1 .. m /\ n \in Nat \ {0} /\ w + n \in 1 .. m
      /\ body[w].op = "while" /\ body[w].len = n
      /\ body[w + n].op = "again" /\ body[w + n].len = n
      /\ body[k].op = "while" => k = w
      /\ body[k].op = "again" => k = w + n
  BY DEF Looping
<1>2. PICK i, j : i = body[k] /\ j = k + 1
  OBVIOUS
<1>3. Proper(i, p) /\ j \in 1 .. (m + 1) /\ k \in 1 .. (m + 1) /\ j - 1 = k /\ j + n - 1 = k + n
  BY <1>1, <1>2
<1>4. k \in 1 .. (w + n) => /\ Carries(i, g[k - 1].slots, g[k].slots, sums)
                            /\ Counts(i, g[k - 1].slots, use, sums)
                            /\ Stays(i, g[k - 1].slots, g[k].slots)
  BY <1>2 DEF LoopWalk
<1>5. k \in (w + 1) .. m => /\ Carries(i, g[k + n - 1].slots, g[k + n].slots, sums)
                            /\ Counts(i, g[k + n - 1].slots, use, sums)
                            /\ Stays(i, g[k + n - 1].slots, g[k + n].slots)
  BY <1>2 DEF LoopWalk
<1>13. \A c \in 1 .. (m + 1) :
           /\ c < w => row[c] = g[c - 1].slots
           /\ c = w => row[c] = g[w + n + n].slots
           /\ w < c /\ c <= w + n => row[c] = Both(g[c - 1].slots, g[c + n - 1].slots)
           /\ w + n < c => row[c] = g[c + n - 1].slots
  BY <1>1, LoopRowIs, SMTT(30)
<1>6. Inside(g[w].slots, g[w + n + n].slots)
  BY DEF Inside
<1>7. CASE k < w
  <2>1. k \in 1 .. (w + n) /\ i.op \notin Jumping
    BY <1>1, <1>2, <1>7 DEF Jumping
  <2>2. row[k] = g[k - 1].slots
    BY <1>1, <1>3, <1>7, <1>13
  <2>3. CASE j < w
    <3>1. row[j] = g[k].slots
      BY <1>1, <1>3, <2>3, <1>13
    <3> QED BY <1>2, <1>4, <2>1, <2>2, <3>1 DEF Passes, Jumping
  <2>4. CASE j = w
    <3>1. row[j] = g[w + n + n].slots
      BY <1>1, <1>3, <2>4, <1>13
    <3>2. w \in 1 .. (w + n) /\ w - 1 = k
      BY <1>1, <1>3, <2>4
    <3>3. g[w].slots = g[k].slots
      BY <1>1, <3>2 DEF LoopWalk, Stays, Jumping
    <3>4. Inside(g[k].slots, row[j])
      BY <1>6, <3>1, <3>3
    <3>5. Carries(i, row[k], row[j], sums)
      BY <1>4, <2>1, <2>2, <3>4, CarriesMore
    <3> QED BY <1>2, <1>4, <2>1, <2>2, <3>5 DEF Passes, Jumping
  <2> QED BY <1>1, <1>2, <1>7, <2>3, <2>4
<1>8. CASE k = w
  <2>1. i.op = "while" /\ i.len = n /\ i.op \in Jumping /\ i.op # "again"
    BY <1>1, <1>2, <1>8 DEF Jumping
  <2>2. row[k] = g[w + n + n].slots
    BY <1>1, <1>3, <1>8, <1>13
  <2>3. row[j] = Both(g[w].slots, g[w + n].slots)
    <3>1. w < j /\ j <= w + n /\ j - 1 = w /\ j + n - 1 = w + n
      BY <1>1, <1>2, <1>3, <1>8
    <3>2. row[j] = Both(g[j - 1].slots, g[j + n - 1].slots)
      BY <1>1, <1>3, <3>1, <1>13
    <3> QED BY <3>1, <3>2
  <2>4. Inside(row[k], row[j])
    BY <2>2, <2>3, InsideBoth
  <2>5. PICK e : e = k + n + 1
    OBVIOUS
  <2>6. e \in 1 .. (m + 1) /\ w + n < e /\ e + n - 1 = w + n + n
    BY <1>1, <1>8, <2>5
  <2>7. row[e] = g[w + n + n].slots
    BY <1>1, <2>6, <1>13
  <2>8. Inside(row[k], row[e])
    BY <2>2, <2>7 DEF Inside
  <2> QED BY <1>2, <2>1, <2>4, <2>5, <2>8 DEF Passes
<1>9. CASE w < k /\ k < w + n
  <2>1. k \in 1 .. (w + n) /\ k \in (w + 1) .. m /\ i.op \notin Jumping
    BY <1>1, <1>2, <1>9 DEF Jumping
  <2>2. row[k] = Both(g[k - 1].slots, g[k + n - 1].slots)
    BY <1>1, <1>3, <1>9, <1>13
  <2>3. row[j] = Both(g[k].slots, g[k + n].slots)
    <3>1. w < j /\ j <= w + n
      BY <1>1, <1>2, <1>9
    <3>2. row[j] = Both(g[j - 1].slots, g[j + n - 1].slots)
      BY <1>1, <1>3, <3>1, <1>13
    <3> QED BY <1>3, <3>2
  <2>4. Carries(i, row[k], row[j], sums) /\ Counts(i, row[k], use, sums)
    <3>1. PICK a, b, c, d : /\ a = g[k - 1].slots /\ b = g[k + n - 1].slots
                            /\ c = g[k].slots /\ d = g[k + n].slots
      OBVIOUS
    <3>2. /\ Carries(i, a, c, sums) /\ Carries(i, b, d, sums)
          /\ Counts(i, a, use, sums) /\ Counts(i, b, use, sums)
      BY <1>4, <1>5, <2>1, <3>1
    <3>3. Carries(i, Both(a, b), Both(c, d), sums) /\ Counts(i, Both(a, b), use, sums)
      BY <1>3, <3>2, EitherPasses
    <3> QED BY <2>2, <2>3, <3>1, <3>3
  <2> QED BY <1>2, <2>1, <2>4 DEF Passes, Jumping
<1>10. CASE k = w + n
  <2>1. i.op = "again" /\ i.len = n /\ i.op \in Jumping /\ i.op # "while"
    BY <1>1, <1>2, <1>10 DEF Jumping
  <2>2. k \in 1 .. (w + n) /\ k \in (w + 1) .. m
    BY <1>1, <1>10
  <2>3. row[k] = Both(g[k - 1].slots, g[k + n - 1].slots)
    <3>1. w < k /\ k <= w + n
      BY <1>1, <1>10
    <3> QED BY <1>1, <1>3, <3>1, <1>13
  <2>4. g[k - 1].slots = g[w + n].slots /\ g[k + n - 1].slots = g[w + n + n].slots
    BY <1>4, <1>5, <1>10, <2>1, <2>2 DEF Stays
  <2>5. k - n = w /\ w \in 1 .. (m + 1)
    BY <1>1, <1>10
  <2>6. row[k - n] = g[w + n + n].slots
    BY <1>1, <2>5, <1>13
  <2>7. Inside(g[w + n + n].slots, g[w + n + n].slots)
    BY DEF Inside
  <2>8. Inside(row[k], row[k - n])
    BY <2>3, <2>4, <2>6, <2>7, InsideBoth
  <2> QED BY <1>2, <2>1, <2>8 DEF Passes
<1>11. CASE w + n < k
  <2>1. k \in (w + 1) .. m /\ i.op \notin Jumping
    BY <1>1, <1>2, <1>11 DEF Jumping
  <2>2. row[k] = g[k + n - 1].slots
    BY <1>1, <1>3, <1>11, <1>13
  <2>3. row[j] = g[k + n].slots
    <3>1. w + n < j
      BY <1>1, <1>2, <1>11
    <3>2. row[j] = g[j + n - 1].slots
      BY <1>1, <1>3, <3>1, <1>13
    <3> QED BY <1>3, <3>2
  <2> QED BY <1>2, <1>5, <2>1, <2>2, <2>3 DEF Passes, Jumping
<1>12. k < w \/ k = w \/ (w < k /\ k < w + n) \/ k = w + n \/ w + n < k
  BY <1>1
<1> QED BY <1>7, <1>8, <1>9, <1>10, <1>11, <1>12

LEMMA CertifiedLoop ==
    ASSUME NEW f, NEW p, NEW sums, NEW use, ProperFunction(f, p), NEW w, NEW n,
           Looping(f.body, w, n), LoopSettles(f, sums), Within(Walk(f, sums), use)
    PROVE  \E row : Certifies(f, use, sums, row)
<1>1. PICK body, m, g : body = f.body /\ m = Len(f.body) /\ g = StatesOf(f, sums)
  OBVIOUS
<1>2. m \in Nat /\ DOMAIN body = 1 .. m /\ \A k \in 1 .. m : Proper(body[k], p)
  BY <1>1 DEF ProperFunction
<1>3. /\ w \in 1 .. m /\ n \in Nat \ {0} /\ w + n \in 1 .. m
      /\ body[w].op = "while" /\ body[w].len = n
  BY <1>1, <1>2 DEF Looping
<1>4. /\ LoopWalk(body, w, n, m, g, use, sums)
      /\ g[0].slots = AtEntry(f.params) /\ g[m + n].slots[f.value] \subseteq use.shared
  BY <1>1, WalkOfLoop
<1>5. /\ Inside(g[w].slots, g[w + n].slots) /\ Inside(g[w + n].slots, g[w + n + n].slots)
      /\ Inside(g[w + n + n].slots, g[w + n].slots)
  BY <1>1, <1>2, <1>3 DEF LoopSettles
<1>6. PICK row : row = LoopRow(w, n, m, g)
  OBVIOUS
<1>7. \A k \in 1 .. m : Passes(body[k], k, use, sums, row)
  BY <1>1, <1>2, <1>4, <1>5, <1>6, LoopRowPasses
<1>8. \A c \in 1 .. (m + 1) :
           /\ c < w => row[c] = g[c - 1].slots
           /\ c = w => row[c] = g[w + n + n].slots
           /\ w + n < c => row[c] = g[c + n - 1].slots
  BY <1>2, <1>3, <1>6, LoopRowIs
<1>9. Inside(AtEntry(f.params), row[1])
  <2>0. 1 \in 1 .. (m + 1)
    BY <1>2
  <2>1. CASE 1 < w
    <3>1. row[1] = g[1 - 1].slots
      BY <1>8, <2>0, <2>1
    <3> QED BY <1>4, <3>1 DEF Inside
  <2>2. CASE w = 1
    <3>1. row[1] = g[w + n + n].slots
      BY <1>8, <2>0, <2>2
    <3>2. 1 \in 1 .. (w + n) /\ body[1].op \in Jumping
      BY <1>3, <2>2 DEF Jumping
    <3>3. g[1].slots = g[1 - 1].slots
      BY <1>4, <3>2 DEF LoopWalk, Stays
    <3>4. Inside(AtEntry(f.params), g[w].slots)
      BY <1>4, <2>2, <3>3 DEF Inside
    <3> QED BY <1>5, <3>1, <3>4 DEF Inside
  <2> QED BY <1>3, <2>1, <2>2
<1>10. row[m + 1] = g[m + n].slots
  <2>1. PICK e : e = m + 1
    OBVIOUS
  <2>2. e \in 1 .. (m + 1) /\ w + n < e /\ e + n - 1 = m + n
    BY <1>2, <1>3, <2>1
  <2>3. row[e] = g[e + n - 1].slots
    BY <1>8, <2>2
  <2> QED BY <2>1, <2>2, <2>3
<1> QED BY <1>1, <1>4, <1>7, <1>9, <1>10 DEF Certifies

\* The certificates of a whole program.
Table(p, sums) == [f \in DOMAIN p |-> CHOOSE row : Certifies(p[f], sums[f], sums, row)]
Certified(p, sums) == \A f \in DOMAIN p : Certifies(p[f], sums[f], sums, Table(p, sums)[f])

\* Summaries that walking finds nothing new for certify every function.
LEMMA SettledIsCertified ==
    ASSUME NEW p, NEW sums, WellFormed(p), \A f \in DOMAIN p : Within(Walk(p[f], sums), sums[f]),
           \A f \in DOMAIN p : LoopSettles(p[f], sums)
    PROVE  Certified(p, sums)
<1> SUFFICES ASSUME NEW f \in DOMAIN p
             PROVE  Certifies(p[f], sums[f], sums, Table(p, sums)[f])
  BY DEF Certified
<1>1. PICK h, use : h = p[f] /\ use = sums[f]
  OBVIOUS
<1>2. ProperFunction(h, p) /\ LoopSettles(h, sums) /\ Within(Walk(h, sums), use)
  BY <1>1 DEF WellFormed
<1>3. \E row : Certifies(h, use, sums, row)
  <2>1. CASE Straight(h.body)
    BY <1>2, <2>1, CertifiedStraight
  <2>2. ASSUME NEW w, NEW n, Looping(h.body, w, n) PROVE \E row : Certifies(h, use, sums, row)
    BY <1>2, <2>2, CertifiedLoop
  <2> QED BY <1>2, <2>1, <2>2 DEF ProperFunction
<1> QED BY <1>1, <1>3 DEF Table

(***************************************************************************)
(* A run.  Each active call holds, in each slot, no more than its          *)
(* certificate says of its own parameters, and those are what its caller   *)
(* handed it.                                                              *)
(***************************************************************************)
IsSeq(s) == \E S : s \in Seq(S)
IsFrame(r) == r = [func |-> r.func, pc |-> r.pc, slots |-> r.slots]
              /\ r.slots = [s \in Slots |-> r.slots[s]]

Instr(p, r) == p[r.func].body[r.pc]

\* What parameter a of call d was handed, in parameters of the outermost.
Arg(p, st, d, a) ==
    IF a \notin 1 .. p[st[d].func].params THEN {}
    ELSE IF d = 1 THEN {a}
    ELSE IF a \in DOMAIN Instr(p, st[d - 1]).args THEN st[d - 1].slots[Instr(p, st[d - 1]).args[a]]
    ELSE {}
Reach(p, st, d, S) == UNION {Arg(p, st, d, a) : a \in S}

\* The slots of one state reach no more than a row of a certificate says.
Covered(p, st, d, slots, row) == \A s \in Slots : slots[s] \subseteq Reach(p, st, d, row[s])

Placed(p, tab, st, d) ==
    /\ IsFrame(st[d]) /\ st[d].func \in DOMAIN p
    /\ st[d].pc \in 1 .. (Len(p[st[d].func].body) + 1)
    /\ Covered(p, st, d, st[d].slots, tab[st[d].func][st[d].pc])

\* What a call may keep, the outermost may.
Handed(p, sums, st, d) ==
    \A a \in sums[st[d].func].retained : Arg(p, st, d, a) \subseteq sums[st[1].func].retained

Calling(p, st, d) ==
    /\ st[d].pc \in 1 .. Len(p[st[d].func].body)
    /\ Instr(p, st[d]).op = "call" /\ Instr(p, st[d]).of = st[d + 1].func

Good(p, sums, tab, st, n) ==
    /\ n \in Nat \ {0} /\ IsSeq(st) /\ Len(st) = n /\ DOMAIN st = 1 .. n
    /\ \A d \in 1 .. n : Placed(p, tab, st, d) /\ Handed(p, sums, st, d)
    /\ \A d \in 1 .. (n - 1) : Calling(p, st, d)

LEMMA ReachMore ==
    ASSUME NEW p, NEW st, NEW d, NEW A, NEW B, A \subseteq B
    PROVE  Reach(p, st, d, A) \subseteq Reach(p, st, d, B)
BY DEF Reach

LEMMA HeldReached ==
    ASSUME NEW p, NEW st, NEW d, NEW slots, NEW row, Covered(p, st, d, slots, row),
           NEW S, S \subseteq Slots
    PROVE  Held(slots, S) \subseteq Reach(p, st, d, Held(row, S))
<1> SUFFICES ASSUME NEW x \in Held(slots, S) PROVE x \in Reach(p, st, d, Held(row, S))
  OBVIOUS
<1>1. PICK s \in S : x \in slots[s]
  BY DEF Held
<1>2. x \in Reach(p, st, d, row[s])
  BY <1>1 DEF Covered
<1>3. row[s] \subseteq Held(row, S)
  BY DEF Held
<1> QED BY <1>2, <1>3, ReachMore

SameCaller(st, other, d) == d # 1 => st[d - 1] = other[d - 1]

\* What a call is handed depends on its callers alone.
LEMMA SameArgs ==
    ASSUME NEW p, NEW st, NEW other, NEW d \in Nat \ {0}, st[d].func = other[d].func,
           SameCaller(st, other, d), NEW a
    PROVE  Arg(p, other, d, a) = Arg(p, st, d, a)
BY DEF Arg, SameCaller

LEMMA SameReach ==
    ASSUME NEW p, NEW st, NEW other, NEW d \in Nat \ {0}, st[d].func = other[d].func,
           SameCaller(st, other, d), NEW S
    PROVE  Reach(p, other, d, S) = Reach(p, st, d, S)
<1>1. \A a : Arg(p, other, d, a) = Arg(p, st, d, a)
  BY SameArgs
<1> QED BY <1>1 DEF Reach

LEMMA FunctionsAreSeqs == ASSUME NEW n \in Nat, NEW T, NEW s \in [1 .. n -> T] PROVE s \in Seq(T)
OBVIOUS

\* The stack with its n-th call as it has become, and without it.
Replaces(other, st, n, r) == other = [st EXCEPT ![n] = r]
Shortens(other, st, n, m) == m = n - 1 /\ other = SubSeq(st, 1, m)

\* The innermost call moves on, to a place whose row covers what it holds.
LEMMA TopMoves ==
    ASSUME NEW p, NEW sums, NEW tab, NEW st, NEW n, Good(p, sums, tab, st, n),
           NEW r, IsFrame(r), r.func = st[n].func, r.pc \in 1 .. (Len(p[r.func].body) + 1),
           Covered(p, st, n, r.slots, tab[r.func][r.pc]),
           NEW st2, Replaces(st2, st, n, r)
    PROVE  Good(p, sums, tab, st2, n)
<1>1. /\ n \in Nat \ {0} /\ n \in 1 .. n /\ DOMAIN st = 1 .. n
      /\ \A d \in 1 .. n : Placed(p, tab, st, d) /\ Handed(p, sums, st, d)
  BY DEF Good
<1>2. /\ DOMAIN st2 = 1 .. n /\ st2[n] = r
      /\ \A d \in 1 .. n : d # n => st2[d] = st[d]
  BY <1>1 DEF Replaces
<1>3. IsSeq(st2) /\ Len(st2) = n
  <2>1. PICK S : st \in Seq(S)
    BY DEF Good, IsSeq
  <2>2. PICK T : T = S \union {r}
    OBVIOUS
  <2>3. st2 \in [1 .. n -> T]
    <3>1. \A d \in 1 .. n : st[d] \in S
      BY <1>1, <2>1
    <3>2. \A d \in 1 .. n : st2[d] \in T
      BY <1>2, <2>2, <3>1
    <3>3. st2 = [d \in 1 .. n |-> st2[d]]
      BY <1>1, <1>2 DEF Replaces
    <3> QED BY <3>2, <3>3
  <2>4. st2 \in Seq(T)
    <3>1. n \in Nat
      BY <1>1
    <3> QED BY <2>3, <3>1, FunctionsAreSeqs
  <2> QED BY <1>1, <1>2, <2>4 DEF IsSeq
<1>4. \A d \in 1 .. n : st2[d].func = st[d].func
  BY <1>2
<1>5. \A d \in 1 .. n : d # 1 => d - 1 \in 1 .. n /\ d - 1 # n
  BY <1>1
<1>6. \A d \in 1 .. n : d # 1 => st[d - 1] = st2[d - 1]
  BY <1>2, <1>5
<1>7. ASSUME NEW d \in 1 .. n
      PROVE  /\ \A a : Arg(p, st2, d, a) = Arg(p, st, d, a)
             /\ \A S : Reach(p, st2, d, S) = Reach(p, st, d, S)
  <2>1. d \in Nat \ {0} /\ st[d].func = st2[d].func /\ SameCaller(st, st2, d)
    BY <1>4, <1>6 DEF SameCaller
  <2>2. ASSUME NEW a PROVE Arg(p, st2, d, a) = Arg(p, st, d, a)
    BY <2>1, SameArgs
  <2>3. ASSUME NEW A PROVE Reach(p, st2, d, A) = Reach(p, st, d, A)
    BY <2>1, SameReach
  <2> QED BY <2>2, <2>3
<1>8. ASSUME NEW d \in 1 .. n PROVE Placed(p, tab, st2, d)
  <2>1. CASE d = n
    <3>1. Covered(p, st2, d, r.slots, tab[r.func][r.pc])
      BY <1>7, <2>1 DEF Covered
    <3>2. r.func \in DOMAIN p
      BY <1>1 DEF Placed
    <3> QED BY <1>2, <2>1, <3>1, <3>2 DEF Placed
  <2>2. CASE d # n
    <3>1. st2[d] = st[d] /\ Placed(p, tab, st, d)
      BY <1>1, <1>2, <2>2
    <3>2. Covered(p, st2, d, st[d].slots, tab[st[d].func][st[d].pc])
      BY <1>7, <3>1 DEF Placed, Covered
    <3> QED BY <3>1, <3>2 DEF Placed
  <2> QED BY <2>1, <2>2
<1>9. ASSUME NEW d \in 1 .. n PROVE Handed(p, sums, st2, d)
  <2>1. 1 \in 1 .. n
    BY <1>1
  <2>2. st2[d].func = st[d].func /\ st2[1].func = st[1].func
    BY <1>4, <2>1
  <2> QED BY <1>1, <1>7, <2>2 DEF Handed
<1>10. ASSUME NEW d \in 1 .. (n - 1) PROVE Calling(p, st2, d)
  <2>1. d \in 1 .. n /\ d # n /\ d + 1 \in 1 .. n
    BY <1>1
  <2>2. Calling(p, st, d)
    BY DEF Good
  <2>3. st2[d] = st[d] /\ st2[d + 1].func = st[d + 1].func
    BY <1>2, <1>4, <2>1
  <2> QED BY <2>2, <2>3 DEF Calling
<1> QED BY <1>1, <1>2, <1>3, <1>8, <1>9, <1>10 DEF Good

\* Without the innermost call the rest are as they were.
LEMMA TopGone ==
    ASSUME NEW p, NEW sums, NEW tab, NEW st, NEW n, Good(p, sums, tab, st, n), n # 1,
           NEW st2, NEW m, Shortens(st2, st, n, m)
    PROVE  Good(p, sums, tab, st2, m)
<1>1. /\ n \in Nat \ {0} /\ m \in Nat \ {0} /\ DOMAIN st = 1 .. n /\ Len(st) = n
      /\ \A d \in 1 .. n : Placed(p, tab, st, d) /\ Handed(p, sums, st, d)
  BY DEF Good, Shortens
<1>2. PICK S : st \in Seq(S)
  BY DEF Good, IsSeq
<1>3. /\ st2 \in Seq(S) /\ Len(st2) = m /\ DOMAIN st2 = 1 .. m
      /\ \A d \in 1 .. m : st2[d] = st[d]
  BY <1>1, <1>2 DEF Shortens
<1>4. \A d \in 1 .. m : d \in 1 .. n /\ d \in Nat \ {0} /\ (d # 1 => d - 1 \in 1 .. m)
  BY <1>1 DEF Shortens
<1>5. ASSUME NEW d \in 1 .. m
      PROVE  /\ \A a : Arg(p, st2, d, a) = Arg(p, st, d, a)
             /\ \A T : Reach(p, st2, d, T) = Reach(p, st, d, T)
  <2>1. d \in Nat \ {0} /\ st[d].func = st2[d].func /\ SameCaller(st, st2, d)
    BY <1>3, <1>4 DEF SameCaller
  <2>2. ASSUME NEW a PROVE Arg(p, st2, d, a) = Arg(p, st, d, a)
    BY <2>1, SameArgs
  <2>3. ASSUME NEW A PROVE Reach(p, st2, d, A) = Reach(p, st, d, A)
    BY <2>1, SameReach
  <2> QED BY <2>2, <2>3
<1>6. ASSUME NEW d \in 1 .. m PROVE Placed(p, tab, st2, d)
  <2>1. st2[d] = st[d] /\ Placed(p, tab, st, d)
    BY <1>1, <1>3, <1>4
  <2>2. Covered(p, st2, d, st[d].slots, tab[st[d].func][st[d].pc])
    BY <1>5, <2>1 DEF Placed, Covered
  <2> QED BY <2>1, <2>2 DEF Placed
<1>7. ASSUME NEW d \in 1 .. m PROVE Handed(p, sums, st2, d)
  <2>1. 1 \in 1 .. m /\ st2[d] = st[d] /\ st2[1] = st[1] /\ Handed(p, sums, st, d)
    BY <1>1, <1>3, <1>4
  <2> QED BY <1>5, <2>1 DEF Handed
<1>8. ASSUME NEW d \in 1 .. (m - 1) PROVE Calling(p, st2, d)
  <2>1. d \in 1 .. m /\ d + 1 \in 1 .. m /\ d \in 1 .. (n - 1)
    BY <1>1 DEF Shortens
  <2>2. Calling(p, st, d)
    BY <2>1 DEF Good
  <2>3. st2[d] = st[d] /\ st2[d + 1] = st[d + 1]
    BY <1>3, <2>1
  <2> QED BY <2>2, <2>3 DEF Calling
<1> QED BY <1>1, <1>3, <1>6, <1>7, <1>8 DEF Good, IsSeq

\* The stack with one more call.
Extends(other, st, n, m, r) == m = n + 1 /\ other = Append(st, r)

\* The frame a call enters.
Entering(p, i, slots, r) ==
    /\ IsFrame(r) /\ r.func = i.of /\ r.pc = 1
    /\ \A s \in Slots : r.slots[s] =
          IF s <= p[i.of].params /\ s \in DOMAIN i.args THEN slots[i.args[s]] ELSE {}

\* What the callee may keep of its arguments the caller was counted for.
LEMMA HandsOn ==
    ASSUME NEW p, NEW sums, NEW tab, NEW st, NEW n, Good(p, sums, tab, st, n),
           \A f \in DOMAIN p : Certifies(p[f], sums[f], sums, tab[f]), WellFormed(p),
           NEW i, i = Instr(p, st[n]), st[n].pc \in 1 .. Len(p[st[n].func].body), i.op = "call",
           NEW a \in sums[i.of].retained, a \in DOMAIN i.args
    PROVE  st[n].slots[i.args[a]] \subseteq sums[st[1].func].retained
<1>1. PICK f, k, row, slots : /\ f = st[n].func /\ k = st[n].pc
                              /\ row = tab[st[n].func][st[n].pc] /\ slots = st[n].slots
  OBVIOUS
<1>2. n \in Nat \ {0} /\ n \in 1 .. n /\ Placed(p, tab, st, n) /\ Handed(p, sums, st, n)
  BY DEF Good
<1>3. f \in DOMAIN p /\ Covered(p, st, n, slots, row)
  BY <1>1, <1>2 DEF Placed
<1>4. i.args[a] \in Slots
  BY <1>1, <1>3 DEF WellFormed, ProperFunction, Proper, Instr
<1>5. Counts(i, row, sums[f], sums)
  <2>1. Passes(i, k, sums[f], sums, tab[f])
    BY <1>1, <1>3 DEF Certifies, Instr
  <2> QED BY <1>1, <2>1 DEF Passes, Jumping
<1>6. Retained(i, row, sums) \subseteq sums[f].retained
  BY <1>5 DEF Counts
<1>7. row[i.args[a]] \subseteq Retained(i, row, sums)
  BY DEF Retained
<1>8. slots[i.args[a]] \subseteq Reach(p, st, n, row[i.args[a]])
  BY <1>3, <1>4 DEF Covered
<1>9. Reach(p, st, n, row[i.args[a]]) \subseteq Reach(p, st, n, sums[f].retained)
  BY <1>6, <1>7, ReachMore
<1>10. Reach(p, st, n, sums[f].retained) \subseteq sums[st[1].func].retained
  BY <1>1, <1>2 DEF Handed, Reach
<1> QED BY <1>1, <1>8, <1>9, <1>10

LEMMA TopCalls ==
    ASSUME NEW p, NEW sums, NEW tab, NEW st, NEW n, Good(p, sums, tab, st, n),
           \A f \in DOMAIN p : Certifies(p[f], sums[f], sums, tab[f]), WellFormed(p),
           NEW i, i = Instr(p, st[n]), st[n].pc \in 1 .. Len(p[st[n].func].body), i.op = "call",
           NEW r, Entering(p, i, st[n].slots, r), NEW st2, NEW m, Extends(st2, st, n, m, r)
    PROVE  Good(p, sums, tab, st2, m)
<1>1. /\ n \in Nat \ {0} /\ m \in Nat \ {0} /\ n \in 1 .. n /\ m - 1 = n /\ DOMAIN st = 1 .. n
      /\ Len(st) = n /\ \A d \in 1 .. n : Placed(p, tab, st, d) /\ Handed(p, sums, st, d)
  BY DEF Good, Extends
<1>2. PICK S : st \in Seq(S)
  BY DEF Good, IsSeq
<1>3. /\ IsSeq(st2) /\ Len(st2) = m /\ DOMAIN st2 = 1 .. m
      /\ \A d \in 1 .. n : st2[d] = st[d]
      /\ st2[m] = r
  <2>1. PICK T : T = S \union {r}
    OBVIOUS
  <2>2. st \in Seq(T) /\ r \in T
    <3>1. \A d \in 1 .. n : st[d] \in T
      BY <1>1, <1>2, <2>1
    <3>2. st = [d \in 1 .. n |-> st[d]]
      BY <1>1, <1>2
    <3>3. st \in [1 .. n -> T] /\ n \in Nat
      BY <1>1, <3>1, <3>2
    <3> QED BY <2>1, <3>3, FunctionsAreSeqs
  <2>3. st2 = Append(st, r) /\ m = Len(st) + 1
    BY <1>1 DEF Extends
  <2>4. st2 \in Seq(T)
    BY <2>2, <2>3
  <2> QED BY <1>1, <2>2, <2>3, <2>4 DEF IsSeq
<1>4. \A d \in 1 .. n : d \in 1 .. m /\ d \in Nat \ {0} /\ (d # 1 => d - 1 \in 1 .. n)
  BY <1>1
<1>5. ASSUME NEW d \in 1 .. n
      PROVE  /\ \A a : Arg(p, st2, d, a) = Arg(p, st, d, a)
             /\ \A T : Reach(p, st2, d, T) = Reach(p, st, d, T)
  <2>1. d \in Nat \ {0} /\ st[d].func = st2[d].func /\ SameCaller(st, st2, d)
    BY <1>3, <1>4 DEF SameCaller
  <2>2. ASSUME NEW a PROVE Arg(p, st2, d, a) = Arg(p, st, d, a)
    BY <2>1, SameArgs
  <2>3. ASSUME NEW A PROVE Reach(p, st2, d, A) = Reach(p, st, d, A)
    BY <2>1, SameReach
  <2> QED BY <2>2, <2>3
<1>6. /\ i.of \in DOMAIN p /\ IsFrame(r) /\ r.func = i.of /\ r.pc = 1
      /\ \A s \in Slots : r.slots[s] =
          IF s <= p[i.of].params /\ s \in DOMAIN i.args THEN st[n].slots[i.args[s]] ELSE {}
  <2>1. st[n].func \in DOMAIN p
    BY <1>1 DEF Placed
  <2>2. Proper(i, p)
    BY <2>1 DEF WellFormed, ProperFunction, Instr
  <2> QED BY <2>2 DEF Proper, Entering
<1>7. \A a : Arg(p, st2, m, a) = IF a \in 1 .. p[i.of].params /\ a \in DOMAIN i.args
                                 THEN st[n].slots[i.args[a]] ELSE {}
  <2>1. m # 1 /\ st2[m - 1] = st[n] /\ st2[m].func = i.of
    BY <1>1, <1>3, <1>6
  <2> QED BY <2>1 DEF Arg
<1>8. Placed(p, tab, st2, m)
  <2>0. /\ p[i.of].params \in Nat /\ Len(p[i.of].body) \in Nat
        /\ Certifies(p[i.of], sums[i.of], sums, tab[i.of])
    BY <1>6 DEF WellFormed, ProperFunction
  <2>1. 1 \in 1 .. (Len(p[i.of].body) + 1)
    BY <2>0
  <2>2. Covered(p, st2, m, r.slots, tab[i.of][1])
    <3> SUFFICES ASSUME NEW s \in Slots
                 PROVE  r.slots[s] \subseteq Reach(p, st2, m, tab[i.of][1][s])
      BY DEF Covered
    <3>1. CASE s <= p[i.of].params /\ s \in DOMAIN i.args
      <4>1. s \in 1 .. p[i.of].params
        BY <2>0, <3>1 DEF Slots
      <4>2. Arg(p, st2, m, s) = r.slots[s]
        BY <1>6, <1>7, <3>1, <4>1
      <4>3. s \in tab[i.of][1][s]
        <5>1. AtEntry(p[i.of].params)[s] = {s}
          BY <3>1 DEF AtEntry, Entered
        <5> QED BY <2>0, <5>1 DEF Certifies, Inside
      <4> QED BY <4>2, <4>3 DEF Reach
    <3>2. CASE ~(s <= p[i.of].params /\ s \in DOMAIN i.args)
      BY <1>6, <3>2
    <3> QED BY <3>1, <3>2
  <2> QED BY <1>3, <1>6, <2>1, <2>2 DEF Placed
<1>9. Handed(p, sums, st2, m)
  <2> SUFFICES ASSUME NEW a \in sums[i.of].retained
               PROVE  Arg(p, st2, m, a) \subseteq sums[st[1].func].retained
    <3>1. st2[m].func = i.of /\ st2[1] = st[1]
      BY <1>1, <1>3, <1>6
    <3> QED BY <3>1 DEF Handed
  <2>1. CASE a \in 1 .. p[i.of].params /\ a \in DOMAIN i.args
    <3>1. st[n].slots[i.args[a]] \subseteq sums[st[1].func].retained
      BY <2>1, HandsOn
    <3> QED BY <1>7, <2>1, <3>1
  <2>2. CASE ~(a \in 1 .. p[i.of].params /\ a \in DOMAIN i.args)
    BY <1>7, <2>2
  <2> QED BY <2>1, <2>2
<1>10. ASSUME NEW d \in 1 .. n PROVE Placed(p, tab, st2, d) /\ Handed(p, sums, st2, d)
  <2>1. st2[d] = st[d] /\ st2[1] = st[1] /\ Placed(p, tab, st, d) /\ Handed(p, sums, st, d)
    BY <1>1, <1>3
  <2>2. Covered(p, st2, d, st[d].slots, tab[st[d].func][st[d].pc])
    BY <1>5, <2>1 DEF Placed, Covered
  <2>3. Placed(p, tab, st2, d)
    BY <2>1, <2>2 DEF Placed
  <2>4. Handed(p, sums, st2, d)
    BY <1>5, <2>1 DEF Handed
  <2> QED BY <2>3, <2>4
<1>11. ASSUME NEW d \in 1 .. (m - 1) PROVE Calling(p, st2, d)
  <2>1. d \in 1 .. n
    BY <1>1
  <2>2. CASE d = n
    <3>1. st2[d] = st[n] /\ st2[d + 1] = r
      BY <1>1, <1>3, <2>2
    <3> QED BY <1>6, <3>1 DEF Calling
  <2>3. CASE d # n
    <3>1. d \in 1 .. (n - 1) /\ d + 1 \in 1 .. n
      BY <1>1, <2>1, <2>3
    <3>2. Calling(p, st, d)
      BY <3>1 DEF Good
    <3>3. st2[d] = st[d] /\ st2[d + 1] = st[d + 1]
      BY <1>3, <2>1, <3>1
    <3> QED BY <3>2, <3>3 DEF Calling
  <2> QED BY <2>2, <2>3
<1>12. \A d \in 1 .. m : d = m \/ d \in 1 .. n
  BY <1>1
<1> QED BY <1>1, <1>3, <1>8, <1>9, <1>10, <1>11, <1>12 DEF Good

LEMMA CoveredMore ==
    ASSUME NEW p, NEW st, NEW d, NEW slots, NEW row, Covered(p, st, d, slots, row),
           NEW more, Inside(row, more)
    PROVE  Covered(p, st, d, slots, more)
BY ReachMore DEF Covered, Inside

\* What the certificate says of the instruction the innermost call is at.
LEMMA TopFacts ==
    ASSUME NEW p, NEW sums, NEW tab, NEW st, NEW n, Good(p, sums, tab, st, n),
           \A f \in DOMAIN p : Certifies(p[f], sums[f], sums, tab[f]), WellFormed(p),
           NEW d \in 1 .. n, NEW f, f = st[d].func, NEW k, k = st[d].pc, k \in 1 .. Len(p[f].body),
           NEW i, i = Instr(p, st[d])
    PROVE  /\ Proper(i, p) /\ f \in DOMAIN p /\ Passes(i, k, sums[f], sums, tab[f])
           /\ Covered(p, st, d, st[d].slots, tab[f][k])
           /\ st[d].slots = [s \in Slots |-> st[d].slots[s]]
           /\ k + 1 \in 1 .. (Len(p[f].body) + 1)
<1>1. Placed(p, tab, st, d)
  BY DEF Good
<1>2. f \in DOMAIN p /\ Covered(p, st, d, st[d].slots, tab[f][k])
  BY <1>1 DEF Placed
<1>3. st[d].slots = [s \in Slots |-> st[d].slots[s]]
  BY <1>1 DEF Placed, IsFrame
<1>4. i = p[f].body[k]
  BY DEF Instr
<1>5. Len(p[f].body) \in Nat /\ Proper(i, p)
  BY <1>2, <1>4 DEF WellFormed, ProperFunction
<1>6. Passes(i, k, sums[f], sums, tab[f])
  BY <1>2, <1>4 DEF Certifies
<1> QED BY <1>2, <1>3, <1>5, <1>6

\* The slots with one of them bound.
Binds(after, slots, s, value) == after = [slots EXCEPT ![s] = value]

LEMMA BindsWithin ==
    ASSUME NEW p, NEW st, NEW n, NEW i, NEW row, NEW next, NEW sums, NEW slots,
           Covered(p, st, n, slots, row), Carries(i, row, next, sums),
           i.op \in Binding, slots = [s \in Slots |-> slots[s]],
           NEW value, value \subseteq Reach(p, st, n, Bound(i, row, sums)),
           NEW after, Binds(after, slots, i.to, value)
    PROVE  Covered(p, st, n, after, next)
<1> SUFFICES ASSUME NEW s \in Slots PROVE after[s] \subseteq Reach(p, st, n, next[s])
  BY DEF Covered
<1>1. after[s] = IF s = i.to THEN value ELSE slots[s]
  BY DEF Binds
<1>2. CASE s = i.to
  <2>1. Bound(i, row, sums) \subseteq next[s]
    BY <1>2 DEF Carries
  <2>2. Reach(p, st, n, Bound(i, row, sums)) \subseteq Reach(p, st, n, next[s])
    BY <2>1, ReachMore
  <2> QED BY <1>1, <1>2, <2>2
<1>3. CASE s # i.to
  <2>1. row[s] \subseteq next[s]
    BY <1>3 DEF Carries
  <2>2. Reach(p, st, n, row[s]) \subseteq Reach(p, st, n, next[s])
    BY <2>1, ReachMore
  <2> QED BY <1>1, <1>3, <2>2 DEF Covered
<1> QED BY <1>2, <1>3

\* The innermost call binds a slot to what an expression may hold.
LEMMA TopBinds ==
    ASSUME NEW p, NEW sums, NEW tab, NEW st, NEW n, Good(p, sums, tab, st, n),
           \A f \in DOMAIN p : Certifies(p[f], sums[f], sums, tab[f]), WellFormed(p),
           st[n].pc \in 1 .. Len(p[st[n].func].body),
           NEW i, i = Instr(p, st[n]), i.op \in {"put", "pick", "give"},
           NEW value, value \subseteq Held(st[n].slots, i.from), NEW r, IsFrame(r),
           r.func = st[n].func, r.pc = st[n].pc + 1, Binds(r.slots, st[n].slots, i.to, value),
           NEW st2, Replaces(st2, st, n, r)
    PROVE  Good(p, sums, tab, st2, n)
<1>1. PICK f, k, slots, j, after : f = st[n].func /\ k = st[n].pc /\ slots = st[n].slots
                                   /\ j = k + 1 /\ after = r.slots
  OBVIOUS
<1>2. n \in 1 .. n
  BY DEF Good
<1>3. /\ Proper(i, p) /\ f \in DOMAIN p /\ Passes(i, k, sums[f], sums, tab[f])
      /\ Covered(p, st, n, slots, tab[f][k])
      /\ slots = [s \in Slots |-> slots[s]]
      /\ j \in 1 .. (Len(p[f].body) + 1)
  BY <1>1, <1>2, TopFacts, SMTT(30)
<1>4. Carries(i, tab[f][k], tab[f][j], sums)
  BY <1>1, <1>3 DEF Passes, Jumping
<1>5. i.op \in Binding /\ i.from \subseteq Slots /\ Bound(i, tab[f][k], sums) = Held(tab[f][k], i.from)
  BY <1>3 DEF Binding, Reading, Proper, Bound
<1>6. value \subseteq Reach(p, st, n, Bound(i, tab[f][k], sums))
  BY <1>1, <1>3, <1>5, HeldReached
<1>7. Covered(p, st, n, after, tab[f][j])
  BY <1>1, <1>3, <1>4, <1>5, <1>6, BindsWithin
<1> QED BY <1>1, <1>3, <1>7, TopMoves

\* It goes on to another place with what it holds.
LEMMA TopGoes ==
    ASSUME NEW p, NEW sums, NEW tab, NEW st, NEW n, Good(p, sums, tab, st, n),
           \A f \in DOMAIN p : Certifies(p[f], sums[f], sums, tab[f]), WellFormed(p),
           st[n].pc \in 1 .. Len(p[st[n].func].body), NEW i, i = Instr(p, st[n]),
           NEW r, IsFrame(r), r.func = st[n].func, r.slots = st[n].slots,
           \/ i.op \in {"keep", "return", "while"} /\ r.pc = st[n].pc + 1
           \/ i.op = "while" /\ r.pc = st[n].pc + i.len + 1
           \/ i.op = "again" /\ r.pc = st[n].pc - i.len,
           NEW st2, Replaces(st2, st, n, r)
    PROVE  Good(p, sums, tab, st2, n)
<1>1. PICK f, k, slots, j : f = st[n].func /\ k = st[n].pc /\ slots = st[n].slots /\ j = r.pc
  OBVIOUS
<1>2. n \in 1 .. n
  BY DEF Good
<1>3. /\ Proper(i, p) /\ f \in DOMAIN p /\ Passes(i, k, sums[f], sums, tab[f])
      /\ Covered(p, st, n, slots, tab[f][k])
      /\ slots = [s \in Slots |-> slots[s]]
      /\ k + 1 \in 1 .. (Len(p[f].body) + 1)
  BY <1>1, <1>2, TopFacts, SMTT(30)
<1>4. Inside(tab[f][k], tab[f][j])
  <2>1. CASE i.op \in {"keep", "return"}
    <3>1. Carries(i, tab[f][k], tab[f][j], sums) /\ i.op \notin Binding
      BY <1>1, <1>3, <2>1 DEF Passes, Jumping, Binding
    <3> QED BY <3>1 DEF Carries, Inside
  <2>2. CASE i.op \in {"while", "again"}
    BY <1>1, <1>3, <2>2 DEF Passes
  <2> QED BY <2>1, <2>2
<1>5. j \in 1 .. (Len(p[f].body) + 1)
  <2>1. CASE i.op \in {"while", "again"}
    <3>0. PICK body : body = p[f].body
      OBVIOUS
    <3>1. /\ Len(body) \in Nat /\ DOMAIN body = 1 .. Len(body)
          /\ Straight(body) \/ \E w, l : Looping(body, w, l)
      BY <1>3, <3>0 DEF WellFormed, ProperFunction
    <3>4. i = body[k] /\ k \in DOMAIN body
      BY <1>1, <3>0, <3>1 DEF Instr
    <3>5. ~Straight(body)
      BY <2>1, <3>4 DEF Straight, Jumping
    <3>2. PICK w, l : Looping(body, w, l)
      BY <3>1, <3>5
    <3>3. /\ w \in 1 .. Len(body) /\ l \in Nat \ {0} /\ w + l \in 1 .. Len(body)
          /\ i.op = "while" => k = w /\ i.len = l
          /\ i.op = "again" => k = w + l /\ i.len = l
      BY <3>1, <3>2, <3>4 DEF Looping
    <3>6. CASE i.op = "while"
      <4>1. j = k + 1 \/ j = k + i.len + 1
        BY <1>1, <3>6
      <4> QED BY <3>0, <3>1, <3>3, <3>6, <4>1
    <3>7. CASE i.op = "again"
      <4>1. j = k - i.len
        BY <1>1, <3>7
      <4> QED BY <3>0, <3>1, <3>3, <3>7, <4>1
    <3> QED BY <2>1, <3>6, <3>7
  <2>2. CASE i.op \notin {"while", "again"}
    BY <1>1, <1>3, <2>2
  <2> QED BY <2>1, <2>2
<1>6. Covered(p, st, n, slots, tab[f][j])
  BY <1>3, <1>4, CoveredMore
<1> QED BY <1>1, <1>5, <1>6, TopMoves

\* What a call hands back reaches, in its caller, what its certificate shared.
LEMMA HandedBack ==
    ASSUME NEW p, NEW sums, NEW st, NEW n \in Nat \ {0}, n # 1, NEW m, m = n - 1, NEW i,
           i = Instr(p, st[m]), i.of = st[n].func, Proper(i, p), i.op = "call", NEW row,
           Covered(p, st, m, st[m].slots, row), NEW a \in sums[i.of].shared
    PROVE  Arg(p, st, n, a) \subseteq Reach(p, st, m, Shared(i, row, sums))
<1>1. CASE a \in DOMAIN i.args
  <2>1. Arg(p, st, n, a) \subseteq st[m].slots[i.args[a]]
    BY <1>1 DEF Arg
  <2>2. i.args[a] \in Slots
    BY <1>1 DEF Proper
  <2>3. st[m].slots[i.args[a]] \subseteq Reach(p, st, m, row[i.args[a]])
    BY <2>2 DEF Covered
  <2>4. row[i.args[a]] \subseteq Shared(i, row, sums)
    BY <1>1 DEF Shared
  <2>5. Reach(p, st, m, row[i.args[a]]) \subseteq Reach(p, st, m, Shared(i, row, sums))
    BY <2>4, ReachMore
  <2> QED BY <2>1, <2>3, <2>5
<1>2. CASE a \notin DOMAIN i.args
  BY <1>2 DEF Arg
<1> QED BY <1>1, <1>2

\* The innermost call ends, and its caller binds the answer.
LEMMA TopAnswers ==
    ASSUME NEW p, NEW sums, NEW tab, NEW st, NEW n, Good(p, sums, tab, st, n), n # 1,
           \A f \in DOMAIN p : Certifies(p[f], sums[f], sums, tab[f]), WellFormed(p),
           NEW short, NEW m, Shortens(short, st, n, m), NEW i, i = Instr(p, st[m]),
           NEW value, value \subseteq Reach(p, st, n, sums[st[n].func].shared),
           NEW r, IsFrame(r), r.func = st[m].func, r.pc = st[m].pc + 1,
           Binds(r.slots, st[m].slots, i.to, value), NEW st2, Replaces(st2, short, m, r)
    PROVE  Good(p, sums, tab, st2, m)
<1>1. Good(p, sums, tab, short, m)
  BY TopGone
<1>2. /\ n \in Nat \ {0} /\ m = n - 1 /\ m \in Nat \ {0} /\ m \in 1 .. m /\ m \in 1 .. n
      /\ m \in 1 .. (n - 1) /\ m + 1 = n
  BY <1>1 DEF Good, Shortens
<1>3. \A d \in 1 .. m : short[d] = st[d]
  <2>1. PICK S : st \in Seq(S)
    BY DEF Good, IsSeq
  <2>2. Len(st) = n
    BY DEF Good
  <2> QED BY <1>2, <2>1, <2>2 DEF Shortens
<1>4. PICK f, k, slots, j, row : /\ f = st[m].func /\ k = st[m].pc /\ slots = st[m].slots
                                 /\ j = k + 1 /\ row = tab[f][k]
  OBVIOUS
<1>5. short[m] = st[m]
  BY <1>2, <1>3
<1>6. k \in 1 .. Len(p[f].body) /\ i.op = "call" /\ i.of = st[n].func
  BY <1>2, <1>4 DEF Good, Calling
<1>7. i = Instr(p, short[m])
  BY <1>5
<1>8. /\ Proper(i, p) /\ f \in DOMAIN p /\ Passes(i, k, sums[f], sums, tab[f])
      /\ Covered(p, short, m, slots, row)
      /\ slots = [s \in Slots |-> slots[s]]
      /\ j \in 1 .. (Len(p[f].body) + 1)
  <2>1. f = short[m].func /\ k = short[m].pc
    BY <1>4, <1>5
  <2>2. /\ Proper(i, p) /\ f \in DOMAIN p /\ Passes(i, k, sums[f], sums, tab[f])
        /\ Covered(p, short, m, short[m].slots, tab[f][k])
        /\ short[m].slots = [s \in Slots |-> short[m].slots[s]]
        /\ k + 1 \in 1 .. (Len(p[f].body) + 1)
    BY <1>1, <1>2, <1>6, <1>7, <2>1, TopFacts, SMTT(60)
  <2> QED BY <1>4, <1>5, <2>2
<1>9. \A T : Reach(p, short, m, T) = Reach(p, st, m, T)
  <2>1. m # 1 => m - 1 \in 1 .. m
    BY <1>2
  <2>2. SameCaller(st, short, m)
    BY <1>3, <2>1 DEF SameCaller
  <2>3. st[m].func = short[m].func
    BY <1>5
  <2> QED BY <1>2, <2>2, <2>3, SameReach
<1>10. Covered(p, st, m, slots, row)
  BY <1>8, <1>9 DEF Covered
<1>11. \A a \in sums[i.of].shared : Arg(p, st, n, a) \subseteq Reach(p, st, m, Shared(i, row, sums))
  <2>1. Covered(p, st, m, st[m].slots, row)
    BY <1>4, <1>10
  <2>2. m = n - 1 /\ n \in Nat \ {0}
    BY <1>2
  <2>3. i.of = st[n].func /\ Proper(i, p) /\ i.op = "call"
    BY <1>6, <1>8
  <2> QED BY <2>1, <2>2, <2>3, HandedBack
<1>12. value \subseteq Reach(p, short, m, Bound(i, row, sums))
  <2>1. Bound(i, row, sums) = Shared(i, row, sums)
    BY <1>6 DEF Bound
  <2>2. value \subseteq Reach(p, st, m, Shared(i, row, sums))
    BY <1>6, <1>11 DEF Reach
  <2> QED BY <1>9, <2>1, <2>2
<1>13. Carries(i, row, tab[f][j], sums)
  BY <1>4, <1>6, <1>8 DEF Passes, Jumping
<1>14. Covered(p, short, m, r.slots, tab[f][j])
  <2>1. PICK after, next : after = r.slots /\ next = tab[f][j]
    OBVIOUS
  <2>2. i.op \in Binding /\ Binds(after, slots, i.to, value) /\ Carries(i, row, next, sums)
    BY <1>4, <1>6, <1>13, <2>1 DEF Binding
  <2>3. Covered(p, short, m, after, next)
    BY <1>8, <1>12, <2>2, BindsWithin
  <2> QED BY <2>1, <2>3
<1>15. r.func = short[m].func /\ r.func = f /\ r.pc = j
  BY <1>4, <1>5
<1> QED BY <1>1, <1>8, <1>14, <1>15, TopMoves

\* What the innermost call lets go of, the outermost was counted for.
LEMMA TopKeeps ==
    ASSUME NEW p, NEW sums, NEW tab, NEW st, NEW n, Good(p, sums, tab, st, n),
           \A f \in DOMAIN p : Certifies(p[f], sums[f], sums, tab[f]), WellFormed(p),
           st[n].pc \in 1 .. Len(p[st[n].func].body),
           NEW i, i = Instr(p, st[n]), i.op \in {"give", "keep"}
    PROVE  Held(st[n].slots, i.from) \subseteq sums[st[1].func].retained
<1>1. PICK f, k, slots, row : f = st[n].func /\ k = st[n].pc /\ slots = st[n].slots /\ row = tab[f][k]
  OBVIOUS
<1>2. n \in 1 .. n /\ Handed(p, sums, st, n)
  BY DEF Good
<1>3. /\ Proper(i, p) /\ f \in DOMAIN p /\ Passes(i, k, sums[f], sums, tab[f])
      /\ Covered(p, st, n, slots, row)
      /\ slots = [s \in Slots |-> slots[s]]
      /\ k + 1 \in 1 .. (Len(p[f].body) + 1)
  BY <1>1, <1>2, TopFacts, SMTT(30)
<1>4. i.from \subseteq Slots
  BY <1>3 DEF Proper, Reading
<1>5. Held(row, i.from) \subseteq sums[f].retained
  BY <1>1, <1>3 DEF Passes, Jumping, Counts
<1>6. Held(slots, i.from) \subseteq Reach(p, st, n, Held(row, i.from))
  BY <1>3, <1>4, HeldReached
<1>7. Reach(p, st, n, Held(row, i.from)) \subseteq Reach(p, st, n, sums[f].retained)
  BY <1>5, ReachMore
<1>8. Reach(p, st, n, sums[f].retained) \subseteq sums[st[1].func].retained
  BY <1>1, <1>2 DEF Handed, Reach
<1> QED BY <1>1, <1>6, <1>7, <1>8

\* What it returns reaches no more than it was said to share.
LEMMA TopReturns ==
    ASSUME NEW p, NEW sums, NEW tab, NEW st, NEW n, Good(p, sums, tab, st, n),
           \A f \in DOMAIN p : Certifies(p[f], sums[f], sums, tab[f]), WellFormed(p),
           st[n].pc \in 1 .. Len(p[st[n].func].body),
           NEW i, i = Instr(p, st[n]), i.op = "return"
    PROVE  Held(st[n].slots, i.from) \subseteq Reach(p, st, n, sums[st[n].func].shared)
<1>1. PICK f, k, slots, row : f = st[n].func /\ k = st[n].pc /\ slots = st[n].slots /\ row = tab[f][k]
  OBVIOUS
<1>2. n \in 1 .. n
  BY DEF Good
<1>3. /\ Proper(i, p) /\ f \in DOMAIN p /\ Passes(i, k, sums[f], sums, tab[f])
      /\ Covered(p, st, n, slots, row)
      /\ slots = [s \in Slots |-> slots[s]]
      /\ k + 1 \in 1 .. (Len(p[f].body) + 1)
  BY <1>1, <1>2, TopFacts, SMTT(30)
<1>4. i.from \subseteq Slots
  BY <1>3 DEF Proper, Reading
<1>5. Held(row, i.from) \subseteq sums[f].shared
  BY <1>1, <1>3 DEF Passes, Jumping, Counts
<1>6. Held(slots, i.from) \subseteq Reach(p, st, n, Held(row, i.from))
  BY <1>3, <1>4, HeldReached
<1>7. Reach(p, st, n, Held(row, i.from)) \subseteq Reach(p, st, n, sums[f].shared)
  BY <1>5, ReachMore
<1> QED BY <1>1, <1>6, <1>7

LEMMA TopFalls ==
    ASSUME NEW p, NEW sums, NEW tab, NEW st, NEW n, Good(p, sums, tab, st, n),
           \A f \in DOMAIN p : Certifies(p[f], sums[f], sums, tab[f]), WellFormed(p),
           NEW f, f = st[n].func, st[n].pc > Len(p[f].body)
    PROVE  st[n].slots[p[f].value] \subseteq Reach(p, st, n, sums[f].shared)
<1>1. n \in 1 .. n /\ Placed(p, tab, st, n)
  BY DEF Good
<1>2. f \in DOMAIN p /\ st[n].pc \in 1 .. (Len(p[f].body) + 1)
  BY <1>1 DEF Placed
<1>3. p[f].value \in Slots /\ Len(p[f].body) \in Nat
  BY <1>2 DEF WellFormed, ProperFunction
<1>4. st[n].pc = Len(p[f].body) + 1
  <2>1. PICK k, l : k = st[n].pc /\ l = Len(p[f].body)
    OBVIOUS
  <2>2. k > l /\ l \in Nat /\ k \in 1 .. (l + 1)
    BY <1>2, <1>3, <2>1
  <2>3. k = l + 1
    BY <2>2
  <2> QED BY <2>1, <2>3
<1>5. tab[f][Len(p[f].body) + 1][p[f].value] \subseteq sums[f].shared
  BY <1>2 DEF Certifies
<1>6. st[n].slots[p[f].value] \subseteq Reach(p, st, n, tab[f][Len(p[f].body) + 1][p[f].value])
  BY <1>1, <1>3, <1>4 DEF Placed, Covered
<1> QED BY <1>5, <1>6, ReachMore

LEMMA OutermostReach ==
    ASSUME NEW p, NEW st, NEW S
    PROVE  Reach(p, st, 1, S) \subseteq S
BY DEF Reach, Arg

(***************************************************************************)
(* The steps of a run.                                                     *)
(***************************************************************************)
\* The stack after a step that binds a slot of call n, and after a jump of it.
BindsIn(other, st, n, s, value) ==
    other = [st EXCEPT ![n].pc = @ + 1, ![n].slots = [@ EXCEPT ![s] = value]]
GoesIn(other, st, n, pc) == other = [st EXCEPT ![n].pc = pc]

\* A stack of frames.
Frames(st, n) == DOMAIN st = 1 .. n /\ st = [d \in 1 .. n |-> st[d]] /\ \A d \in 1 .. n : IsFrame(st[d])

LEMMA BindIsAFrame ==
    ASSUME NEW st, NEW m \in Nat, Frames(st, m), NEW n \in 1 .. m, NEW s, NEW value, NEW other,
           BindsIn(other, st, n, s, value)
    PROVE  \E r : /\ IsFrame(r) /\ r.func = st[n].func /\ r.pc = st[n].pc + 1
                  /\ Binds(r.slots, st[n].slots, s, value) /\ Replaces(other, st, n, r)
<1>1. PICK fr : fr = st[n] /\ IsFrame(fr)
  BY DEF Frames
<1>2. PICK after, pc : after = [fr.slots EXCEPT ![s] = value] /\ pc = fr.pc + 1
  OBVIOUS
<1>3. PICK r : r = [func |-> fr.func, pc |-> pc, slots |-> after]
  OBVIOUS
<1>4. r.func = fr.func /\ r.pc = pc /\ r.slots = after
  BY <1>3
<1>5. IsFrame(r)
  <2>1. after = [x \in Slots |-> after[x]]
    BY <1>1, <1>2 DEF IsFrame
  <2> QED BY <1>3, <1>4, <2>1 DEF IsFrame
<1>6. PICK mid : mid = [fr EXCEPT !.pc = @ + 1]
  OBVIOUS
<1>7. mid = [func |-> fr.func, pc |-> pc, slots |-> fr.slots]
  <2>1. fr = [func |-> fr.func, pc |-> fr.pc, slots |-> fr.slots]
    BY <1>1 DEF IsFrame
  <2> QED BY <1>2, <1>6, <2>1
<1>8. PICK half : half = [st EXCEPT ![n] = mid]
  OBVIOUS
<1>9. half[n] = mid /\ DOMAIN half = 1 .. m /\ \A d \in 1 .. m : d # n => half[d] = st[d]
  BY <1>8 DEF Frames
<1>10. other = [half EXCEPT ![n] = [half[n] EXCEPT !.slots = [half[n].slots EXCEPT ![s] = value]]]
  BY <1>1, <1>6, <1>8 DEF BindsIn
<1>11. [mid EXCEPT !.slots = [mid.slots EXCEPT ![s] = value]] = r
  <2>1. mid.slots = fr.slots
    BY <1>7
  <2> QED BY <1>2, <1>3, <1>7, <2>1
<1>12. other = [half EXCEPT ![n] = r]
  BY <1>9, <1>10, <1>11
<1>13. Replaces(other, st, n, r)
  <2>1. other = [st EXCEPT ![n] = r]
    BY <1>8, <1>12 DEF Frames
  <2> QED BY <2>1 DEF Replaces
<1>14. Binds(r.slots, st[n].slots, s, value)
  BY <1>1, <1>2, <1>4 DEF Binds
<1> QED BY <1>1, <1>2, <1>4, <1>5, <1>13, <1>14

LEMMA JumpIsAFrame ==
    ASSUME NEW st, NEW m \in Nat, Frames(st, m), NEW n \in 1 .. m, NEW pc, NEW other,
           GoesIn(other, st, n, pc)
    PROVE  \E r : /\ IsFrame(r) /\ r.func = st[n].func /\ r.pc = pc
                  /\ r.slots = st[n].slots /\ Replaces(other, st, n, r)
<1>1. PICK fr : fr = st[n] /\ IsFrame(fr)
  BY DEF Frames
<1>2. PICK r : r = [func |-> fr.func, pc |-> pc, slots |-> fr.slots]
  OBVIOUS
<1>3. r.func = fr.func /\ r.pc = pc /\ r.slots = fr.slots
  BY <1>2
<1>4. IsFrame(r)
  BY <1>1, <1>2, <1>3 DEF IsFrame
<1>5. [fr EXCEPT !.pc = pc] = r
  BY <1>1, <1>2 DEF IsFrame
<1>6. other = [st EXCEPT ![n] = r]
  BY <1>1, <1>5 DEF GoesIn
<1> QED BY <1>1, <1>3, <1>4, <1>6 DEF Replaces

LEMMA GoodFrames ==
    ASSUME NEW p, NEW sums, NEW tab, NEW st, NEW n, Good(p, sums, tab, st, n)
    PROVE  /\ Frames(st, n) /\ n \in Nat \ {0} /\ n \in 1 .. n /\ Len(st) = n /\ 1 \in 1 .. n
           /\ \A d \in 1 .. n : Placed(p, tab, st, d)
           /\ IsSeq(st)
<1>1. /\ n \in Nat \ {0} /\ IsSeq(st) /\ Len(st) = n /\ DOMAIN st = 1 .. n
      /\ \A d \in 1 .. n : Placed(p, tab, st, d)
  BY DEF Good
<1>2. PICK S : st \in Seq(S)
  BY <1>1 DEF IsSeq
<1>3. st = [d \in 1 .. n |-> st[d]]
  BY <1>1, <1>2
<1>4. \A d \in 1 .. n : IsFrame(st[d])
  BY <1>1 DEF Placed
<1> QED BY <1>1, <1>3, <1>4 DEF Frames

\* The stack is that of a run of p under summaries that are certified.
Holding(p, sums, tab, st, n) ==
    /\ Good(p, sums, tab, st, n) /\ WellFormed(p)
    /\ \A f \in DOMAIN p : Certifies(p[f], sums[f], sums, tab[f])

\* The call at the bottom of the stack is the one the run began with.
SameRun(st, st2) == st2[1].func = st[1].func

LEMMA StepBinds ==
    ASSUME NEW p, NEW sums, NEW tab, NEW st, NEW n, Holding(p, sums, tab, st, n),
           NEW i, i = Instr(p, st[n]), st[n].pc \in 1 .. Len(p[st[n].func].body),
           i.op \in {"put", "pick", "give"}, NEW value, value \subseteq Held(st[n].slots, i.from),
           NEW st2, BindsIn(st2, st, n, i.to, value)
    PROVE  Good(p, sums, tab, st2, n) /\ SameRun(st, st2)
<1>1. Good(p, sums, tab, st, n)
  BY DEF Holding
<1>2. Frames(st, n) /\ n \in Nat \ {0} /\ n \in 1 .. n /\ Len(st) = n /\ 1 \in 1 .. n
  BY <1>1, GoodFrames
<1>3. PICK s : s = i.to
  OBVIOUS
<1>4. PICK r : /\ IsFrame(r) /\ r.func = st[n].func /\ r.pc = st[n].pc + 1
               /\ Binds(r.slots, st[n].slots, s, value) /\ Replaces(st2, st, n, r)
  BY <1>2, <1>3, BindIsAFrame
<1>5. Good(p, sums, tab, st2, n)
  BY <1>1, <1>3, <1>4, TopBinds DEF Holding
<1>6. SameRun(st, st2)
  BY <1>2, <1>4 DEF SameRun, Replaces, Frames
<1> QED BY <1>5, <1>6

LEMMA StepGoes ==
    ASSUME NEW p, NEW sums, NEW tab, NEW st, NEW n, Holding(p, sums, tab, st, n),
           NEW i, i = Instr(p, st[n]), st[n].pc \in 1 .. Len(p[st[n].func].body), NEW pc,
           \/ i.op \in {"keep", "return", "while"} /\ pc = st[n].pc + 1
           \/ i.op = "while" /\ pc = st[n].pc + i.len + 1
           \/ i.op = "again" /\ pc = st[n].pc - i.len,
           NEW st2, GoesIn(st2, st, n, pc)
    PROVE  Good(p, sums, tab, st2, n) /\ SameRun(st, st2)
<1>1. Good(p, sums, tab, st, n)
  BY DEF Holding
<1>2. Frames(st, n) /\ n \in Nat \ {0} /\ n \in 1 .. n /\ Len(st) = n /\ 1 \in 1 .. n
  BY <1>1, GoodFrames
<1>3. PICK r : /\ IsFrame(r) /\ r.func = st[n].func /\ r.pc = pc
               /\ r.slots = st[n].slots /\ Replaces(st2, st, n, r)
  BY <1>2, JumpIsAFrame
<1>4. \/ i.op \in {"keep", "return", "while"} /\ r.pc = st[n].pc + 1
      \/ i.op = "while" /\ r.pc = st[n].pc + i.len + 1
      \/ i.op = "again" /\ r.pc = st[n].pc - i.len
  BY <1>3
<1>5. Good(p, sums, tab, st2, n)
  BY <1>1, <1>3, <1>4, TopGoes DEF Holding
<1>6. SameRun(st, st2)
  BY <1>2, <1>3 DEF SameRun, Replaces, Frames
<1> QED BY <1>5, <1>6

LEMMA StepCalls ==
    ASSUME NEW p, NEW sums, NEW tab, NEW st, NEW n, Holding(p, sums, tab, st, n),
           NEW i, i = Instr(p, st[n]), st[n].pc \in 1 .. Len(p[st[n].func].body), i.op = "call",
           NEW r, Entering(p, i, st[n].slots, r), NEW m, NEW st2, Extends(st2, st, n, m, r)
    PROVE  Good(p, sums, tab, st2, m) /\ SameRun(st, st2)
<1>1. Good(p, sums, tab, st, n)
  BY DEF Holding
<1>2. n \in Nat \ {0} /\ Len(st) = n /\ 1 \in 1 .. n /\ IsSeq(st)
  BY <1>1, GoodFrames
<1>3. Good(p, sums, tab, st2, m)
  BY <1>1, TopCalls DEF Holding
<1>4. st2[1] = st[1]
  <2>1. PICK S : st \in Seq(S)
    BY <1>2 DEF IsSeq
  <2> QED BY <1>2, <2>1 DEF Extends
<1> QED BY <1>3, <1>4 DEF SameRun

LEMMA StepAnswers ==
    ASSUME NEW p, NEW sums, NEW tab, NEW st, NEW n, Holding(p, sums, tab, st, n), n # 1,
           NEW value, value \subseteq Reach(p, st, n, sums[st[n].func].shared),
           NEW m, NEW short, Shortens(short, st, n, m), NEW i, i = Instr(p, st[m]),
           NEW st2, BindsIn(st2, short, m, i.to, value)
    PROVE  Good(p, sums, tab, st2, m) /\ SameRun(st, st2)
<1>1. Good(p, sums, tab, st, n)
  BY DEF Holding
<1>2. n \in Nat \ {0} /\ Len(st) = n /\ IsSeq(st)
  BY <1>1, GoodFrames
<1>3. Good(p, sums, tab, short, m)
  BY <1>1, TopGone
<1>4. Frames(short, m) /\ m \in Nat \ {0} /\ m \in 1 .. m /\ 1 \in 1 .. m
  BY <1>3, GoodFrames
<1>5. \A d \in 1 .. m : short[d] = st[d]
  <2>1. PICK S : st \in Seq(S)
    BY <1>2 DEF IsSeq
  <2> QED BY <1>2, <1>4, <2>1 DEF Shortens
<1>6. PICK s : s = i.to
  OBVIOUS
<1>7. PICK r : /\ IsFrame(r) /\ r.func = short[m].func /\ r.pc = short[m].pc + 1
               /\ Binds(r.slots, short[m].slots, s, value) /\ Replaces(st2, short, m, r)
  BY <1>4, <1>6, BindIsAFrame
<1>8. short[m] = st[m]
  BY <1>4, <1>5
<1>9. /\ r.func = st[m].func /\ r.pc = st[m].pc + 1
      /\ Binds(r.slots, st[m].slots, i.to, value)
  BY <1>6, <1>7, <1>8
<1>10. Good(p, sums, tab, st2, m)
  BY <1>1, <1>7, <1>9, TopAnswers DEF Holding
<1>11. SameRun(st, st2)
  BY <1>4, <1>5, <1>7 DEF SameRun, Replaces, Frames
<1> QED BY <1>10, <1>11

\* The run begins with one call, handed its own parameters.
LEMMA StepStarts ==
    ASSUME NEW p, NEW sums, NEW tab, WellFormed(p),
           \A f \in DOMAIN p : Certifies(p[f], sums[f], sums, tab[f]),
           NEW f \in DOMAIN p, NEW r, IsFrame(r), r.func = f, r.pc = 1,
           r.slots = AtEntry(p[f].params), NEW st, st = <<r>>
    PROVE  Good(p, sums, tab, st, 1)
<1>1. st[1] = r /\ Len(st) = 1 /\ DOMAIN st = 1 .. 1 /\ IsSeq(st)
  <2>1. PICK S : r \in S
    <3>1. r \in {r}
      OBVIOUS
    <3> QED BY <3>1
  <2>2. st \in Seq(S) /\ st[1] = r /\ Len(st) = 1
    BY <2>1
  <2>3. DOMAIN st = 1 .. 1
    BY <2>2
  <2> QED BY <2>2, <2>3 DEF IsSeq
<1>2. /\ p[f].params \in Nat /\ Len(p[f].body) \in Nat
      /\ Certifies(p[f], sums[f], sums, tab[f])
  BY DEF WellFormed, ProperFunction
<1>3. Covered(p, st, 1, r.slots, tab[f][1])
  <2> SUFFICES ASSUME NEW s \in Slots PROVE r.slots[s] \subseteq Reach(p, st, 1, tab[f][1][s])
    BY DEF Covered
  <2>1. r.slots[s] = IF s <= p[f].params THEN {s} ELSE {}
    BY DEF AtEntry, Entered
  <2>2. r.slots[s] \subseteq tab[f][1][s]
    BY <1>2 DEF Certifies, Inside
  <2>3. CASE s <= p[f].params
    <3>1. s \in 1 .. p[f].params
      BY <1>2, <2>3 DEF Slots
    <3>2. Arg(p, st, 1, s) = {s}
      BY <1>1, <3>1 DEF Arg
    <3>3. s \in tab[f][1][s]
      BY <2>1, <2>2, <2>3
    <3> QED BY <2>1, <2>3, <3>2, <3>3 DEF Reach
  <2>4. CASE ~(s <= p[f].params)
    BY <2>1, <2>4
  <2> QED BY <2>3, <2>4
<1>4. Placed(p, tab, st, 1)
  <2>1. 1 \in 1 .. (Len(p[f].body) + 1)
    BY <1>2
  <2> QED BY <1>1, <1>3, <2>1 DEF Placed
<1>5. Handed(p, sums, st, 1)
  BY DEF Handed, Arg
<1>6. \A d \in 1 .. 1 : Placed(p, tab, st, d) /\ Handed(p, sums, st, d)
  BY <1>4, <1>5
<1>7. \A d \in 1 .. (1 - 1) : Calling(p, st, d)
  OBVIOUS
<1> QED BY <1>1, <1>6, <1>7 DEF Good

\* The rounds ended because nothing moved, and two turns were enough for every
\* loop.
Settles == quiet /\ \A f \in DOMAIN prog : LoopSettles(prog[f], known)

\* A run that is under way or over, as far as the answers go.
Traced(p, sums, st, k, ph, res) ==
    \E n : /\ Good(p, sums, Table(p, sums), st, n)
           /\ k \subseteq sums[st[1].func].retained
           /\ ph = "returned" => res \subseteq sums[st[1].func].shared

Sound ==
    /\ phase = "rounds" => stack = <<>> /\ kept = {}
    /\ Settles => IF stack = <<>> THEN kept = {}
                  ELSE Traced(prog, known, stack, kept, phase, result)

\* The variables at hand, by names that stay.
Working(p, sums, tab, st, n) ==
    /\ p = prog /\ sums = known /\ tab = Table(p, sums) /\ st = stack /\ n = Len(stack)
    /\ Holding(p, sums, tab, st, n)
    /\ kept \subseteq sums[st[1].func].retained
    /\ phase = "returned" => result \subseteq sums[st[1].func].shared

AtPlace(p, sums, tab, st, n, i) ==
    /\ Working(p, sums, tab, st, n)
    /\ i = Instr(p, st[n]) /\ i = Here /\ st[n] = Top
    /\ st[n].pc \in 1 .. Len(p[st[n].func].body)

LEMMA NotEmpty ==
    ASSUME NEW p, NEW sums, NEW tab, NEW st, NEW n, Good(p, sums, tab, st, n)
    PROVE  st # <<>>
<1>1. Len(st) = n /\ n \in Nat \ {0}
  BY DEF Good
<1> QED BY <1>1

LEMMA AllCertified ==
    ASSUME Inv, Settles, \A p \in Programs : WellFormed(p), NEW q, q = prog, NEW sums, sums = known,
           NEW tab, tab = Table(q, sums)
    PROVE  WellFormed(q) /\ \A f \in DOMAIN q : Certifies(q[f], sums[f], sums, tab[f])
<1>1. WellFormed(q)
  BY DEF Inv
<1>2. DOMAIN q = 1 .. Len(q)
  BY ProgramFacts
<1>3. \A f \in DOMAIN q : Within(Walk(q[f], sums), sums[f])
  BY <1>2 DEF Inv, Settles, Settled
<1>4. \A f \in DOMAIN q : LoopSettles(q[f], sums)
  BY DEF Settles
<1>5. Certified(q, sums)
  BY <1>1, <1>3, <1>4, SettledIsCertified
<1> QED BY <1>1, <1>5 DEF Certified

LEMMA AtWork ==
    ASSUME Inv, Sound, Settles, \A p \in Programs : WellFormed(p), stack # <<>>
    PROVE  \E p, sums, tab, st, n : Working(p, sums, tab, st, n)
<1>1. PICK p, sums, st : p = prog /\ sums = known /\ st = stack
  OBVIOUS
<1>2. PICK tab : tab = Table(p, sums)
  OBVIOUS
<1>3. WellFormed(p) /\ \A f \in DOMAIN p : Certifies(p[f], sums[f], sums, tab[f])
  BY <1>1, <1>2, AllCertified
<1>4. PICK n : /\ Good(p, sums, tab, st, n)
               /\ kept \subseteq sums[st[1].func].retained
               /\ phase = "returned" => result \subseteq sums[st[1].func].shared
  <2>1. Traced(prog, known, stack, kept, phase, result)
    BY DEF Sound
  <2> QED BY <1>1, <1>2, <2>1 DEF Traced
<1>5. n = Len(stack)
  BY <1>1, <1>4 DEF Good
<1> QED BY <1>1, <1>2, <1>3, <1>4, <1>5 DEF Working, Holding

LEMMA AtCodeIs ==
    ASSUME Inv, Sound, Settles, \A p \in Programs : WellFormed(p), NEW op, AtCode(op)
    PROVE  \E p, sums, tab, st, n, i : AtPlace(p, sums, tab, st, n, i) /\ i.op = op
<1>1. PICK p, sums, tab, st, n : Working(p, sums, tab, st, n)
  BY AtWork DEF AtCode, Running
<1>2. p = prog /\ st = stack /\ n = Len(stack) /\ Good(p, sums, tab, st, n) /\ WellFormed(p)
  BY <1>1 DEF Working, Holding
<1>3. PICK i, f, k : i = Instr(p, st[n]) /\ f = st[n].func /\ k = st[n].pc
  OBVIOUS
<1>4. n \in 1 .. n /\ Placed(p, tab, st, n)
  BY <1>2, GoodFrames
<1>5. f \in DOMAIN p /\ k \in 1 .. (Len(p[f].body) + 1)
  BY <1>3, <1>4 DEF Placed
<1>6. i = Here /\ st[n] = Top /\ i.op = op /\ k <= Len(p[f].body)
  BY <1>2, <1>3 DEF AtCode, Top, Code, Here, Instr
<1>7. Len(p[f].body) \in Nat
  BY <1>2, <1>5 DEF WellFormed, ProperFunction
<1>8. k \in 1 .. Len(p[f].body)
  <2>1. PICK l : l = Len(p[f].body)
    OBVIOUS
  <2>2. l \in Nat /\ k \in 1 .. (l + 1) /\ k <= l
    BY <1>5, <1>6, <1>7, <2>1
  <2> QED BY <2>1, <2>2
<1> QED BY <1>1, <1>3, <1>6, <1>8 DEF AtPlace

\* What a step leaves is a run still.
LEMMA TracedOn ==
    ASSUME NEW p, NEW sums, NEW tab, tab = Table(p, sums), NEW st, NEW st2, NEW n,
           Good(p, sums, tab, st2, n), SameRun(st, st2), NEW k, NEW ph, NEW res,
           k \subseteq sums[st[1].func].retained,
           ph = "returned" => res \subseteq sums[st[1].func].shared
    PROVE  Traced(p, sums, st2, k, ph, res)
BY DEF Traced, SameRun

LEMMA StartTraced ==
    ASSUME Inv, Sound, Settles, \A p \in Programs : WellFormed(p), NEW f \in DOMAIN prog, Start(f)
    PROVE  Traced(prog, known, stack', kept', phase', result')
<1>1. PICK p, sums : p = prog /\ sums = known
  OBVIOUS
<1>2. PICK tab : tab = Table(p, sums)
  OBVIOUS
<1>3. WellFormed(p) /\ \A g \in DOMAIN p : Certifies(p[g], sums[g], sums, tab[g])
  BY <1>1, <1>2, AllCertified
<1>4. PICK r : r = [func |-> f, pc |-> 1, slots |-> AtEntry(p[f].params)]
  OBVIOUS
<1>5. PICK st2 : st2 = stack'
  OBVIOUS
<1>6. st2 = <<r>>
  BY <1>1, <1>4, <1>5 DEF Start, Frame, AtEntry
<1>7. r.func = f /\ r.pc = 1 /\ r.slots = AtEntry(p[f].params)
  BY <1>4
<1>8. IsFrame(r)
  <2>1. r.slots = [s \in Slots |-> r.slots[s]]
    BY <1>7 DEF AtEntry, Entered
  <2> QED BY <1>4, <1>7, <2>1 DEF IsFrame
<1>9. Good(p, sums, tab, st2, 1)
  BY <1>1, <1>3, <1>6, <1>7, <1>8, StepStarts
<1>10. kept' = {} /\ phase' = "runs"
  BY DEF Start, Sound
<1>11. Traced(p, sums, st2, {}, "runs", result')
  <2>1. PICK res : res = result'
    OBVIOUS
  <2>2. Traced(p, sums, st2, {}, "runs", res)
    BY <1>2, <1>9 DEF Traced
  <2> QED BY <2>1, <2>2
<1> QED BY <1>1, <1>5, <1>10, <1>11

LEMMA BuildTraced ==
    ASSUME Inv, Sound, Settles, \A p \in Programs : WellFormed(p), Build
    PROVE  Traced(prog, known, stack', kept', phase', result')
<1>1. PICK p, sums, tab, st, n, i : AtPlace(p, sums, tab, st, n, i) /\ i.op = "put"
  BY AtCodeIs DEF Build
<1>2. /\ p = prog /\ sums = known /\ tab = Table(p, sums) /\ st = stack /\ n = Len(stack)
      /\ Holding(p, sums, tab, st, n) /\ kept \subseteq sums[st[1].func].retained
      /\ i = Instr(p, st[n]) /\ i = Here /\ st[n] = Top
      /\ st[n].pc \in 1 .. Len(p[st[n].func].body)
  BY <1>1 DEF AtPlace, Working
<1>3. PICK value, st2 : value = Held(st[n].slots, i.from) /\ st2 = stack'
  OBVIOUS
<1>4. BindsIn(st2, st, n, i.to, value)
  BY <1>2, <1>3 DEF BindsIn, Bind, Build
<1>5. value \subseteq Held(st[n].slots, i.from)
  BY <1>3
<1>6. Good(p, sums, tab, st2, n) /\ SameRun(st, st2)
  BY <1>1, <1>2, <1>4, <1>5, StepBinds
<1>7. PICK k, ph, res : /\ k = kept' /\ ph = phase' /\ res = result'
                        /\ k \subseteq sums[st[1].func].retained /\ ph # "returned"
  BY <1>2 DEF Build, AtCode, Running
<1>8. Traced(p, sums, st2, k, ph, res)
  BY <1>2, <1>6, <1>7, TracedOn
<1> QED BY <1>2, <1>3, <1>7, <1>8

LEMMA ChooseTraced ==
    ASSUME Inv, Sound, Settles, \A p \in Programs : WellFormed(p), NEW s \in Slots, Choose(s)
    PROVE  Traced(prog, known, stack', kept', phase', result')
<1>1. PICK p, sums, tab, st, n, i : AtPlace(p, sums, tab, st, n, i) /\ i.op = "pick"
  BY AtCodeIs DEF Choose
<1>2. /\ p = prog /\ sums = known /\ tab = Table(p, sums) /\ st = stack /\ n = Len(stack)
      /\ Holding(p, sums, tab, st, n) /\ kept \subseteq sums[st[1].func].retained
      /\ i = Instr(p, st[n]) /\ i = Here /\ st[n] = Top
      /\ st[n].pc \in 1 .. Len(p[st[n].func].body)
  BY <1>1 DEF AtPlace, Working
<1>3. PICK value, st2 : value = st[n].slots[s] /\ st2 = stack'
  OBVIOUS
<1>4. BindsIn(st2, st, n, i.to, value)
  BY <1>2, <1>3 DEF BindsIn, Bind, Choose
<1>5. value \subseteq Held(st[n].slots, i.from)
  BY <1>2, <1>3 DEF Choose, Held
<1>6. Good(p, sums, tab, st2, n) /\ SameRun(st, st2)
  BY <1>1, <1>2, <1>4, <1>5, StepBinds
<1>7. PICK k, ph, res : /\ k = kept' /\ ph = phase' /\ res = result'
                        /\ k \subseteq sums[st[1].func].retained /\ ph # "returned"
  BY <1>2 DEF Choose, AtCode, Running
<1>8. Traced(p, sums, st2, k, ph, res)
  BY <1>2, <1>6, <1>7, TracedOn
<1> QED BY <1>2, <1>3, <1>7, <1>8

LEMMA HandOverTraced ==
    ASSUME Inv, Sound, Settles, \A p \in Programs : WellFormed(p), HandOver
    PROVE  Traced(prog, known, stack', kept', phase', result')
<1>1. PICK p, sums, tab, st, n, i : AtPlace(p, sums, tab, st, n, i) /\ i.op = "give"
  BY AtCodeIs DEF HandOver
<1>2. /\ p = prog /\ sums = known /\ tab = Table(p, sums) /\ st = stack /\ n = Len(stack)
      /\ Holding(p, sums, tab, st, n) /\ kept \subseteq sums[st[1].func].retained
      /\ i = Instr(p, st[n]) /\ i = Here /\ st[n] = Top
      /\ st[n].pc \in 1 .. Len(p[st[n].func].body)
  BY <1>1 DEF AtPlace, Working
<1>3. PICK value, st2 : value = Held(st[n].slots, i.from) /\ st2 = stack'
  OBVIOUS
<1>4. BindsIn(st2, st, n, i.to, value)
  BY <1>2, <1>3 DEF BindsIn, Bind, HandOver
<1>5. value \subseteq Held(st[n].slots, i.from)
  BY <1>3
<1>6. Good(p, sums, tab, st2, n) /\ SameRun(st, st2)
  BY <1>1, <1>2, <1>4, <1>5, StepBinds
<1>7. PICK k, ph, res : /\ k = kept' /\ ph = phase' /\ res = result'
                        /\ k \subseteq sums[st[1].func].retained /\ ph # "returned"
  <2>1. Held(st[n].slots, i.from) \subseteq sums[st[1].func].retained
    BY <1>1, <1>2, TopKeeps DEF Holding
  <2>2. kept' = kept \union Held(st[n].slots, i.from)
    BY <1>2 DEF HandOver
  <2>3. phase' # "returned"
    BY DEF HandOver, AtCode, Running
  <2>4. PICK k, ph, res : k = kept' /\ ph = phase' /\ res = result'
    OBVIOUS
  <2>5. k \subseteq sums[st[1].func].retained
    BY <1>2, <2>1, <2>2, <2>4
  <2> QED BY <2>3, <2>4, <2>5
<1>8. Traced(p, sums, st2, k, ph, res)
  BY <1>2, <1>6, <1>7, TracedOn
<1> QED BY <1>2, <1>3, <1>7, <1>8

LEMMA KeepTraced ==
    ASSUME Inv, Sound, Settles, \A p \in Programs : WellFormed(p), Keep
    PROVE  Traced(prog, known, stack', kept', phase', result')
<1>1. PICK p, sums, tab, st, n, i : AtPlace(p, sums, tab, st, n, i) /\ i.op = "keep"
  BY AtCodeIs DEF Keep
<1>2. /\ p = prog /\ sums = known /\ tab = Table(p, sums) /\ st = stack /\ n = Len(stack)
      /\ Holding(p, sums, tab, st, n) /\ kept \subseteq sums[st[1].func].retained
      /\ i = Instr(p, st[n]) /\ i = Here /\ st[n] = Top
      /\ st[n].pc \in 1 .. Len(p[st[n].func].body)
  BY <1>1 DEF AtPlace, Working
<1>3. PICK pc, st2 : pc = st[n].pc + 1 /\ st2 = stack'
  OBVIOUS
<1>4. GoesIn(st2, st, n, pc)
  BY <1>2, <1>3 DEF GoesIn, Goto, Keep
<1>5. \/ i.op \in {"keep", "return", "while"} /\ pc = st[n].pc + 1
      \/ i.op = "while" /\ pc = st[n].pc + i.len + 1
      \/ i.op = "again" /\ pc = st[n].pc - i.len
  BY <1>1, <1>3
<1>6. Good(p, sums, tab, st2, n) /\ SameRun(st, st2)
  BY <1>1, <1>2, <1>4, <1>5, StepGoes
<1>7. PICK k, ph, res : /\ k = kept' /\ ph = phase' /\ res = result'
                        /\ k \subseteq sums[st[1].func].retained /\ ph # "returned"
  <2>1. Held(st[n].slots, i.from) \subseteq sums[st[1].func].retained
    BY <1>1, <1>2, TopKeeps DEF Holding
  <2>2. kept' = kept \union Held(st[n].slots, i.from)
    BY <1>2 DEF Keep
  <2>3. phase' # "returned"
    BY DEF Keep, AtCode, Running
  <2>4. PICK k, ph, res : k = kept' /\ ph = phase' /\ res = result'
    OBVIOUS
  <2>5. k \subseteq sums[st[1].func].retained
    BY <1>2, <2>1, <2>2, <2>4
  <2> QED BY <2>3, <2>4, <2>5
<1>8. Traced(p, sums, st2, k, ph, res)
  BY <1>2, <1>6, <1>7, TracedOn
<1> QED BY <1>2, <1>3, <1>7, <1>8

LEMMA WhileTraced ==
    ASSUME Inv, Sound, Settles, \A p \in Programs : WellFormed(p), While
    PROVE  Traced(prog, known, stack', kept', phase', result')
<1>1. PICK p, sums, tab, st, n, i : AtPlace(p, sums, tab, st, n, i) /\ i.op = "while"
  BY AtCodeIs DEF While
<1>2. /\ p = prog /\ sums = known /\ tab = Table(p, sums) /\ st = stack /\ n = Len(stack)
      /\ Holding(p, sums, tab, st, n) /\ kept \subseteq sums[st[1].func].retained
      /\ i = Instr(p, st[n]) /\ i = Here /\ st[n] = Top
      /\ st[n].pc \in 1 .. Len(p[st[n].func].body)
  BY <1>1 DEF AtPlace, Working
<1>3. PICK pc, st2 : /\ pc = st[n].pc + 1 \/ pc = st[n].pc + i.len + 1
                     /\ st2 = stack' /\ GoesIn(st2, st, n, pc)
  <2>1. PICK turn \in BOOLEAN :
            stack' = Goto(IF turn THEN Top.pc + 1 ELSE Top.pc + Here.len + 1)
    BY DEF While
  <2>2. CASE turn
    <3>1. PICK pc, st2 : pc = st[n].pc + 1 /\ st2 = stack'
      OBVIOUS
    <3>2. GoesIn(st2, st, n, pc)
      BY <1>2, <2>1, <2>2, <3>1 DEF GoesIn, Goto
    <3> QED BY <3>1, <3>2
  <2>3. CASE ~turn
    <3>1. PICK pc, st2 : pc = st[n].pc + i.len + 1 /\ st2 = stack'
      OBVIOUS
    <3>2. GoesIn(st2, st, n, pc)
      BY <1>2, <2>1, <2>3, <3>1 DEF GoesIn, Goto
    <3> QED BY <3>1, <3>2
  <2> QED BY <2>2, <2>3
<1>4. GoesIn(st2, st, n, pc)
  BY <1>3
<1>5. \/ i.op \in {"keep", "return", "while"} /\ pc = st[n].pc + 1
      \/ i.op = "while" /\ pc = st[n].pc + i.len + 1
      \/ i.op = "again" /\ pc = st[n].pc - i.len
  BY <1>1, <1>3
<1>6. Good(p, sums, tab, st2, n) /\ SameRun(st, st2)
  BY <1>1, <1>2, <1>4, <1>5, StepGoes
<1>7. PICK k, ph, res : /\ k = kept' /\ ph = phase' /\ res = result'
                        /\ k \subseteq sums[st[1].func].retained /\ ph # "returned"
  BY <1>2 DEF While, AtCode, Running
<1>8. Traced(p, sums, st2, k, ph, res)
  BY <1>2, <1>6, <1>7, TracedOn
<1> QED BY <1>2, <1>3, <1>7, <1>8

LEMMA AgainTraced ==
    ASSUME Inv, Sound, Settles, \A p \in Programs : WellFormed(p), Again
    PROVE  Traced(prog, known, stack', kept', phase', result')
<1>1. PICK p, sums, tab, st, n, i : AtPlace(p, sums, tab, st, n, i) /\ i.op = "again"
  BY AtCodeIs DEF Again
<1>2. /\ p = prog /\ sums = known /\ tab = Table(p, sums) /\ st = stack /\ n = Len(stack)
      /\ Holding(p, sums, tab, st, n) /\ kept \subseteq sums[st[1].func].retained
      /\ i = Instr(p, st[n]) /\ i = Here /\ st[n] = Top
      /\ st[n].pc \in 1 .. Len(p[st[n].func].body)
  BY <1>1 DEF AtPlace, Working
<1>3. PICK pc, st2 : pc = st[n].pc - i.len /\ st2 = stack'
  OBVIOUS
<1>4. GoesIn(st2, st, n, pc)
  BY <1>2, <1>3 DEF GoesIn, Goto, Again
<1>5. \/ i.op \in {"keep", "return", "while"} /\ pc = st[n].pc + 1
      \/ i.op = "while" /\ pc = st[n].pc + i.len + 1
      \/ i.op = "again" /\ pc = st[n].pc - i.len
  BY <1>1, <1>3
<1>6. Good(p, sums, tab, st2, n) /\ SameRun(st, st2)
  BY <1>1, <1>2, <1>4, <1>5, StepGoes
<1>7. PICK k, ph, res : /\ k = kept' /\ ph = phase' /\ res = result'
                        /\ k \subseteq sums[st[1].func].retained /\ ph # "returned"
  BY <1>2 DEF Again, AtCode, Running
<1>8. Traced(p, sums, st2, k, ph, res)
  BY <1>2, <1>6, <1>7, TracedOn
<1> QED BY <1>2, <1>3, <1>7, <1>8

LEMMA AnswerPops ==
    ASSUME NEW value, Answer(value), Len(stack) # 1
    PROVE  BindsIn(stack', SubSeq(stack, 1, Len(stack) - 1), Len(stack) - 1,
                   prog[stack[Len(stack) - 1].func].body[stack[Len(stack) - 1].pc].to, value)
BY ZenonT(30) DEF Answer, BindsIn

LEMMA CallTraced ==
    ASSUME Inv, Sound, Settles, \A p \in Programs : WellFormed(p), Call
    PROVE  Traced(prog, known, stack', kept', phase', result')
<1>1. PICK p, sums, tab, st, n, i : AtPlace(p, sums, tab, st, n, i) /\ i.op = "call"
  BY AtCodeIs DEF Call
<1>2. /\ p = prog /\ sums = known /\ tab = Table(p, sums) /\ st = stack /\ n = Len(stack)
      /\ Holding(p, sums, tab, st, n) /\ kept \subseteq sums[st[1].func].retained
      /\ i = Instr(p, st[n]) /\ i = Here /\ st[n] = Top
      /\ st[n].pc \in 1 .. Len(p[st[n].func].body)
  BY <1>1 DEF AtPlace, Working
<1>3. PICK k, ph, res, st2 : /\ k = kept' /\ ph = phase' /\ res = result' /\ st2 = stack'
                             /\ k \subseteq sums[st[1].func].retained /\ ph # "returned"
  BY <1>2 DEF Call, AtCode, Running
<1>4. CASE Len(stack) < MaxDepth
  <2>1. PICK given : given = [s \in Slots |-> IF s \in DOMAIN i.args THEN st[n].slots[i.args[s]] ELSE {}]
    OBVIOUS
  <2>2. PICK slots : slots = Entered(p[i.of].params, given)
    OBVIOUS
  <2>3. PICK r, m : r = [func |-> i.of, pc |-> 1, slots |-> slots] /\ m = n + 1
    OBVIOUS
  <2>4. r.func = i.of /\ r.pc = 1 /\ r.slots = slots
    BY <2>3
  <2>5. Entering(p, i, st[n].slots, r)
    <3>1. slots = [s \in Slots |-> slots[s]]
      BY <2>2 DEF Entered
    <3>2. IsFrame(r)
      BY <2>3, <2>4, <3>1 DEF IsFrame
    <3>3. \A s \in Slots : slots[s] = IF s <= p[i.of].params /\ s \in DOMAIN i.args
                                      THEN st[n].slots[i.args[s]] ELSE {}
      BY <2>1, <2>2 DEF Entered
    <3> QED BY <2>4, <3>2, <3>3 DEF Entering
  <2>6. Extends(st2, st, n, m, r)
    <3>1. stack' = Append(stack, Frame(Here.of,
              [s \in Slots |-> IF s \in DOMAIN Here.args THEN Top.slots[Here.args[s]] ELSE {}]))
      BY <1>4 DEF Call
    <3>2. given = [s \in Slots |-> IF s \in DOMAIN Here.args THEN Top.slots[Here.args[s]] ELSE {}]
      BY <1>2, <2>1
    <3>3. r = Frame(Here.of, given)
      BY <1>2, <2>2, <2>3 DEF Frame
    <3> QED BY <1>2, <1>3, <2>3, <3>1, <3>2, <3>3 DEF Extends
  <2>7. Good(p, sums, tab, st2, m) /\ SameRun(st, st2)
    BY <1>1, <1>2, <2>5, <2>6, StepCalls
  <2>8. Traced(p, sums, st2, k, ph, res)
    BY <1>2, <1>3, <2>7, TracedOn
  <2> QED BY <1>2, <1>3, <2>8
<1>5. CASE ~(Len(stack) < MaxDepth)
  <2>1. st2 = st
    BY <1>2, <1>3, <1>5 DEF Call
  <2>2. Good(p, sums, tab, st2, n) /\ SameRun(st, st2)
    BY <1>2, <2>1 DEF Holding, SameRun
  <2>3. Traced(p, sums, st2, k, ph, res)
    BY <1>2, <1>3, <2>2, TracedOn
  <2> QED BY <1>2, <1>3, <2>3
<1> QED BY <1>4, <1>5

LEMMA AnswerTraced ==
    ASSUME NEW p, NEW sums, NEW tab, NEW st, NEW n, Working(p, sums, tab, st, n), phase = "runs",
           NEW value, value \subseteq Reach(p, st, n, sums[st[n].func].shared),
           Answer(value), kept' = kept
    PROVE  Traced(prog, known, stack', kept', phase', result')
<1>1. /\ p = prog /\ sums = known /\ tab = Table(p, sums) /\ st = stack /\ n = Len(stack)
      /\ Holding(p, sums, tab, st, n) /\ kept \subseteq sums[st[1].func].retained
  BY DEF Working
<1>2. PICK k, ph, res, st2 : /\ k = kept' /\ ph = phase' /\ res = result' /\ st2 = stack'
                             /\ k \subseteq sums[st[1].func].retained
  BY <1>1
<1>3. CASE n = 1
  <2>1. res = value /\ st2 = st
    BY <1>1, <1>2, <1>3 DEF Answer
  <2>2. res \subseteq sums[st[1].func].shared
    BY <1>3, <2>1, OutermostReach
  <2>3. Good(p, sums, tab, st2, n) /\ SameRun(st, st2)
    BY <1>1, <2>1 DEF Holding, SameRun
  <2>4. Traced(p, sums, st2, k, ph, res)
    BY <1>1, <1>2, <2>2, <2>3, TracedOn
  <2> QED BY <1>1, <1>2, <2>4
<1>4. CASE n # 1
  <2>0. PICK m : m = n - 1
    OBVIOUS
  <2>1. PICK short : m = n - 1 /\ short = SubSeq(st, 1, m)
    BY <2>0
  <2>2. PICK i : i = Instr(p, st[m])
    OBVIOUS
  <2>3. Shortens(short, st, n, m)
    BY <2>1 DEF Shortens
  <2>4. BindsIn(st2, short, m, i.to, value)
    <3>1. Len(stack) # 1
      BY <1>1, <1>4
    <3>2. BindsIn(stack', SubSeq(stack, 1, Len(stack) - 1), Len(stack) - 1,
                  prog[stack[Len(stack) - 1].func].body[stack[Len(stack) - 1].pc].to, value)
      BY <3>1, AnswerPops
    <3>3. Len(stack) - 1 = m /\ SubSeq(stack, 1, Len(stack) - 1) = short
          /\ prog[stack[Len(stack) - 1].func].body[stack[Len(stack) - 1].pc] = i
      BY <1>1, <2>1, <2>2 DEF Instr
    <3>4. BindsIn(st2, short, m, i.to, value)
      <4>1. PICK a, b, c : /\ a = SubSeq(stack, 1, Len(stack) - 1) /\ b = Len(stack) - 1
                           /\ c = prog[stack[Len(stack) - 1].func].body[stack[Len(stack) - 1].pc]
        OBVIOUS
      <4>2. BindsIn(st2, a, b, c.to, value)
        BY <1>2, <3>2, <4>1
      <4> QED BY <3>3, <4>1, <4>2
    <3> QED BY <3>4
  <2>5. Good(p, sums, tab, st2, m) /\ SameRun(st, st2)
    BY <1>1, <1>4, <2>2, <2>3, <2>4, StepAnswers
  <2>6. ph # "returned"
    BY <1>1, <1>2, <1>4 DEF Answer
  <2>7. Traced(p, sums, st2, k, ph, res)
    BY <1>1, <1>2, <2>5, <2>6, TracedOn
  <2> QED BY <1>1, <1>2, <2>7
<1> QED BY <1>3, <1>4

LEMMA ReturnTraced ==
    ASSUME Inv, Sound, Settles, \A p \in Programs : WellFormed(p), Return
    PROVE  Traced(prog, known, stack', kept', phase', result')
<1>1. PICK p, sums, tab, st, n, i : AtPlace(p, sums, tab, st, n, i) /\ i.op = "return"
  BY AtCodeIs DEF Return
<1>2. /\ p = prog /\ sums = known /\ tab = Table(p, sums) /\ st = stack /\ n = Len(stack)
      /\ Holding(p, sums, tab, st, n) /\ kept \subseteq sums[st[1].func].retained
      /\ i = Instr(p, st[n]) /\ i = Here /\ st[n] = Top
      /\ st[n].pc \in 1 .. Len(p[st[n].func].body)
      /\ Working(p, sums, tab, st, n) /\ phase = "runs" /\ kept' = kept
  BY <1>1 DEF AtPlace, Working, Return, AtCode, Running
<1>3. CASE Answer(Held(Top.slots, Here.from))
  <2>1. PICK value : value = Held(st[n].slots, i.from)
    OBVIOUS
  <2>2. value \subseteq Reach(p, st, n, sums[st[n].func].shared)
    BY <1>1, <1>2, <2>1, TopReturns DEF Holding
  <2>3. Answer(value)
    BY <1>2, <1>3, <2>1
  <2> QED BY <1>2, <2>2, <2>3, AnswerTraced
<1>4. CASE stack' = Goto(Top.pc + 1) /\ UNCHANGED <<phase, result>>
  <2>1. PICK pc, st2 : pc = st[n].pc + 1 /\ st2 = stack'
    OBVIOUS
  <2>2. GoesIn(st2, st, n, pc)
    BY <1>2, <1>4, <2>1 DEF GoesIn, Goto
  <2>3. \/ i.op \in {"keep", "return", "while"} /\ pc = st[n].pc + 1
        \/ i.op = "while" /\ pc = st[n].pc + i.len + 1
        \/ i.op = "again" /\ pc = st[n].pc - i.len
    BY <1>1, <2>1
  <2>4. Good(p, sums, tab, st2, n) /\ SameRun(st, st2)
    BY <1>1, <1>2, <2>2, <2>3, StepGoes
  <2>5. PICK k, ph, res : /\ k = kept' /\ ph = phase' /\ res = result'
                          /\ k \subseteq sums[st[1].func].retained /\ ph # "returned"
    BY <1>2, <1>4
  <2>6. Traced(p, sums, st2, k, ph, res)
    BY <1>2, <2>4, <2>5, TracedOn
  <2> QED BY <1>2, <2>1, <2>5, <2>6
<1> QED BY <1>3, <1>4 DEF Return

LEMMA FallTraced ==
    ASSUME Inv, Sound, Settles, \A p \in Programs : WellFormed(p), Fall
    PROVE  Traced(prog, known, stack', kept', phase', result')
<1>1. PICK p, sums, tab, st, n : Working(p, sums, tab, st, n)
  BY AtWork DEF Fall, Running
<1>2. /\ p = prog /\ st = stack /\ n = Len(stack) /\ Holding(p, sums, tab, st, n)
      /\ phase = "runs" /\ kept' = kept
  BY <1>1 DEF Working, Fall, Running
<1>3. PICK f, value : f = st[n].func /\ value = st[n].slots[p[f].value]
  OBVIOUS
<1>4. st[n].pc > Len(p[f].body) /\ Answer(value)
  BY <1>2, <1>3 DEF Fall, Top, Code
<1>5. value \subseteq Reach(p, st, n, sums[f].shared)
  BY <1>2, <1>3, <1>4, TopFalls DEF Holding
<1> QED BY <1>1, <1>2, <1>3, <1>4, <1>5, AnswerTraced

LEMMA SoundOn ==
    ASSUME \A p \in Programs : WellFormed(p), Inv, Sound, [Next]_vars
    PROVE  Sound'
<1>1. CASE WalkFunction \/ EndRound
  <2>1. stack' = stack /\ kept' = kept /\ phase = "rounds"
    BY <1>1 DEF WalkFunction, EndRound
  <2>2. stack = <<>> /\ kept = {}
    BY <2>1 DEF Sound
  <2> QED BY <2>1, <2>2 DEF Sound
<1>2. ASSUME UNCHANGED analysis, phase = "runs", phase' # "rounds",
             Settles => Traced(prog, known, stack', kept', phase', result')
      PROVE  Sound'
  <2>1. prog' = prog /\ known' = known /\ quiet' = quiet
    BY <1>2 DEF analysis
  <2>2. Settles' => Settles
    BY <2>1 DEF Settles
  <2>4. Settles => stack' # <<>>
    <3>1. ASSUME Settles PROVE stack' # <<>>
      <4>1. PICK p, sums, st, k, ph, res : /\ p = prog /\ sums = known /\ st = stack'
                                           /\ k = kept' /\ ph = phase' /\ res = result'
        OBVIOUS
      <4>2. Traced(p, sums, st, k, ph, res)
        BY <1>2, <3>1, <4>1
      <4>3. st # <<>>
        BY <4>2, NotEmpty DEF Traced
      <4> QED BY <4>1, <4>3
    <3> QED BY <3>1
  <2>3. ASSUME Settles' PROVE IF stack' = <<>> THEN kept' = {}
                              ELSE Traced(prog', known', stack', kept', phase', result')
    <3>1. Traced(prog, known, stack', kept', phase', result')
      BY <1>2, <2>2, <2>3
    <3>2. Traced(prog', known', stack', kept', phase', result')
      BY <2>1, <3>1
    <3> QED BY <2>4, <2>2, <2>3, <3>2
  <2> QED BY <1>2, <2>1, <2>2, <2>3, <2>4 DEF Sound
<1>3. ASSUME NEW f \in DOMAIN prog, Start(f) PROVE Sound'
  <2>1. Settles => Traced(prog, known, stack', kept', phase', result')
    BY <1>3, StartTraced
  <2> QED BY <1>2, <1>3, <2>1 DEF Start
<1>4. CASE Run
  <2>1. UNCHANGED analysis /\ phase = "runs" /\ phase' \in {"runs", "returned", "exhausted"}
    BY <1>4, RunChanges
  <2>2. Settles => Traced(prog, known, stack', kept', phase', result')
    BY <1>4, BuildTraced, HandOverTraced, KeepTraced, CallTraced, ReturnTraced, FallTraced,
       WhileTraced, AgainTraced, ChooseTraced DEF Run
  <2>3. phase' # "rounds"
    BY <2>1
  <2> QED BY <1>2, <2>1, <2>2, <2>3
<1>5. CASE UNCHANGED vars
  <2>1. /\ prog' = prog /\ known' = known /\ quiet' = quiet /\ phase' = phase
        /\ stack' = stack /\ kept' = kept /\ result' = result
    BY <1>5 DEF vars, analysis
  <2>2. Settles' => Settles
    BY <2>1 DEF Settles
  <2> QED BY <2>1, <2>2 DEF Sound
<1> QED BY <1>1, <1>3, <1>4, <1>5 DEF Next

\* The answers hold of every run of every program of any number of functions,
\* recursive through each other as they may be: what a run leaves reachable
\* from elsewhere, or from its result, the analysis said.  It takes rounds that
\* ended because nothing moved, and loops of which the second turn of the walk
\* found nothing that the first had not.
THEOREM AnswersHold ==
    ASSUME \A p \in Programs : WellFormed(p)
    PROVE  Spec => [](Settles => SummariesAreSound)
<1>1. Init => Sound
  BY DEF Init, Sound, Settles
<1>2. Inv /\ Sound /\ [Next]_vars => Sound'
  BY SoundOn
<1>3. Inv /\ Sound => (Settles => SummariesAreSound)
  <2> SUFFICES ASSUME Inv, Sound, Settles, stack # <<>>
               PROVE  /\ kept \subseteq known[stack[1].func].retained
                      /\ phase = "returned" => result \subseteq known[stack[1].func].shared
    BY DEF SummariesAreSound
  <2>1. Traced(prog, known, stack, kept, phase, result)
    BY DEF Sound
  <2> QED BY <2>1 DEF Traced
<1> QED BY <1>1, <1>2, <1>3, Invariant, PTL DEF Spec

\* Where there are no loops, that the rounds ended is all it takes.
THEOREM AnswersHoldWithoutLoops ==
    ASSUME \A p \in Programs : WellFormed(p) /\ \A f \in DOMAIN p : Straight(p[f].body)
    PROVE  Spec => [](quiet => SummariesAreSound)
<1>1. Spec => [](Settles => SummariesAreSound)
  BY AnswersHold
<1>2. Inv => (quiet => Settles)
  <2> SUFFICES ASSUME Inv, quiet, NEW f \in DOMAIN prog PROVE LoopSettles(prog[f], known)
    BY DEF Settles
  <2>1. Straight(prog[f].body)
    BY DEF Inv
  <2> QED BY <2>1 DEF Straight, Jumping, LoopSettles
<1> QED BY <1>1, <1>2, Invariant, PTL

=============================================================================
