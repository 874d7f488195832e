------------------------------- MODULE Facts -------------------------------
(***************************************************************************)
(* What the type checker knows about integers (crates/deed-typeck,         *)
(* facts.rs, and the statements of check.rs that tell it), against the     *)
(* values a run of the same function can hold.                             *)
(*                                                                         *)
(* One behaviour is the checker walking one function body, statement by    *)
(* statement, and settling what it knows after each.  `reach` is the set   *)
(* of stores a run can have at the point the checker has come to; it plays *)
(* no part in what the checker does.  A verdict is what `holds` answers,   *)
(* and a run refutes it with a store in `reach`.                           *)
(*                                                                         *)
(* Expressions are one or two operands, an operand is a name, a length, a  *)
(* field of a refined type or a literal, times a constant.  A local is     *)
(* bound once, as the resolver numbers bindings.                           *)
(***************************************************************************)
EXTENDS Integers, Sequences, FiniteSets

CONSTANTS
    MaxInt,         \* the largest integer of the language
    MaxValue,       \* bound: no run holds an integer further from zero
    Params,         \* integer parameters
    Locals,         \* names a let or a walk may bind
    State,          \* handler state, which can be assigned
    Lengths,        \* the lengths of the lists in scope
    Fields,         \* fields of a refined type, read where they are written
    Refined,        \* the range of the type a parameter, state or field has
    Declarations,   \* the ranges a let may declare
    Conditions,     \* the conditions the program tests
    Values,         \* the expressions it binds and assigns
    Orders,         \* the orders a hash map may list its pairs in
    MaxStatements,  \* bound: statements of the body
    MaxNesting,     \* bound: branches and walks open at once
    Forms           \* which of "assign under a lone if", "walk an empty list"

MinInt == -MaxInt - 1

Terms == Params \union Locals \union State \union Lengths
One == "1"
Pairs == {p \in Terms \X Terms : p[1] # p[2]}
Couples == {{p[1], p[2]} : p \in Pairs}

ASSUME WidthAssumption ==
    /\ MaxInt \in Nat \ {0} /\ MaxValue \in 0 .. MaxInt
    /\ MaxStatements \in Nat /\ MaxNesting \in Nat
    /\ Orders \subseteq Seq(Pairs)

\* A name is of one kind.
Kinds == <<Params, Locals, State, Lengths, Fields, {One}>>
ASSUME NamesAssumption ==
    \A i, j \in DOMAIN Kinds : i # j => Kinds[i] \intersect Kinds[j] = {}

Rounds == 4

-----------------------------------------------------------------------------
(* Ranges *)

Clamp(v) == IF v < MinInt THEN MinInt ELSE IF v > MaxInt THEN MaxInt ELSE v
Lesser(v, w) == IF v < w THEN v ELSE w
Greater(v, w) == IF v < w THEN w ELSE v

Empty == [low |-> MaxInt, high |-> MinInt]
Between(low, high) == IF low > high THEN Empty ELSE [low |-> low, high |-> high]
Any == Between(MinInt, MaxInt)
Exactly(v) == Between(v, v)
IsRange(r) ==
    /\ r.low \in MinInt .. MaxInt /\ r.high \in MinInt .. MaxInt
    /\ r.low <= r.high \/ r = Empty

Ranges == {r \in [low : MinInt .. MaxInt, high : MinInt .. MaxInt] : IsRange(r)}
ASSUME RefinedAssumption ==
    /\ Refined \in [Params \union State \union Lengths \union Fields -> Ranges]
    /\ Declarations \subseteq Ranges

Within(v, range) == range.low <= v /\ v <= range.high

Meet(r, s) == Between(Greater(r.low, s.low), Lesser(r.high, s.high))

Join(r, s) ==
    IF r = Empty THEN s
    ELSE IF s = Empty THEN r
    ELSE Between(Lesser(r.low, s.low), Greater(r.high, s.high))

\* add, and shift, which is written the same.
Add(r, s) ==
    IF r = Empty \/ s = Empty THEN Empty
    ELSE Between(Clamp(r.low + s.low), Clamp(r.high + s.high))

Negate(r) == IF r = Empty THEN Empty ELSE Between(Clamp(-r.high), Clamp(-r.low))

Spread(r, s) ==
    IF r = Empty \/ s = Empty THEN Empty
    ELSE Between(Clamp(r.low - s.high), Clamp(r.high - s.low))

\* A product with one value: mul where the other side is a literal.
Times(r, by) ==
    IF r = Empty THEN Empty
    ELSE LET one == Clamp(r.low * by)
             other == Clamp(r.high * by)
         IN  Between(Lesser(one, other), Greater(one, other))

-----------------------------------------------------------------------------
(* Facts *)

Unbound(term) == IF term \in Lengths THEN Between(0, MaxInt) ELSE Any

Nothing ==
    [known |-> [t \in Terms |-> Unbound(t)],
     differences |-> [p \in {} |-> Any],
     totals |-> [c \in Couples |-> Any]]

Difference(f, a, b) ==
    IF a = b THEN Exactly(0)
    ELSE IF <<a, b>> \in DOMAIN f.differences THEN f.differences[<<a, b>>]
    ELSE Any

Tighten(f, term, range) ==
    [f EXCEPT !.known[term] = Meet(@, range)]

BothOrders(f, a, b, narrowed, mirrored) ==
    IF a = b \/ (narrowed = Difference(f, a, b) /\ mirrored = Difference(f, b, a)) THEN f
    ELSE [f EXCEPT !.differences =
            [p \in DOMAIN @ \union {<<a, b>>, <<b, a>>} |->
                CASE p = <<a, b>> -> narrowed [] p = <<b, a>> -> mirrored [] OTHER -> @[p]]]

\* The other order is narrowed with the negation of what this one became.
Mirrored(f, a, b, narrowed) ==
    BothOrders(f, a, b, narrowed, Meet(Difference(f, b, a), Negate(narrowed)))

TightenDifference(f, a, b, range) == Mirrored(f, a, b, Meet(Difference(f, a, b), range))

\* Both orders of a total are one entry here: they hold the same range.
NarrowTotal(f, couple, range) == [f EXCEPT !.totals[couple] = Meet(@, range)]

About(p, term) == p[1] = term \/ p[2] = term

\* As it would read if a binding left what relates the name to others.
ForgetRangeOnly(f, term) == [f EXCEPT !.known[term] = Unbound(term)]

Forget(f, term) ==
    [known |-> [f.known EXCEPT ![term] = Unbound(term)],
     differences |-> [p \in {q \in DOMAIN f.differences : ~About(q, term)} |-> f.differences[p]],
     totals |-> [c \in Couples |-> IF term \in c THEN Any ELSE f.totals[c]]]

Set(f, term, range) == [Forget(f, term) EXCEPT !.known[term] = range]

\* Everything both sides agree on.
JoinFacts(f, g) ==
    LET both == [p \in DOMAIN f.differences |->
                    Join(f.differences[p], Difference(g, p[1], p[2]))]
    IN  [known |-> [t \in Terms |-> Join(f.known[t], g.known[t])],
         differences |-> [p \in {q \in DOMAIN both : both[q] # Any} |-> both[p]],
         totals |-> [c \in Couples |-> Join(f.totals[c], g.totals[c])]]

-----------------------------------------------------------------------------
(* Expressions *)

Source(o) == IF o.of = One THEN Exactly(1) ELSE Refined[o.of]

\* A linear form: how many of each term, and the range of the rest.
Constant(range) == [count |-> [t \in Terms |-> 0], offset |-> range]

OperandForm(o) ==
    IF o.of \in Terms
    THEN [count |-> [t \in Terms |-> IF t = o.of THEN o.by ELSE 0], offset |-> Exactly(0)]
    ELSE Constant(Times(Source(o), o.by))

Plus(form, other) ==
    [count |-> [t \in Terms |-> Clamp(form.count[t] + other.count[t])],
     offset |-> Add(form.offset, other.offset)]

Negated(form) ==
    IF \E t \in Terms : form.count[t] = MinInt THEN Constant(Any)
    ELSE [count |-> [t \in Terms |-> -form.count[t]], offset |-> Times(form.offset, -1)]

Linear(e) ==
    CASE e.op = "only" -> OperandForm(e.l)
      [] e.op = "+" -> Plus(OperandForm(e.l), OperandForm(e.r))
      [] e.op = "-" -> Plus(OperandForm(e.l), Negated(OperandForm(e.r)))

Counted(form) == {t \in Terms : form.count[t] # 0}

\* The pair a form is the difference of, the couple it is the total of, or the
\* one name in it: a set of none or one.
PairOf(form) ==
    LET terms == Counted(form) IN
    {p \in terms \X terms : terms = {p[1], p[2]} /\ form.count[p[1]] = 1 /\ form.count[p[2]] = -1}

CoupleOf(form) ==
    {c \in {Counted(form)} \intersect Couples : \A t \in c : form.count[t] = 1}

NameOf(form) == {t \in Counted(form) : Counted(form) = {t}}

The(set) == CHOOSE x \in set : TRUE

OperandRange(o, f) == Times(IF o.of \in Terms THEN f.known[o.of] ELSE Source(o), o.by)

Result(op, left, right) ==
    CASE op = "only" -> left [] op = "+" -> Add(left, right) [] op = "-" -> Add(left, Negate(right))

Interval(e, f) == Result(e.op, OperandRange(e.l, f), OperandRange(e.r, f))

\* What a difference or a total adds to a sum.
RelatedForm(form, f) ==
    IF PairOf(form) # {}
    THEN LET p == The(PairOf(form)) IN Add(Difference(f, p[1], p[2]), form.offset)
    ELSE IF CoupleOf(form) # {} THEN Add(f.totals[The(CoupleOf(form))], form.offset)
    ELSE Any

Related(e, f) == RelatedForm(Linear(e), f)

RangeOf(e, f) ==
    IF e.op = "only" THEN Interval(e, f) ELSE Meet(Interval(e, f), Related(e, f))

-----------------------------------------------------------------------------
(* Verdicts *)

\* The form of left - right.
Form(c) == Plus(Linear(c.l), Negated(Linear(c.r)))

\* A difference of a pair of names is read; any other is only spread.
PairDifference(form, f) ==
    IF PairOf(form) = {} THEN Any
    ELSE LET p == The(PairOf(form)) IN Add(Difference(f, p[1], p[2]), form.offset)

Opposite(truth) ==
    IF truth = "always" THEN "never" ELSE IF truth = "never" THEN "always" ELSE truth

Answer(always, never) == IF always THEN "always" ELSE IF never THEN "never" ELSE "unknown"

\* How two ranges compare whose values are d apart.
Verdict(op, left, right, d) ==
    LET equal == Answer(d.low = 0 /\ d.high = 0, d.low > 0 \/ d.high < 0)
    IN  IF left = Empty \/ right = Empty \/ d = Empty
        THEN "never"
        ELSE CASE op = "<" -> Answer(d.high < 0, d.low >= 0)
               [] op = "<=" -> Answer(d.high <= 0, d.low > 0)
               [] op = ">" -> Answer(d.low > 0, d.high <= 0)
               [] op = ">=" -> Answer(d.low >= 0, d.high < 0)
               [] op = "==" -> equal
               [] op = "!=" -> Opposite(equal)

CompareRanges(c, left, right, apart) ==
    Verdict(c.op, left, right, Meet(Spread(left, right), apart))

Compare(c, f) == CompareRanges(c, RangeOf(c.l, f), RangeOf(c.r, f), PairDifference(Form(c), f))

\* A condition is one comparison, or two under `and` or `or`.
Joint(all, truths) ==
    IF all THEN Answer(truths = {"always"}, "never" \in truths)
    ELSE Answer("always" \in truths, truths = {"never"})

Holds(condition, f) ==
    Joint(condition.all, {Compare(condition.parts[i], f) : i \in DOMAIN condition.parts})

-----------------------------------------------------------------------------
(* Narrowing *)

Negation == [o \in {"<", "<=", ">", ">=", "==", "!="} |->
    CASE o = "<" -> ">=" [] o = "<=" -> ">" [] o = ">" -> "<="
      [] o = ">=" -> "<" [] o = "==" -> "!=" [] o = "!=" -> "=="]

\* What a program is written from.
Operands == [by : MinInt .. MaxInt, of : Terms \union Fields \union {One}]
Expressions == [op : {"only", "+", "-"}, l : Operands, r : Operands]
Comparisons == [op : DOMAIN Negation, l : Expressions, r : Expressions]
ASSUME ProgramsAssumption ==
    /\ Values \subseteq Expressions
    /\ \A c \in Conditions :
          /\ DOMAIN c = {"all", "parts"} /\ c.all \in BOOLEAN
          /\ c.parts \in Seq(Comparisons) /\ Len(c.parts) \in 1 .. 2

Flip(c) == [c EXCEPT !.l = c.r, !.r = c.l]

\* Where x is, given x + offset op 0, when both ends of the offset can be
\* negated.
Boundable(op, offset) ==
    op # "!=" /\ offset # Empty /\ offset.low > MinInt /\ offset.high > MinInt

BoundFrom(op, offset) ==
    CASE op = "<" -> Between(MinInt, -offset.low - 1)
      [] op = "<=" -> Between(MinInt, -offset.low)
      [] op = ">" -> Between(-offset.high + 1, MaxInt)
      [] op = ">=" -> Between(-offset.high, MaxInt)
      [] op = "==" -> Between(-offset.high, -offset.low)

Floor(v, by) == IF by > 0 THEN v \div by ELSE (-v) \div (-by)
RoundDown(v, by) == Clamp(Floor(v, by))
RoundUp(v, by) == -Floor(-v, by)

\* The range of d, given the range of count * d: rounded inwards, and no
\* answer where the only bound does not fit.
Divisible(bound, count) ==
    RoundUp(IF count > 0 THEN bound.low ELSE bound.high, count) <= MaxInt

Divided(bound, count) ==
    IF bound = Empty THEN Empty
    ELSE IF count > 0
    THEN Between(RoundUp(bound.low, count), RoundDown(bound.high, count))
    ELSE Between(RoundUp(bound.high, count), RoundDown(bound.low, count))

\* One comparison that holds, as what it says about a name (narrow_scaled) or
\* about two (narrow_relation).
NarrowForm(f, form, here) ==
    IF NameOf(form) # {}
    THEN LET t == The(NameOf(form)) IN
         IF here # Empty /\ ~Divisible(here, form.count[t]) THEN f
         ELSE Tighten(f, t, Divided(here, form.count[t]))
    ELSE IF PairOf(form) # {}
    THEN TightenDifference(f, The(PairOf(form))[1], The(PairOf(form))[2], here)
    ELSE IF CoupleOf(form) # {} THEN NarrowTotal(f, The(CoupleOf(form)), here)
    ELSE f

NarrowBound(f, c) ==
    LET form == Form(c) IN
    IF ~Boundable(c.op, form.offset) THEN f
    ELSE NarrowForm(f, form, BoundFrom(c.op, form.offset))

\* One value at an edge of what is known of a name is ruled out.
RuleOut(f, t, value) ==
    LET known == f.known[t]
    IN  IF value = Empty \/ value.low # value.high \/ known = Empty THEN f
        ELSE IF value.low = known.low THEN Tighten(f, t, Between(known.low + 1, known.high))
        ELSE IF value.high = known.high THEN Tighten(f, t, Between(known.low, known.high - 1))
        ELSE f

Named(e) == e.op = "only" /\ e.l.by = 1 /\ e.l.of \in Terms

\* What one comparison is read for, in order.
Readings(c) ==
    IF c.op # "!=" THEN <<[for |-> "bound", of |-> c]>>
    ELSE (IF Named(c.l) THEN <<[for |-> "rule out", of |-> c]>> ELSE <<>>)
         \o (IF Named(c.r) THEN <<[for |-> "rule out", of |-> Flip(c)]>> ELSE <<>>)

Sensed(c, sense) == IF sense THEN c ELSE [c EXCEPT !.op = Negation[c.op]]

\* `and` holding means both sides hold, `or` failing means both fail; the
\* other two say nothing about either side.
Narrowing(condition, sense) ==
    IF Len(condition.parts) = 1 THEN Readings(Sensed(condition.parts[1], sense))
    ELSE IF condition.all # sense THEN <<>>
    ELSE Readings(Sensed(condition.parts[1], sense))
         \o Readings(Sensed(condition.parts[2], sense))

-----------------------------------------------------------------------------
(* A run *)

Stores == [Terms \union Fields -> -MaxValue .. MaxValue]

\* What the program computes is no further from zero than the width holds, from
\* any store, nor is the difference of two sides it compares.
Absolute(v) == IF v < 0 THEN -v ELSE v
Weight(e) == Absolute(e.l.by) + (IF e.op = "only" THEN 0 ELSE Absolute(e.r.by))
Scale == IF MaxValue = 0 THEN 1 ELSE MaxValue
Compact(c) == (Weight(c.l) + Weight(c.r)) * Scale <= MaxInt
Roomy ==
    /\ 2 * MaxValue <= MaxInt
    /\ \A e \in Values : Weight(e) * Scale <= MaxInt
    /\ \A c \in Conditions : \A i \in DOMAIN c.parts : Compact(c.parts[i])

\* An operation with no answer stops the run.
Fits(v) == v \in MinInt .. MaxInt
Operand(o, s) == o.by * (IF o.of = One THEN 1 ELSE s[o.of])
Value(e, s) ==
    CASE e.op = "only" -> Operand(e.l, s)
      [] e.op = "+" -> Operand(e.l, s) + Operand(e.r, s)
      [] e.op = "-" -> Operand(e.l, s) - Operand(e.r, s)
Computes(e, s) ==
    /\ Fits(Operand(e.l, s)) /\ (e.op # "only" => Fits(Operand(e.r, s)))
    /\ Fits(Value(e, s))

True(c, s) ==
    LET l == Value(c.l, s)
        r == Value(c.r, s)
    IN  CASE c.op = "<" -> l < r [] c.op = "<=" -> l <= r [] c.op = ">" -> l > r
          [] c.op = ">=" -> l >= r [] c.op = "==" -> l = r [] c.op = "!=" -> l # r
Decides(c, s) == Computes(c.l, s) /\ Computes(c.r, s)

\* The run gets past the condition finding it true, or false: a second side
\* is read only when the first one does not settle the condition.
Finds(condition, sense, s) ==
    LET c == condition.parts IN
    /\ Decides(c[1], s)
    /\ IF Len(c) = 1 THEN True(c[1], s) = sense
       ELSE IF True(c[1], s) # condition.all THEN sense = ~condition.all
       ELSE Decides(c[2], s) /\ True(c[2], s) = sense

Given(stores, condition, sense) == {s \in stores : Finds(condition, sense, s)}

Bind(stores, term, e, declared) ==
    {[s EXCEPT ![term] = Value(e, s)] :
        s \in {s \in stores :
                /\ Computes(e, s)
                /\ Within(Value(e, s), declared)
                /\ Value(e, s) \in -MaxValue .. MaxValue}}

-----------------------------------------------------------------------------

VARIABLES
    facts,      \* self.facts
    queue,      \* readings still to be taken of the conditions just met
    settle,     \* the round of settling under way, Still for none
    order,      \* the order the hash map lists its pairs in
    frames,     \* the branches and walks open, innermost last
    leaves,     \* the block being checked cannot be left at its end
    opening,    \* no statement was checked yet
    bound,      \* locals bound so far
    spent,      \* statements checked so far
    said,       \* the condition the facts were last narrowed by, and how
    reach       \* stores a run can have here

vars == <<facts, queue, settle, order, frames, leaves, opening, bound, spent, said, reach>>

Still == [round |-> 0]

\* One round: each difference against the two names in it and back, then every
\* two differences that share a name, from the pairs as the round found them.
Listed(f) ==
    LET kept == {i \in DOMAIN order : order[i] \in DOMAIN f.differences}
        nth(k) == CHOOSE i \in kept : Cardinality({j \in kept : j <= i}) = k
    IN  [k \in 1 .. Cardinality(kept) |-> order[nth(k)]]
Round(n, f) ==
    [round |-> n, entries |-> Listed(f), was |-> f.differences, at |-> 1, changed |-> FALSE]
Settling(f) == IF DOMAIN f.differences = {} THEN Still ELSE Round(1, f)

Tasks == LET m == Len(settle.entries) IN 3 * m + m * m

FromOne(f, p, kind) ==
    LET d == settle.was[p] IN
    CASE kind = 0 -> Tighten(f, p[1], Add(f.known[p[2]], d))
      [] kind = 1 -> Tighten(f, p[2], Add(f.known[p[1]], Spread(Exactly(0), d)))
      [] kind = 2 -> TightenDifference(f, p[1], p[2], Spread(f.known[p[1]], f.known[p[2]]))

\* As it would read if the shared name were not looked at.
FromTwoAny(f, p, q) ==
    IF p[1] # q[2]
    THEN TightenDifference(f, p[1], q[2], Add(settle.was[p], settle.was[q]))
    ELSE f

FromTwo(f, p, q) ==
    IF p[2] = q[1] /\ p[1] # q[2]
    THEN TightenDifference(f, p[1], q[2], Add(settle.was[p], settle.was[q]))
    ELSE f

Task(k) ==
    LET m == Len(settle.entries)
        j == k - 3 * m - 1
    IN  IF k <= 3 * m
        THEN FromOne(facts, settle.entries[(k - 1) \div 3 + 1], (k - 1) % 3)
        ELSE FromTwo(facts, settle.entries[j \div m + 1], settle.entries[(j % m) + 1])

\* The next entry that says something new.
Settle ==
    /\ settle # Still
    /\ \E k \in settle.at .. Tasks :
         /\ Task(k) # facts
         /\ \A j \in settle.at .. k - 1 : Task(j) = facts
         /\ facts' = Task(k)
         /\ settle' = [settle EXCEPT !.at = k + 1, !.changed = TRUE]
    /\ UNCHANGED <<queue, order, frames, leaves, opening, bound, spent, said, reach>>

EndRound ==
    /\ settle # Still
    /\ \A k \in settle.at .. Tasks : Task(k) = facts
    /\ settle' = IF settle.changed /\ settle.round < Rounds
                 THEN Round(settle.round + 1, facts) ELSE Still
    /\ UNCHANGED <<facts, queue, order, frames, leaves, opening, bound, spent, said, reach>>

Quiet == settle = Still /\ queue = <<>>

Read(f, reading) ==
    CASE reading.for = "bound" -> NarrowBound(f, reading.of)
      [] reading.for = "rule out" -> RuleOut(f, reading.of.l.l.of, RangeOf(reading.of.r, f))
      [] reading.for = "below" ->
           TightenDifference(f, reading.index, reading.length, Between(MinInt, -1))

\* What a name or a difference came to is settled with the rest; a total is not.
Narrow ==
    /\ settle = Still /\ queue # <<>> /\ Head(queue).for # "enter"
    /\ facts' = Read(facts, Head(queue))
    /\ queue' = Tail(queue)
    /\ settle' = IF facts'.known = facts.known /\ facts'.differences = facts.differences
                 THEN Still ELSE Settling(facts')
    /\ UNCHANGED <<order, frames, leaves, opening, bound, spent, said, reach>>

-----------------------------------------------------------------------------
(* Statements *)

Statement ==
    /\ Quiet /\ ~leaves /\ spent < MaxStatements
    /\ spent' = spent + 1 /\ opening' = FALSE

\* A name is read after it is bound.
Reads(e, names) == {e.l.of, e.r.of} \intersect Locals \subseteq names
Tests(condition, names) ==
    \A i \in DOMAIN condition.parts :
        Reads(condition.parts[i].l, names) /\ Reads(condition.parts[i].r, names)

\* A `where` clause: a call that breaks it does not enter the body.
Where(condition) ==
    /\ Quiet /\ opening /\ spent < MaxStatements /\ spent' = spent + 1
    /\ Tests(condition, bound)
    /\ queue' = Narrowing(condition, TRUE)
    /\ reach' = Given(reach, condition, TRUE)
    /\ said' = <<condition, TRUE>>
    /\ UNCHANGED <<facts, settle, order, frames, leaves, opening, bound>>

Take(term, e, declared) ==
    /\ facts' = Set(facts, term, Meet(RangeOf(e, facts), declared))
    /\ settle' = Settling(facts')
    /\ reach' = Bind(reach, term, e, declared)
    /\ said' = <<>>
    /\ UNCHANGED <<queue, order, frames, leaves>>

\* A value outside a declared type stops the run.
Let(n, e, declared) ==
    /\ Statement
    /\ Reads(e, bound)
    /\ n \notin bound /\ bound' = bound \union {n}
    /\ Take(n, e, declared)

InA(kind) == \E i \in DOMAIN frames : frames[i].kind = kind

\* In a walk the next turn would meet the state this one left: left out here.
Assign(x, e) ==
    /\ Statement
    /\ Reads(e, bound)
    /\ ~InA("walk")
    /\ InA("lone") => "assign under a lone if" \in Forms
    /\ Take(x, e, Refined[x])
    /\ UNCHANGED bound

Open(frame) == frames' = Append(frames, frame)
Top == frames[Len(frames)]
Below == SubSeq(frames, 1, Len(frames) - 1)

If(condition, kind) ==
    /\ Statement /\ Len(frames) < MaxNesting
    /\ Tests(condition, bound)
    /\ Open([kind |-> kind, outer |-> facts, condition |-> condition, leaves |-> leaves,
             skipped |-> Given(reach, condition, FALSE)])
    /\ queue' = Narrowing(condition, TRUE)
    /\ reach' = Given(reach, condition, TRUE)
    /\ said' = <<condition, TRUE>>
    /\ UNCHANGED <<facts, settle, order, leaves, bound>>

\* return, abandon: the rest of the block is not reached.
Leave ==
    /\ Statement
    /\ frames # <<>>
    /\ leaves' = TRUE
    /\ reach' = {}
    /\ said' = <<>>
    /\ UNCHANGED <<facts, queue, settle, order, frames, bound>>

Else ==
    /\ Quiet /\ frames # <<>> /\ Top.kind = "then"
    /\ frames' = Append(Below, [kind |-> "else", outer |-> facts, left |-> leaves,
                                leaves |-> Top.leaves, skipped |-> reach])
    /\ facts' = Top.outer
    /\ queue' = Narrowing(Top.condition, FALSE)
    /\ leaves' = FALSE
    /\ reach' = Top.skipped
    /\ said' = <<Top.condition, FALSE>>
    /\ UNCHANGED <<settle, order, opening, bound, spent>>

\* Only what both branches agree on survives, unless one cannot fall through.
\* An `if` at the end of a block leaves it when both branches leave.
EndElse(last) ==
    /\ Quiet /\ frames # <<>> /\ Top.kind = "else"
    /\ facts' = IF Top.left /\ ~leaves THEN facts
                ELSE IF leaves /\ ~Top.left THEN Top.outer
                ELSE JoinFacts(Top.outer, facts)
    /\ reach' = Top.skipped \union reach
    /\ leaves' = (Top.leaves \/ (last /\ Top.left /\ leaves))
    /\ frames' = Below
    /\ said' = <<>>
    /\ UNCHANGED <<queue, settle, order, opening, bound, spent>>

\* A guard that leaves settles the condition for what comes after it.
EndLone ==
    /\ Quiet /\ frames # <<>> /\ Top.kind = "lone"
    /\ facts' = Top.outer
    /\ queue' = IF leaves THEN Narrowing(Top.condition, FALSE) ELSE <<>>
    /\ said' = IF leaves THEN <<Top.condition, FALSE>> ELSE <<>>
    /\ reach' = Top.skipped \union reach
    /\ leaves' = Top.leaves
    /\ frames' = Below
    /\ UNCHANGED <<settle, order, opening, bound, spent>>

\* The stores of one turn, and of the turns before it that got that far.
Turns(stores, index, length, keep) ==
    LET at(s, i) == [s EXCEPT ![index] = i]
    IN  UNION {{at(s, i) : i \in {i \in 0 .. s[length] - 1 :
                    \A j \in 0 .. i : \A c \in keep : Finds(c, TRUE, at(s, j))}} : s \in stores}

\* `for x, index in list while keep`: the index is bound, and bounded by the
\* length, before what is known ahead of the walk is put aside.
Walk(index, length, keep) ==
    /\ Statement /\ Len(frames) < MaxNesting
    /\ index \notin bound /\ bound' = bound \union {index}
    /\ \A c \in keep : Tests(c, bound')
    /\ "walk an empty list" \in Forms \/ \A s \in reach : s[length] > 0
    /\ facts' = Set(facts, index, Between(0, MaxInt))
    /\ settle' = Settling(facts')
    /\ queue' = <<[for |-> "below", index |-> index, length |-> length],
                  [for |-> "enter", keep |-> keep, skipped |-> reach]>>
    /\ reach' = Turns(reach, index, length, keep)
    /\ said' = <<>>
    /\ UNCHANGED <<order, frames, leaves>>

Enter ==
    /\ settle = Still /\ queue # <<>> /\ Head(queue).for = "enter"
    /\ Open([kind |-> "walk", outer |-> facts, leaves |-> leaves, skipped |-> Head(queue).skipped])
    /\ IF Head(queue).keep = {} THEN queue' = <<>>
       ELSE \E c \in Head(queue).keep : queue' = Narrowing(c, TRUE)
    /\ UNCHANGED <<facts, settle, order, leaves, opening, bound, spent, said, reach>>

\* The body may run no times at all.
EndWalk ==
    /\ Quiet /\ frames # <<>> /\ Top.kind = "walk"
    /\ facts' = JoinFacts(Top.outer, facts)
    /\ reach' = Top.skipped \union reach
    /\ leaves' = Top.leaves
    /\ frames' = Below
    /\ said' = <<>>
    /\ UNCHANGED <<queue, settle, order, opening, bound, spent>>

-----------------------------------------------------------------------------

Init ==
    /\ facts = [Nothing EXCEPT !.known =
                  [t \in Terms |-> IF t \in Params \union Lengths
                                   THEN Meet(Unbound(t), Refined[t]) ELSE Unbound(t)]]
    /\ reach = {s \in Stores :
                  \A t \in Terms \union Fields :
                      IF t \in Locals THEN s[t] = 0
                      ELSE Within(s[t], Refined[t]) /\ (t \in Lengths => s[t] >= 0)}
    /\ order \in Orders
    /\ queue = <<>> /\ settle = Still /\ frames = <<>> /\ leaves = FALSE
    /\ opening = TRUE /\ bound = {} /\ spent = 0 /\ said = <<>>

Check ==
    \/ \E c \in Conditions : Where(c) \/ \E kind \in {"lone", "then"} : If(c, kind)
    \/ \E e \in Values :
         \/ \E n \in Locals, d \in Declarations : Let(n, e, d)
         \/ \E x \in State : Assign(x, e)
    \/ \E n \in Locals, l \in Lengths, c \in Conditions \union {<<>>} :
         Walk(n, l, IF c = <<>> THEN {} ELSE {c})
    \/ Leave \/ Else \/ EndLone \/ EndWalk \/ \E last \in BOOLEAN : EndElse(last)

Next == Settle \/ EndRound \/ Narrow \/ Enter \/ Check

Spec == Init /\ [][Next]_vars

-----------------------------------------------------------------------------

Admits(f, s) ==
    /\ \A t \in Terms : Within(s[t], f.known[t])
    /\ \A p \in DOMAIN f.differences : Within(s[p[1]] - s[p[2]], f.differences[p])
    /\ \A p \in Pairs : Within(s[p[1]] + s[p[2]], f.totals[{p[1], p[2]}])

\* Every variable keeps its shape, no range is inverted other than the empty
\* one, and nothing is recorded about the difference of a name and itself
\* (facts.rs Range, Facts).
TypeOK ==
    /\ DOMAIN facts.known = Terms /\ \A t \in Terms : IsRange(facts.known[t])
    /\ DOMAIN facts.differences \subseteq Pairs
    /\ \A p \in DOMAIN facts.differences : IsRange(facts.differences[p])
    /\ DOMAIN facts.totals = Couples /\ \A c \in Couples : IsRange(facts.totals[c])
    /\ settle = Still \/ (settle.round \in 1 .. Rounds /\ settle.at \in 1 .. Tasks + 1)
    /\ leaves \in BOOLEAN /\ opening \in BOOLEAN
    /\ bound \subseteq Locals /\ spent \in 0 .. MaxStatements
    /\ Len(frames) <= MaxNesting
    /\ reach \subseteq Stores

\* What is known holds of every run that gets here, settled or not yet.
FactsHold == \A s \in reach : Admits(facts, s)

\* A proof is never wrong: no run that gets here finds false what is answered
\* "always", or true what is answered "never" (facts.rs:30, "the answer is
\* always 'not proven', never a wrong answer").
ProvenIsTrue ==
    Quiet => \A c \in Conditions :
        /\ Holds(c, facts) = "always" => Given(reach, c, FALSE) = {}
        /\ Holds(c, facts) = "never" => Given(reach, c, TRUE) = {}

\* A bound the facts have a place for: on one name, a difference or a total,
\* that far from a number.
Kept(c) ==
    /\ c.op # "!=" /\ Form(c).offset.low = Form(c).offset.high
    /\ Counted(Form(c)) # {}

=============================================================================
