----------------------------- MODULE Formatting -----------------------------
(***************************************************************************)
(* `deed fmt`: a file that parses is written again from its tree, one       *)
(* declaration after the other, and the comments go where they were.        *)
(***************************************************************************)
EXTENDS Rendering

CONSTANT Sources   \* the files

VARIABLES
    file,      \* what the file holds
    tree,      \* what that means
    before,    \* what it held before it was last formatted
    meant,     \* and meant
    times      \* how often it was, up to twice

vars == <<file, tree, before, meant, times>>

-----------------------------------------------------------------------------
Above(b, i) == CommentsInto(b.out, i, b.s)
Spread(b) == Out(BlankLine(b.out), b.s)
Ended(b, i) == Out(b.out, EndedAt(b.s, i))
Line(b, words) == Then(b, words \o <<EOL>>)
Words(parts) == FlattenSeq([i \in DOMAIN parts |->
    (IF i = 1 THEN <<>> ELSE <<",">>) \o <<parts[i].op>>
        \o (IF parts[i].parts = <<>> THEN <<>> ELSE <<":", parts[i].parts[1].op>>)])

\* A signature is on one line, or what it returns is on the next, or its
\* parameters have one each as well.
Params(sig) == SelectSeq(sig.parts, LAMBDA p : p.kind # "ret")
Returned(sig) == LET r == SelectSeq(sig.parts, LAMBDA p : p.kind = "ret")
                 IN  IF r = <<>> THEN <<>> ELSE <<"->", r[1].op>>
Heading(sig, params) == <<"fn", sig.op, "(">> \o params \o <<")">>
SignatureLine(sig) == Heading(sig, Words(Params(sig))) \o Returned(sig)
Signature(sig, in) ==
    LET head == Heading(sig, Words(Params(sig)))
        broken == Heading(sig, <<EOL>> \o FlattenSeq([i \in DOMAIN Params(sig) |->
                                                       Words(<<Params(sig)[i]>>) \o <<",", EOL>>]))
    IN  IF in + Len(SignatureLine(sig)) <= Width THEN SignatureLine(sig)
        ELSE (IF in + Len(head) <= Width THEN head ELSE broken)
             \o (IF Returned(sig) = <<>> THEN <<>> ELSE <<EOL>> \o Returned(sig))

\* A clause of the contract, a condition to a line.
ClauseInto(b, clause, in) ==
    IF clause.parts = <<>> THEN b
    ELSE Each(clause.parts, <<",", EOL>>, Then(b, <<clause.kind, EOL>>), in, 0)

\* A word or more before a block, and the end of the line after it.
BlockInto(b, block, in) == Line(Before(b.out, RenderedBlock(block, b.s, in, 0)), <<>>)

\* A signature that wraps has its brace on the next line.
ContractInto(b, clauses, in) ==
    ClauseInto(ClauseInto(ClauseInto(b, clauses[1], in), clauses[2], in), clauses[3], in)
Wraps(sig, clauses) == EOL \in Range(sig) \/ \E i \in DOMAIN clauses : clauses[i].parts # <<>>
HeadInto(b, sig, clauses, in) ==
    ContractInto(Then(b, IF Wraps(sig, clauses) THEN Append(sig, EOL) ELSE sig), clauses, in)
Function(b, t, in) ==
    BlockInto(HeadInto(b, Signature(t.parts[1], in), SubSeq(t.parts, 2, 4), in), t.parts[5], in)

\* What a declaration is on its first line, where it is not more than that,
\* and what it holds.
Opening(t) ==
    CASE t.kind = "use"     -> <<"use", t.op, ".", "{">> \o Words(t.parts) \o <<"}">>
      [] t.kind = "deprecated" -> <<"deprecated", t.op, "->", t.parts[1].op>>
      [] t.kind = "type"    -> <<"type", t.op, "=", t.parts[1].op>>
      [] t.kind = "handler" -> <<"handler", t.op, "implements", t.parts[1].op>>
      [] t.kind = "entry"   -> Words(<<t>>) \o <<",">>
      [] t.kind = "variant" -> <<t.op, ",">>
      [] t.kind = "fields"  -> <<t.op, "{">> \o Words(t.parts) \o <<"}", ",">>
      [] t.kind = "sig"     -> SignatureLine(t)
      [] t.kind = "state"   -> <<"state">> \o Words(t.parts)
      [] OTHER              -> <<t.kind, t.op>>
Held(t) == IF t.kind = "handler" THEN Tail(t.parts) ELSE t.parts
OnOneLine(t) == t.kind \in {"record", "choice"} /\ t.parts = <<>>

RECURSIVE ItemsInto(_, _, _)
Enclosing(b, t, in) ==
    IF OnOneLine(t) THEN Line(b, Opening(t) \o <<"{", "}">>)
    ELSE Line(ItemsInto(Line(b, Append(Opening(t), "{")), Held(t), in + 1), <<"}">>)
Refinement(b, condition, in) == Line(Before(b.out, Render(condition, b.s, in, 0)), <<>>)

\* `b` is what is above the declaration; its comments are.
ItemText(b, t, in) ==
    CASE t.kind \in {"record", "choice", "effect", "handler"} -> Enclosing(b, t, in)
      [] t.kind = "type" /\ Len(t.parts) = 2 -> Refinement(Then(b, Append(Opening(t), "where")), t.parts[2], in)
      [] t.kind = "fn"                       -> Function(b, t, in)
      [] t.kind \in {"test", "finally"}      -> BlockInto(Then(b, <<t.kind>>), t.parts[1], in)
      [] OTHER                               -> Line(b, Opening(t))

\* A blank line above it, then the comments; at the top of a file a comment
\* with a blank line below it keeps that one too.
Together == {"entry", "variant", "fields", "sig", "state"}
Apart(b, i, may) == IF may /\ BlankLineBefore(b.s, i) THEN Spread(b) ELSE b
ItemInto(b, t, in) ==
    LET above == Above(IF t.kind \in Together THEN b ELSE Spread(b), t.from)
    IN  Ended(ItemText(Apart(above, t.from, in = 0 /\ t.kind # "use"), t, in), t.to)
ItemsInto(b, members, in) ==
    IF members = <<>> THEN b ELSE ItemsInto(ItemInto(b, Head(members), in), Tail(members), in)

Header(b, name) == Ended(Line(Apart(Above(b, name.from), name.from, TRUE), <<"module", name.op>>), name.to)
Module(text, root) ==
    LET start == Out(<<>>, [text |-> text, next |-> 1, last |-> 0])
        all == Above(ItemsInto(Header(start, root.parts[1]), Tail(root.parts), 0), Len(text) + 1)
    IN  Append(WithoutEnd(all.out), EOL)

-----------------------------------------------------------------------------
Init ==
    /\ file \in Sources /\ before = file
    /\ tree = Parse(file) /\ meant = tree
    /\ times = 0

\* A file that does not parse is left alone.
Fmt ==
    /\ times < 2 /\ times' = times + 1
    /\ file' = (IF tree.kind = "module" THEN Module(file, tree) ELSE file)
    /\ tree' = Parse(file')
    /\ before' = file /\ meant' = tree

Next == Fmt
Spec == Init /\ [][Next]_vars

-----------------------------------------------------------------------------
Remarks(text) == SelectSeq(text, LAMBDA word : word \in Comments)

\* What comes out means what went in: it parses, to the same tree, whatever
\* parentheses, separators and line breaks the file was written with.
MeaningKept == Shape(tree) = Shape(meant)

\* Every comment is in the file once, in the order they were written, and none
\* leaves a block it was written in.
RECURSIVE Blocks(_)
Blocks(t) == (IF t.kind = "block" THEN {<<t.from, t.to>>} ELSE {})
             \cup UNION {Blocks(t.parts[i]) : i \in DOMAIN t.parts}
Depth(place, blocks) == Cardinality({b \in blocks : b[1] < place /\ place < b[2]})
AsDeep(places, blocks, places0, blocks0) ==
    \A n \in DOMAIN places0 : Depth(places[n], blocks) >= Depth(places0[n], blocks0)
CommentsKept ==
    /\ Remarks(file) = Remarks(before)
    /\ AsDeep(Trivia(file), Blocks(tree), Trivia(before), Blocks(meant))

\* There is one way to write a file: formatting it again changes nothing.
FormattedStays == times = 2 => file = before

=============================================================================
