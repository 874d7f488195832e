------------------------------ MODULE Rendering ------------------------------
(***************************************************************************)
(* The printer of expressions, statements and comments.  A tree has no      *)
(* comments: they are put back by place.  It has no parentheses either:     *)
(* they are worked out from precedence.  Rendering is bottom up into        *)
(* buffers of words; `s` is what the printer carries through it: the text   *)
(* it reads comments from, the next comment and where the last thing        *)
(* printed ended in that text.                                              *)
(***************************************************************************)
EXTENDS Declarations

CONSTANT Width   \* how many words a line holds, a level of indent counting one

-----------------------------------------------------------------------------
(***************************************************************************)
(* Comments and blank lines.                                                *)
(***************************************************************************)
Lines(s, i) == Cardinality({j \in s.last + 1 .. i - 1 : s.text[j] = EOL})
OnSameLineAsPrevious(s, i) == s.last > 0 /\ i > s.last /\ Lines(s, i) = 0
BlankLineBefore(s, i) == i > s.last /\ Lines(s, i) >= 2
EndsWith(buffer, words) == IsSuffix(words, buffer)
BlankLine(buffer) ==
    IF buffer # <<>> /\ ~EndsWith(buffer, <<EOL, EOL>>) THEN Append(buffer, EOL) ELSE buffer

RECURSIVE WithoutEnd(_)
WithoutEnd(buffer) == IF EndsWith(buffer, <<EOL>>) THEN WithoutEnd(Front(buffer)) ELSE buffer

Comment(s) == Trivia(s.text)[s.next]
HasCommentsBefore(s, offset) == s.next <= Len(Trivia(s.text)) /\ Comment(s) < offset

Out(buffer, s) == [out |-> buffer, s |-> s]
\* As it would read if what was printed were not taken note of.
EndedAtNothing(s, i) == s
EndedAt(s, i) == [s EXCEPT !.last = i]

\* Every comment before `offset`: at the end of its line, or on one of its own.
RECURSIVE CommentsInto(_, _, _)
CommentsInto(buffer, offset, s) ==
    IF ~HasCommentsBefore(s, offset) THEN Out(buffer, s)
    ELSE LET i == Comment(s)
             ready == IF OnSameLineAsPrevious(s, i) THEN WithoutEnd(buffer)
                       ELSE IF BlankLineBefore(s, i) THEN BlankLine(buffer) ELSE buffer
         IN  CommentsInto(ready \o <<s.text[i], EOL>>, offset, [s EXCEPT !.next = @ + 1, !.last = i])

-----------------------------------------------------------------------------
(***************************************************************************)
(* Expressions.  `in` is the indent, `pending` the words already on the     *)
(* line.                                                                    *)
(***************************************************************************)
RECURSIVE Render(_, _, _, _), LinesInto(_, _, _, _)

Fits(out, in, pending) == EOL \notin Range(out) /\ in + pending + Len(out) <= Width
Bracketed(r, needs) == IF needs THEN Out(<<"(">> \o r.out \o <<")">>, r.s) ELSE r
Then(r, words) == Out(r.out \o words, r.s)
Before(words, r) == Out(words \o r.out, r.s)

\* One after the other, each with the comments the ones before it left.
RECURSIVE Each(_, _, _, _, _)
Each(parts, after, sofar, in, pending) ==
    IF parts = <<>> THEN sofar
    ELSE LET r == Render(Head(parts), sofar.s, in, pending)
         IN  Each(Tail(parts), after, Out(sofar.out \o r.out \o after, r.s), in, pending)
WithoutLast(r) == Out(Front(r.out), r.s)
Joined(parts, s, in, pending) == WithoutLast(Each(parts, <<",">>, Out(<<>>, s), in, pending))

Precedence == Binding
\* As it would read if both sides of an operator could hold one as loose.
OperandEither(e, parent, isRight, s, in, pending) ==
    Bracketed(Render(e, s, in, pending),
        IF e.kind = "binary" THEN Precedence[e.op] < Precedence[parent]
        ELSE e.kind \in {"if", "match", "with", "closure"})
Operand(e, parent, isRight, s, in, pending) ==
    Bracketed(Render(e, s, in, pending),
        IF e.kind = "binary" THEN \/ Precedence[e.op] < Precedence[parent]
                                  \/ Precedence[e.op] = Precedence[parent] /\ isRight
        ELSE e.kind \in {"if", "match", "with", "closure"})

PostfixBase(e, s, in, pending) ==
    Bracketed(Render(e, s, in, pending), e.kind \in {"binary", "unary", "if", "match", "with", "closure"})

\* A list that does not fit is rendered again, an element to a line.
Broken(open, parts, close, s, in) ==
    Then(Each(parts, <<",", EOL>>, Out(Append(open, EOL), s), in + 1, 0), close)
OrBroken(open, parts, close, r, in, pending) ==
    IF Fits(open \o r.out \o close, in, pending) THEN Before(open, Then(r, close))
    ELSE Broken(open, parts, close, r.s, in)
Listed(base, open, parts, close, in, pending) ==
    IF parts = <<>> THEN Then(base, <<open, close>>)
    ELSE OrBroken(Append(base.out, open), parts, <<close>>, Joined(parts, base.s, in, pending), in, pending)

OneArgument(callee, arg, in, pending) ==
    Then(Before(Append(callee.out, "("), Render(arg, callee.s, in, pending + Len(callee.out) + 1)), <<")">>)
CallOf(callee, args, in, pending) ==
    IF Len(args) = 1 THEN OneArgument(callee, args[1], in, pending)
    ELSE Listed(callee, "(", args, ")", in, pending)
Call(e, s, in, pending) == CallOf(PostfixBase(e.parts[1], s, in, pending), Tail(e.parts), in, pending)
Literal(e, s, in, pending) ==
    Listed(PostfixBase(e.parts[1], s, in, pending), "{", Tail(e.parts), "}", in, pending)

Entry(e, s, in, pending) ==
    IF e.parts = <<>> THEN Out(<<e.op>>, s)
    ELSE Before(<<e.op, ":">>, Render(e.parts[1], s, in, pending))

UnaryText(e, s, in, pending) ==
    Before(<<e.op>>, Bracketed(Render(e.parts[1], s, in, pending), e.parts[1].kind \in {"binary", "try"}))

After(r, next) == Before(r.out, next)
BinaryTo(e, lhs, in, pending) == After(lhs, Operand(e.parts[2], e.op, TRUE, lhs.s, in, pending))
BinaryText(e, s, in, pending) ==
    BinaryTo(e, Then(Operand(e.parts[1], e.op, FALSE, s, in, pending), <<e.op>>), in, pending)

\* The condition, the block, and what comes after `else`.
ElseText(head, e, in, pending) ==
    IF Len(e.parts) = 2 THEN head ELSE Each(<<e.parts[3]>>, <<>>, Then(head, <<"else">>), in, pending)
IfText(e, s, in, pending) ==
    ElseText(Each(SubSeq(e.parts, 1, 2), <<>>, Out(<<"if">>, s), in, pending), e, in, pending)

MatchText(e, s, in, pending) ==
    Then(LinesInto(Before(<<"match">>, Then(Render(e.parts[1], s, in, pending), <<"{", EOL>>)),
                   Tail(e.parts), in + 1, pending), <<"}">>)

Accumulate(e, s, in, pending) == Before(<<"with", e.op, "=">>, Render(e.parts[1], s, in, pending))
ForText(e, s, in, pending) ==
    Each(e.parts, <<>>, Out(<<"for", e.op, "in">>, s), in, pending)

\* A handler that had to break ends in a brace, and a second one goes below it.
WithBelow(head, block, in, pending) ==
    After(IF EOL \in Range(head.out) THEN Then(head, <<EOL>>) ELSE head, Render(block, head.s, in, pending))
WithText(e, s, in, pending) ==
    WithBelow(Before(<<"with">>, Joined(Front(e.parts), s, in, pending)), Last(e.parts), in, pending)

-----------------------------------------------------------------------------
(***************************************************************************)
(* Statements, blocks and the file.                                         *)
(***************************************************************************)
StmtText(t, s, in, pending) ==
    LET Prefixed(words) == Before(words, Render(t.parts[1], s, in, pending + Len(words)))
    IN  CASE t.kind = "let"    -> Prefixed(<<"let", t.op, "=">>)
          [] t.kind = "assign" -> Prefixed(<<t.op, "=">>)
          [] t.kind = "assert" -> Prefixed(<<"assert">>)
          [] t.kind = "refuses" -> Prefixed(<<"assert", "refuses">>)
          [] t.kind = "abandon" -> Out(<<"abandon">>, s)
          [] t.kind = "return" -> IF t.parts = <<>> THEN Out(<<"return">>, s) ELSE Prefixed(<<"return">>)
          [] t.kind = "tail"   -> Render(t.parts[1], s, in, pending)
          [] OTHER             -> Render(t, s, in, pending)

\* A statement or an arm on lines of its own, below the comments before it; a
\* blank line above a statement is kept, unless the block begins there.
Gap(c, t) == t.kind # "arm" /\ BlankLineBefore(c.s, t.from) /\ ~EndsWith(c.out, <<"{", EOL>>)
Spaced(c, t) == IF Gap(c, t) THEN Out(BlankLine(c.out), c.s) ELSE c
Below(c, r, t) == Out(c.out \o r.out \o <<EOL>>, EndedAt(r.s, t.to))
LineInto(sofar, t, in, pending) ==
    LET c == Spaced(CommentsInto(sofar.out, t.from, sofar.s), t)
    IN  Below(c, StmtText(t, c.s, in, pending), t)
LinesInto(sofar, stmts, in, pending) ==
    IF stmts = <<>> THEN sofar
    ELSE LinesInto(LineInto(sofar, Head(stmts), in, pending), Tail(stmts), in, pending)
CommentsLeft(b, offset) == CommentsInto(b.out, offset, b.s)
BlockLines(b, s, in, pending) == LinesInto(Out(<<"{", EOL>>, EndedAt(s, b.from)), b.parts, in + 1, pending)

\* As it would read if a comment that ends a block were left to what follows.
RenderedBlockOpen(b, s, in, pending) ==
    IF b.parts = <<>> /\ ~HasCommentsBefore(s, b.to) THEN Out(<<"{", "}">>, s)
    ELSE Then(BlockLines(b, s, in, pending), <<"}">>)
RenderedBlock(b, s, in, pending) ==
    IF b.parts = <<>> /\ ~HasCommentsBefore(s, b.to) THEN Out(<<"{", "}">>, s)
    ELSE Then(CommentsLeft(BlockLines(b, s, in, pending), b.to), <<"}">>)

Render(e, s, in, pending) ==
    CASE e.kind = "name"    -> Out(<<e.op>>, s)
      [] e.kind = "least"   -> Out(<<"-", LIMIT>>, s)
      [] e.kind = "field"   -> Then(PostfixBase(e.parts[1], s, in, pending), <<e.op>>)
      [] e.kind = "try"     -> Then(PostfixBase(e.parts[1], s, in, pending), <<"?">>)
      [] e.kind = "call"    -> Call(e, s, in, pending)
      [] e.kind = "list"    -> Listed(Out(<<>>, s), "[", e.parts, "]", in, pending)
      [] e.kind = "literal" -> Literal(e, s, in, pending)
      [] e.kind = "entry"   -> Entry(e, s, in, pending)
      [] e.kind = "unary"   -> UnaryText(e, s, in, pending)
      [] e.kind = "binary"  -> BinaryText(e, s, in, pending)
      [] e.kind = "if"      -> IfText(e, s, in, pending)
      [] e.kind = "match"   -> MatchText(e, s, in, pending)
      [] e.kind = "arm"     -> Before(<<e.op, "=>">>, Then(Render(e.parts[1], s, in, pending), <<",">>))
      [] e.kind = "ensures" -> Before(<<e.op, "=>">>, Render(e.parts[1], s, in, pending))
      [] e.kind = "for"     -> ForText(e, s, in, pending)
      [] e.kind = "accumulate" -> Accumulate(e, s, in, pending)
      [] e.kind = "while"   -> Before(<<"while">>, Render(e.parts[1], s, in, pending))
      [] e.kind = "with"    -> WithText(e, s, in, pending)
      [] e.kind = "block"   -> RenderedBlock(e, s, in, pending)
      [] e.kind = "closure" -> Before(<<"||">>, Render(e.parts[1], s, in, pending))

=============================================================================
