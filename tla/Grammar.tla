------------------------------ MODULE Grammar ------------------------------
(***************************************************************************)
(* The parser of Deed's expressions and statements.  A text is a sequence   *)
(* of words, ends of line among them; statements are separated by nothing,  *)
(* so what ends one is a word that cannot go on with it, or a new line.  An *)
(* opening brace starts a literal or a block by where it stands: the parser *)
(* carries what it may be down, and puts it back on the way up.             *)
(*                                                                          *)
(* A tree is [kind, op, parts, from, to]: the places in the text of its     *)
(* first and last word, parentheses left out as the parser leaves them.     *)
(* What the parser does after an error is left out: a text with an error is *)
(* lost, and no tool that asks for the tree goes on with it.                *)
(***************************************************************************)
EXTENDS Integers, SequencesExt

CONSTANTS
    Names,      \* identifiers
    Fields,     \* `.name`, a dot and an identifier on one line
    Comments    \* line comments

EOL == "eol"
LIMIT == "9223372036854775808"   \* one past the largest Int

Binding == [o \in {"||", "&&", "==", "<", "-", "*"} |->
    CASE o = "||" -> 1 [] o = "&&" -> 2 [] o \in {"==", "<"} -> 3
      [] o = "-" -> 4 [] o = "*" -> 5]

Node(kind, op, parts, from, to) ==
    [kind |-> kind, op |-> op, parts |-> parts, from |-> from, to |-> to]

\* The tree without its places: what two texts have in common that mean the same.
RECURSIVE Shape(_)
Shape(t) == [kind |-> t.kind, op |-> t.op,
             parts |-> [i \in DOMAIN t.parts |-> Shape(t.parts[i])]]

-----------------------------------------------------------------------------
Trivia(text) == SelectSeq([i \in DOMAIN text |-> i], LAMBDA i : text[i] \in Comments)

\* The words that are not trivia, each with whether a line ended before it.
Tokenize(text) ==
    LET words == SelectSeq([i \in DOMAIN text |-> i],
                           LAMBDA i : text[i] \notin Comments \cup {EOL})
        since(n) == IF n = 1 THEN 1 ELSE words[n - 1]
    IN  [n \in DOMAIN words |->
            [is |-> text[words[n]], at |-> words[n],
             startsLine |-> \E j \in since(n)..words[n] : text[j] = EOL]]

Lost(ts) == Len(ts) + 2
Word(ts, i) == IF i <= Len(ts) THEN ts[i].is ELSE IF i < Lost(ts) THEN "end" ELSE "lost"
At(ts, i) == IF i <= Len(ts) THEN ts[i].at ELSE 0
ContinuesANewLine(ts, i) == i <= Len(ts) => ts[i].startsLine
Expect(ts, i, word) == IF Word(ts, i) = word THEN i + 1 ELSE Lost(ts)
ExpectName(ts, i) == IF Word(ts, i) \in Names THEN i + 1 ELSE Lost(ts)

Read(next, tree) == [next |-> next, tree |-> tree]
Failed(ts, i) == Read(Lost(ts), Node("error", "", <<>>, At(ts, i), At(ts, i)))

\* What has been read of something so far, its parts and where to go on; and
\* the whole of it, over one part or between its first and last word.
Alone(r) == Read(r.next, <<r.tree>>)
Adding(parts, r) == Read(r.next, Append(parts, r.tree))
Joining(head, r) == Read(r.next, head.tree \o r.tree)
Over(ts, i, kind, op, r) == Read(r.next, Node(kind, op, <<r.tree>>, At(ts, i), r.tree.to))
Made(ts, i, kind, op, r) == Read(r.next, Node(kind, op, r.tree, At(ts, i), At(ts, r.next - 1)))

\* `allow`, `deny`, or `colon`: only where the next words can be nothing else.
StructLitAllowed(ts, i, mode) ==
    \/ mode = "allow"
    \/ mode = "colon" /\ \/ Word(ts, i + 1) \in Names /\ Word(ts, i + 2) = ":"
                         \/ Word(ts, i + 1) = "}" /\ Word(ts, i + 2) = "{"

\* What begins at a place: an expression, one without an infix operator, a
\* block, or a list of some kind.
RECURSIVE Parsed(_, _, _, _)
Expr(ts, i, mode) == Parsed(ts, i, "expr", mode)
Unary(ts, i, mode) == Parsed(ts, i, "unary", mode)
Block(ts, i) == Parsed(ts, i, "block", "allow")
Several(ts, i, what) == Parsed(ts, i, what, "list")
ClosedBy(ts, all, closer) == Read(Expect(ts, all.next, closer), all.tree)
Items(ts, i, closer, what) == ClosedBy(ts, Several(ts, i, what), closer)

Joint(op, l, r) == Read(r.next, Node("binary", op, <<l.tree, r.tree>>, l.tree.from, r.tree.to))
RECURSIVE Infix(_, _, _, _)
Infix(ts, l, mode, least) ==
    LET op == Word(ts, l.next)
    IN  IF op \notin DOMAIN Binding THEN l
        ELSE IF Binding[op] < least \/ ContinuesANewLine(ts, l.next) THEN l
        ELSE Infix(ts, Joint(op, l, Infix(ts, Unary(ts, l.next + 1, mode), mode, Binding[op] + 1)),
                   mode, least)

Of(ts, base, kind, op, more) ==
    Read(more.next, Node(kind, op, <<base.tree>> \o more.tree, base.tree.from, At(ts, more.next - 1)))
RECURSIVE Postfix(_, _, _)
Postfix(ts, r, mode) ==
    LET i == r.next
        word == Word(ts, i)
    IN  IF ContinuesANewLine(ts, i) THEN r
        ELSE IF word \in Fields THEN Postfix(ts, Of(ts, r, "field", word, Read(i + 1, <<>>)), mode)
        ELSE IF word = "?" THEN Postfix(ts, Of(ts, r, "try", "", Read(i + 1, <<>>)), mode)
        ELSE IF word = "(" THEN Postfix(ts, Of(ts, r, "call", "", Items(ts, i + 1, ")", "argument")), mode)
        ELSE IF word = "{" /\ StructLitAllowed(ts, i, mode)
        THEN Postfix(ts, Of(ts, r, "literal", "", Items(ts, i + 1, "}", "entry")), mode)
        ELSE r

-----------------------------------------------------------------------------
(***************************************************************************)
(* Lists: of arguments and elements, handlers, entries of a literal, arms,  *)
(* and in declarations of fields, parameters, variants and conditions.      *)
(***************************************************************************)
Named(ts, i) == Read(ExpectName(ts, i), Node("name", Word(ts, i), <<>>, At(ts, i), At(ts, i)))
Labelled(ts, i, kind, r) == Read(r.next, Node(kind, Word(ts, i), <<r.tree>>, At(ts, i), r.tree.to))
Short(ts, i, kind) == Read(ExpectName(ts, i), Node(kind, Word(ts, i), <<>>, At(ts, i), At(ts, i)))

\* `name: Type`, and where the type may be left out, `name`.
Typed(ts, i, mayLeaveOut) ==
    IF Word(ts, i) \in Names /\ Word(ts, i + 1) = ":" THEN Labelled(ts, i, "entry", Named(ts, i + 2))
    ELSE IF mayLeaveOut THEN Short(ts, i, "entry")
    ELSE Failed(ts, i)
Variant(ts, i) ==
    IF Word(ts, i) \in Names /\ Word(ts, i + 1) = "{"
    THEN Made(ts, i, "fields", Word(ts, i), Items(ts, i + 2, "}", "typed"))
    ELSE Short(ts, i, "variant")

\* A literal may open in one, and what it has in front of it.
OpensIn == [argument |-> "allow", handler |-> "colon", entry |-> "allow", arm |-> "allow",
            where |-> "deny", ensures |-> "deny"]
InFrontOf == [entry |-> ":", arm |-> "=>", ensures |-> "=>"]
Labels(what) == IF what = "ensures" THEN {"ok", "err"} ELSE Names
Item(ts, i, what) ==
    CASE what = "uses"    -> Named(ts, i)
      [] what = "typed"   -> Typed(ts, i, FALSE)
      [] what = "param"   -> Typed(ts, i, TRUE)
      [] what = "variant" -> Variant(ts, i)
      [] what = "entry" /\ Word(ts, i + 1) # ":" -> Short(ts, i, "entry")
      [] what \in DOMAIN InFrontOf /\ Word(ts, i) \notin Labels(what) -> Failed(ts, i)
      [] OTHER ->
            LET labelled == what \in DOMAIN InFrontOf
                r == Expr(ts, IF labelled THEN Expect(ts, i + 1, InFrontOf[what]) ELSE i, OpensIn[what])
            IN  IF labelled THEN Labelled(ts, i, what, r) ELSE r

\* They are separated by commas; one after the last is allowed.  What ends them
\* cannot begin one.
Ends(what) == CASE what = "argument" -> {")", "]", "end"}
                [] what \in {"where", "uses", "ensures"} -> {"where", "uses", "ensures", "{", "}", "end"}
                [] what = "handler" -> {"{", "end"}
                [] OTHER -> {")", "}", "end"}
RECURSIVE ListFrom(_, _, _, _)
AndMore(ts, one, what, sofar) ==
    IF Word(ts, one.next) = "," THEN ListFrom(ts, one.next + 1, what, Append(sofar, one.tree))
    ELSE Read(one.next, Append(sofar, one.tree))
ListFrom(ts, i, what, sofar) ==
    IF Word(ts, i) \in Ends(what) THEN Read(i, sofar)
    ELSE AndMore(ts, Item(ts, i, what), what, sofar)

-----------------------------------------------------------------------------
(***************************************************************************)
(* Statements and blocks.                                                   *)
(***************************************************************************)
\* `refuses` is a name like any other unless another comes after it.
Refuses(ts, i) == Word(ts, i) = "assert" /\ Word(ts, i + 1) = "refuses" /\ Word(ts, i + 2) \in Names
Assigned(ts, i) == Word(ts, i) \in Names /\ Word(ts, i + 1) = "="

\* What the value of a statement comes after.
ValueAt(ts, i) == IF Word(ts, i) = "let" THEN Expect(ts, ExpectName(ts, i + 1), "=")
                  ELSE IF Refuses(ts, i) THEN i + 2
                  ELSE IF Word(ts, i) \in {"return", "assert"} THEN i + 1
                  ELSE IF Assigned(ts, i) THEN i + 2 ELSE i
Stmt(ts, i) ==
    IF \/ Word(ts, i) = "abandon"
       \/ Word(ts, i) = "return" /\ Word(ts, i + 1) \in {"}", ";"}
    THEN Read(i + 1, Node(Word(ts, i), "", <<>>, At(ts, i), At(ts, i)))
    ELSE LET value == Expr(ts, ValueAt(ts, i), "allow")
         IN  CASE Word(ts, i) = "let" -> Over(ts, i, "let", Word(ts, i + 1), value)
               [] Refuses(ts, i) -> Over(ts, i, "refuses", "", value)
               [] Word(ts, i) \in {"return", "assert"} /\ ~Refuses(ts, i) -> Over(ts, i, Word(ts, i), "", value)
               [] Assigned(ts, i) -> Over(ts, i, "assign", Word(ts, i), value)
               [] OTHER -> value

IsStmt(t) == t.kind \in {"let", "return", "abandon", "assert", "refuses", "assign"}
Tailed(t) == Node("tail", "", <<t>>, t.from, t.to)

\* An expression with nothing after it is the block's value.
RECURSIVE Statements(_, _, _)
AndThen(ts, one, next, sofar) ==
    IF ~IsStmt(one.tree) /\ Word(ts, next) = "}" THEN Read(next + 1, Append(sofar, Tailed(one.tree)))
    ELSE Statements(ts, next, Append(sofar, one.tree))
Separated(ts, one, sofar) ==
    AndThen(ts, one, IF Word(ts, one.next) = ";" THEN one.next + 1 ELSE one.next, sofar)
Statements(ts, i, sofar) ==
    IF Word(ts, i) \in {"}", "end", "lost"} THEN Read(Expect(ts, i, "}"), sofar)
    ELSE Separated(ts, Stmt(ts, i), sofar)

Braced(ts, i) == Made(ts, i, "block", "", Statements(ts, Expect(ts, i, "{"), <<>>))

-----------------------------------------------------------------------------
(***************************************************************************)
(* Expressions that begin with a word of their own.                         *)
(***************************************************************************)
WithBody(ts, r) == Adding(r.tree, Block(ts, r.next))

ElseOf(ts, r) ==
    IF Word(ts, r.next) # "else" THEN r
    ELSE Adding(r.tree, Parsed(ts, r.next + 1,
                               IF Word(ts, r.next + 1) = "if" THEN "if" ELSE "block", "allow"))
If(ts, i) == Made(ts, i, "if", "", ElseOf(ts, WithBody(ts, Alone(Expr(ts, i + 1, "deny")))))

ArmsOf(ts, scrutinee) == Joining(scrutinee, Items(ts, Expect(ts, scrutinee.next, "{"), "}", "arm"))
Match(ts, i) == Made(ts, i, "match", "", ArmsOf(ts, Alone(Expr(ts, i + 1, "deny"))))

Carrying(ts, r) ==
    IF Word(ts, r.next) # "with" THEN r
    ELSE Adding(r.tree, Labelled(ts, r.next + 1, "accumulate",
                                 Expr(ts, Expect(ts, ExpectName(ts, r.next + 1), "="), "colon")))
Keeping(ts, r) ==
    IF Word(ts, r.next) # "while" THEN r
    ELSE Adding(r.tree, Over(ts, r.next, "while", "", Expr(ts, r.next + 1, "colon")))
For(ts, i) ==
    Made(ts, i, "for", Word(ts, i + 1),
         WithBody(ts, Keeping(ts, Carrying(ts,
             Alone(Expr(ts, Expect(ts, ExpectName(ts, i + 1), "in"), "colon"))))))

With(ts, i) == Made(ts, i, "with", "", WithBody(ts, Several(ts, i + 1, "handler")))

Parenthesised(ts, r) == Read(Expect(ts, r.next, ")"), r.tree)
Primary(ts, i, mode) ==
    LET word == Word(ts, i)
    IN  CASE word \in Names -> Named(ts, i)
          [] word = "("     -> Parenthesised(ts, Expr(ts, i + 1, "allow"))
          [] word = "["     -> Made(ts, i, "list", "", Items(ts, i + 1, "]", "argument"))
          [] word = "{"     -> Block(ts, i)
          [] word = "||"    -> Over(ts, i, "closure", "", Expr(ts, i + 1, mode))
          [] word = "if"    -> If(ts, i)
          [] word = "match" -> Match(ts, i)
          [] word = "for"   -> For(ts, i)
          [] word = "with"  -> With(ts, i)
          [] OTHER          -> Failed(ts, i)

Prefix(ts, i, mode) ==
    IF Word(ts, i) = "-" /\ Word(ts, i + 1) = LIMIT
    THEN Read(i + 2, Node("least", "", <<>>, At(ts, i), At(ts, i + 1)))
    ELSE IF Word(ts, i) \in {"-", "!"} THEN Over(ts, i, "unary", Word(ts, i), Unary(ts, i + 1, mode))
    ELSE Postfix(ts, Primary(ts, i, mode), mode)

Parsed(ts, i, what, mode) ==
    CASE what = "expr"  -> Infix(ts, Unary(ts, i, mode), mode, 0)
      [] what = "unary" -> Prefix(ts, i, mode)
      [] what = "if"    -> If(ts, i)
      [] what = "block" -> Braced(ts, i)
      [] OTHER          -> ListFrom(ts, i, what, <<>>)

=============================================================================
