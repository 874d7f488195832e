---------------------------- MODULE MCFormatting ----------------------------
(***************************************************************************)
(* Files of one function: every expression with another in each of its      *)
(* places and a third in most of those, written with all the parentheses    *)
(* there can be and everything on one line; and bodies of two statements    *)
(* with a comment, a blank line or both at every place between two words.   *)
(* And files of each other declaration, as the formatter writes them, with  *)
(* the same at every place.                                                 *)
(***************************************************************************)
EXTENDS Formatting

N(kind, op, parts) == Node(kind, op, parts, 0, 0)
Name(x) == N("name", x, <<>>)
A == Name("a")
Block1(e) == N("block", "", <<N("tail", "", <<e>>)>>)
Entry1(e) == N("literal", "", <<A, N("entry", "b", <<e>>)>>)
Least == N("least", "", <<>>)
Shorthand == N("literal", "", <<A, N("entry", "b", <<>>)>>)
Empty == N("literal", "", <<A>>)

\* An expression in each place another can have one.
Operands(e) == {N("binary", o, <<e, A>>) : o \in {"||", "-", "*"}}
          \cup {N("binary", o, <<A, e>>) : o \in {"||", "-", "*"}}
Postfixed(e) == {N("field", ".f", <<e>>), N("try", "", <<e>>), N("call", "", <<e>>)}
Inside(e) == {N("call", "", <<A, e>>), N("call", "", <<A, A, e>>), N("list", "", <<e>>), Entry1(e)}
Loose(e) == {N("unary", "-", <<e>>), N("unary", "!", <<e>>), N("closure", "", <<e>>)}
Heads(e) == {N("if", "", <<e, Block1(A)>>), N("match", "", <<e, N("arm", "b", <<A>>)>>),
             N("for", "b", <<e, Block1(A)>>),
             N("for", "b", <<A, N("accumulate", "b", <<e>>), N("while", "", <<e>>), Block1(A)>>),
             N("with", "", <<e, Block1(A)>>), N("with", "", <<e, e, Block1(A)>>)}
Inner(e) == {Block1(e), N("if", "", <<A, Block1(e), Block1(e)>>),
              N("if", "", <<A, Block1(A), N("if", "", <<e, Block1(A)>>)>>),
              N("match", "", <<A, N("arm", "b", <<e>>), N("arm", "a", <<A>>)>>),
              N("with", "", <<A, Block1(e)>>)}
Around(e) == Operands(e) \cup Postfixed(e) \cup Inside(e) \cup Loose(e) \cup Heads(e) \cup Inner(e)

\* What the formatter is known not to write back: a literal only parentheses
\* made one where a block is next, a block read for the body of a `with`, and a
\* closure under a unary operator with more of the expression after it.
RECURSIVE Opens(_)
Opens(e) == \/ e.kind = "literal"
            \/ e.kind \in {"field", "try", "call"} /\ Opens(e.parts[1])
            \/ e.kind \in {"binary", "unary", "closure"} /\ \E i \in DOMAIN e.parts : Opens(e.parts[i])
EachNamed(e) == \A i \in 2..Len(e.parts) : e.parts[i].parts # <<>>
RECURSIVE Bare(_)
Bare(e) == \/ e.kind = "literal" /\ (Len(e.parts) = 1 \/ ~EachNamed(e))
           \/ e.kind \in {"field", "try", "call", "literal"} /\ Bare(e.parts[1])
           \/ e.kind \in {"binary", "unary", "closure"} /\ \E i \in DOMAIN e.parts : Bare(e.parts[i])
RECURSIVE StartsBlock(_)
StartsBlock(e) == \/ e.kind = "block"
                  \/ e.kind \in {"field", "try", "call", "literal", "binary"} /\ StartsBlock(e.parts[1])
RECURSIVE EndsLoose(_)
EndsLoose(e) == e.kind = "unary" /\ (e.parts[1].kind = "closure" \/ EndsLoose(e.parts[1]))
RECURSIVE Safe(_)
Safe(e) ==
    /\ \A i \in DOMAIN e.parts : Safe(e.parts[i])
    /\ e.kind \in {"if", "match"} => ~Opens(e.parts[1])
    /\ e.kind \in {"for", "with"} => \A i \in 1..(Len(e.parts) - 1) : ~Bare(e.parts[i])
    /\ e.kind \in {"accumulate", "while"} => ~Bare(e.parts[1])
    /\ e.kind = "with" => ~StartsBlock(e.parts[1])
    /\ e.kind = "binary" => ~EndsLoose(e.parts[1])
    /\ e.kind \in {"field", "try", "call", "literal"} => e.parts[1].kind # "least"

E1 == Around(A) \cup {Shorthand, Empty, Least, N("block", "", <<>>)}
E2 == {x \in UNION {Around(e) : e \in E1} : Safe(x)}
E3 == {x \in UNION {Operands(e) \cup Loose(e) \cup Heads(e) : e \in E2} : Safe(x)}

RECURSIVE Text(_)
Wrapped(e) == IF e.kind = "name" THEN Text(e) ELSE <<"(">> \o Text(e) \o <<")">>
Commas(parts) == FlattenSeq([i \in DOMAIN parts |-> Text(parts[i]) \o <<",">>])
Text(e) ==
    LET p == e.parts
    IN  CASE e.kind = "name" -> <<e.op>>
          [] e.kind = "least" -> <<"-", LIMIT>>
          [] e.kind = "field" -> Append(Wrapped(p[1]), e.op)
          [] e.kind = "try" -> Append(Wrapped(p[1]), "?")
          [] e.kind = "call" -> Wrapped(p[1]) \o <<"(">> \o Commas(Tail(p)) \o <<")">>
          [] e.kind = "list" -> <<"[">> \o Commas(p) \o <<"]">>
          [] e.kind = "literal" -> Wrapped(p[1]) \o <<"{">> \o Commas(Tail(p)) \o <<"}">>
          [] e.kind = "entry" -> IF p = <<>> THEN <<e.op>> ELSE <<e.op, ":">> \o Text(p[1])
          [] e.kind = "unary" -> <<e.op>> \o Wrapped(p[1])
          [] e.kind = "binary" -> Wrapped(p[1]) \o <<e.op>> \o Wrapped(p[2])
          [] e.kind = "closure" -> <<"||">> \o Wrapped(p[1])
          [] e.kind = "if" -> <<"if">> \o Wrapped(p[1]) \o Text(p[2])
                               \o (IF Len(p) = 3 THEN <<"else">> \o Text(p[3]) ELSE <<>>)
          [] e.kind = "match" -> <<"match">> \o Wrapped(p[1]) \o <<"{">> \o Commas(Tail(p)) \o <<"}">>
          [] e.kind = "arm" -> <<e.op, "=>">> \o Text(p[1])
          [] e.kind = "for" -> <<"for", e.op, "in">> \o Wrapped(p[1])
                                \o FlattenSeq([i \in 1..(Len(p) - 1) |-> IF i = 1 THEN <<>> ELSE Text(p[i])])
                                \o Text(Last(p))
          [] e.kind = "while" -> <<"while">> \o Wrapped(p[1])
          [] e.kind = "accumulate" -> <<"with", e.op, "=">> \o Wrapped(p[1])
          [] e.kind = "with" -> <<"with">> \o Wrapped(p[1]) \o (IF Len(p) = 3 THEN <<",">> \o Wrapped(p[2]) ELSE <<>>)
                                 \o Text(Last(p))
          [] e.kind = "block" -> <<"{">> \o FlattenSeq([i \in DOMAIN p |-> Text(p[i]) \o <<";">>]) \o <<"}">>
          [] e.kind = "tail" -> Text(p[1])
          [] e.kind \in {"let", "assign"} -> (IF e.kind = "let" THEN <<"let">> ELSE <<>>) \o <<e.op, "=">> \o Text(p[1])
          [] e.kind = "refuses" -> <<"assert", "refuses">> \o Text(p[1])
          [] e.kind = "abandon" -> <<"abandon">>
          [] e.kind = "assert" -> <<"assert">> \o Text(p[1])
          [] e.kind = "return" -> IF p = <<>> THEN <<"return">> ELSE <<"return">> \o Text(p[1])

Body(stmts) == <<"module", "a", "fn", "a", "(", ")">> \o Text(N("block", "", stmts))
Nests == {Body(<<e>>) : e \in E2 \cup E3}

\* Bodies of one or two statements, as they would be written on one line.
Call1(e) == N("call", "", <<A, e>>)
Call2 == N("call", "", <<A, A, A>>)
Wide == N("call", "", <<A, Call2, A>>)
Simple == {N("let", "b", <<A>>), N("assign", "a", <<Wide>>), N("return", "", <<A>>), Call1(A),
           N("refuses", "", <<Call1(A)>>), N("abandon", "", <<>>),
           N("assert", "", <<N("binary", "<", <<A, A>>)>>)}
Nested == {N("if", "", <<A, N("block", "", <<x>>)>>) : x \in {N("let", "b", <<A>>), Call1(A)}}
          \cup {Call1(N("closure", "", <<Block1(A)>>)),
                N("match", "", <<A, N("arm", "a", <<Block1(A)>>), N("arm", "b", <<A>>)>>),
                N("for", "b", <<A, N("block", "", <<>>)>>)}
Plain == {Body(<<x>>) : x \in Nested} \cup {Body(<<x, y>>) : x \in Simple \cup Nested,
                                                                   y \in Simple \cup {N("return", "", <<>>)}}

\* What is written between two of the words.
Gaps == {<<"//1", EOL>>, <<EOL, "//1", EOL>>, <<EOL, EOL>>, <<EOL, EOL, "//1", EOL, "//2", EOL, EOL>>}
Insert(text, i, gap) == SubSeq(text, 1, i) \o gap \o SubSeq(text, i + 1, Len(text))
Opened(text) == {Insert(text, i, gap) : i \in 0..Len(text), gap \in Gaps}
Commented == UNION {Opened(text) : text \in Plain}

\* Nor does it settle at once on where a comment above the first arm goes.
AboveTheArms(text) == \E i, j \in DOMAIN text :
    /\ i < j /\ text[i] = "match" /\ text[j] \in Comments
    /\ \A k \in i..j : text[k] # "=>"

\* Files of declarations, each as it is written, with such a gap in it.
Sample == {
    <<"type", "a", "=", "b", "where", "a", "<", "b">>,
    <<"deprecated", "a", "->", "b">>,
    <<"record", "a", "{", "a", ":", "b", ",", "b", ":", "a", "}">>,
    <<"choice", "a", "{", "a", ",", "b", "{", "a", ":", "b", "}", "}">>,
    <<"effect", "a", "{", "fn", "a", "(", "a", ":", "b", ")", "fn", "b", "(", ")", "->", "a", "}">>,
    <<"handler", "a", "implements", "b", "{", "state", "a", ":", "b", "fn", "a", "(", "a", ")", "{", "a", "}",
      "finally", "{", "}", "}">>,
    <<"fn", "a", "(", "a", ":", "b", ",", "b", ":", "a", ")", "->", "b", "{", "a", "}">>,
    <<"fn", "a", "(", "a", ":", "b", ",", "b", ":", "a", ",", "a", ":", "b", ")", "{", "}">>,
    <<"fn", "a", "(", ")", "where", "a", "<", "b", ",", "uses", "a", ",", "b", "ensures", "ok", "=>", "a", "{", "a", "}">>,
    <<"test", "{", "assert", "a", "}">>}
Files == {<<"module", "a">> \o use \o x \o y :
             use \in {<<>>, <<"use", "a", ".", "{", "a", "}">>}, x \in Sample, y \in {<<"test", "{", "}">>}}
Written(text) == Module(text, Parse(text))
Annotated == UNION {Opened(Written(text)) : text \in Files}

MCSources == Nests \cup {text \in Commented \cup Annotated : Parse(text).kind = "module" /\ ~AboveTheArms(text)}
=============================================================================
