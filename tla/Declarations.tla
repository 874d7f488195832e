---------------------------- MODULE Declarations ----------------------------
(***************************************************************************)
(* The parser of what a file declares: its imports, then types, effects,    *)
(* handlers, functions with their contracts, and tests.  A clause of a      *)
(* contract has no closing word: it ends where the next clause or the body  *)
(* begins, so its conditions are read as the head of an `if` is.  What a    *)
(* handler declares may come in any order and is kept by kind.              *)
(***************************************************************************)
EXTENDS Grammar

\* What may begin one of several declarations, by what they are in.
Begins == [inside \in {"imports", "module", "effect", "handler"} |->
    CASE inside = "imports" -> {"use"}
      [] inside = "module"  -> {"deprecated", "type", "record", "choice", "effect", "handler", "fn", "test"}
      [] inside = "effect"  -> {"fn"}
      [] inside = "handler" -> {"state", "finally", "fn"}]

RECURSIVE Members(_, _, _, _)


\* Where a clause is left out it has no conditions.  A repeated one, and one
\* out of order, is not where the body may begin.
Clause(ts, r, what) ==
    Adding(r.tree, IF Word(ts, r.next) # what THEN Read(r.next, Node(what, "", <<>>, 0, 0))
                   ELSE Made(ts, r.next, what, "",
                             Several(ts, r.next + 1, what)))
Contract(ts, sig) == Clause(ts, Clause(ts, Clause(ts, Alone(sig), "where"), "uses"), "ensures")

Returning(ts, r) ==
    IF Word(ts, r.next) = "->"
    THEN Adding(r.tree, Read(ExpectName(ts, r.next + 1),
                             Node("ret", Word(ts, r.next + 1), <<>>, At(ts, r.next), At(ts, r.next + 1))))
    ELSE r
Sig(ts, i, params) ==
    Made(ts, i, "sig", Word(ts, i + 1),
         Returning(ts, Items(ts, Expect(ts, ExpectName(ts, i + 1), "("), ")", params)))
Fn(ts, i, params) == Made(ts, i, "fn", "", WithBody(ts, Contract(ts, Sig(ts, i, params))))

\* The state, the operations, and the last cleanup there is.
OfKind(members, kind) == SelectSeq(members, LAMBDA m : m.kind = kind)
Latest(cleanups) == IF cleanups = <<>> THEN <<>> ELSE <<Last(cleanups)>>
ByKind(r) == Read(r.next, OfKind(r.tree, "state") \o OfKind(r.tree, "fn") \o Latest(OfKind(r.tree, "finally")))

\* A keyword, a name and what is between two braces.
Enclosed(ts, i, r) == Made(ts, i, Word(ts, i), Word(ts, i + 1), r)
AfterName(ts, i, word) == Expect(ts, ExpectName(ts, i + 1), word)
Listing(ts, i, what) == Enclosed(ts, i, Items(ts, AfterName(ts, i, "{"), "}", what))
Effect(ts, i) == Enclosed(ts, i, ClosedBy(ts, Members(ts, AfterName(ts, i, "{"), "effect", <<>>), "}"))
Handler(ts, i) ==
    LET effect == Named(ts, AfterName(ts, i, "implements"))
    IN  Enclosed(ts, i, Joining(Alone(effect),
            ByKind(ClosedBy(ts, Members(ts, Expect(ts, effect.next, "{"), "handler", <<>>), "}"))))

Refined(ts, r) == IF Word(ts, r.next) = "where" THEN Adding(r.tree, Expr(ts, r.next + 1, "deny")) ELSE r
TypeAlias(ts, i) == Enclosed(ts, i, Refined(ts, Alone(Named(ts, AfterName(ts, i, "=")))))
Deprecate(ts, i) == Enclosed(ts, i, Alone(Named(ts, AfterName(ts, i, "->"))))
Use(ts, i) == Enclosed(ts, i, Items(ts, Expect(ts, AfterName(ts, i, "."), "{"), "}", "uses"))
Test(ts, i) == Made(ts, i, "test", "", Alone(Block(ts, i + 1)))

\* Its place is that of its name, or its block, without the word before it.
Marked(kind, r) == Read(r.next, Node(kind, "", <<r.tree>>, r.tree.from, r.tree.to))

Declared(ts, i, inside) ==
    LET word == Word(ts, i)
    IN  CASE word = "use"        -> Use(ts, i)
          [] word = "deprecated" -> Deprecate(ts, i)
          [] word = "type"       -> TypeAlias(ts, i)
          [] word = "record"     -> Listing(ts, i, "typed")
          [] word = "choice"     -> Listing(ts, i, "variant")
          [] word = "effect"     -> Effect(ts, i)
          [] word = "handler"    -> Handler(ts, i)
          [] word = "test"       -> Test(ts, i)
          [] word = "state"      -> Marked("state", Item(ts, i + 1, "typed"))
          [] word = "finally"    -> Marked("finally", Block(ts, i + 1))
          [] word = "fn" /\ inside = "effect" -> Sig(ts, i, "typed")
          [] word = "fn" /\ inside # "effect" -> Fn(ts, i, IF inside = "handler" THEN "param" ELSE "typed")

Member(ts, one, inside, sofar) == Members(ts, one.next, inside, Append(sofar, one.tree))
Members(ts, i, inside, sofar) ==
    IF Word(ts, i) \notin Begins[inside] THEN Read(i, sofar)
    ELSE Member(ts, Declared(ts, i, inside), inside, sofar)

\* A file that is not all read has an error in it.
Whole(ts, r) ==
    IF r.next = Len(ts) + 1 THEN Made(ts, 1, "module", "", r).tree ELSE Failed(ts, 1).tree
Imports(ts, name) == Joining(Alone(name), Members(ts, name.next, "imports", <<>>))
ParsedFrom(ts) ==
    LET imports == Imports(ts, Named(ts, Expect(ts, 1, "module")))
    IN  Whole(ts, Members(ts, imports.next, "module", imports.tree))
Parse(text) == ParsedFrom(Tokenize(text))

=============================================================================
