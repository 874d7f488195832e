-------------------------- MODULE MCEditorSessions --------------------------
(***************************************************************************)
(* Two files, the second reachable under two spellings of which the walk   *)
(* produces one; a shipped module that imports another; texts that lose an *)
(* export, claim the other's module, import what ships, mention the        *)
(* prelude's `Io.read`, and deprecate a name.                              *)
(*                                                                         *)
(* The names asked for are the person's own, an operation called `read`    *)
(* too where no text of its module mentions the prelude's: a rename finds  *)
(* the prelude's first and edits nothing.  Not asked for are the names on  *)
(* a `deprecated` line, which a rename leaves as it was, the prelude's     *)
(* own, whose mentions alone are edited, and what a shipped module offers. *)
(***************************************************************************)
EXTENDS EditorSessions

Deprecating(m, uses, decls, calls, dots, deprecated) ==
    [module |-> m, uses |-> uses, decls |-> decls, calls |-> calls, dots |-> dots,
     deprecated |-> deprecated]
Text(m, uses, decls, calls, dots) == Deprecating(m, uses, decls, calls, dots, {})
Fn(n) == [name |-> n, ops |-> {}]
Effect(n, ops) == [name |-> n, ops |-> ops]

MCShipped ==
    [m \in {"std", "core"} |->
        IF m = "std" THEN Text("std", {<<"core", "c">>}, <<Fn("s")>>, {"c"}, {})
        ELSE Text("core", {}, <<Fn("c")>>, {}, {})]

MCFileOf == [u \in {"a", "b", "bx"} |-> IF u = "a" THEN "fa" ELSE "fb"]
MCRank == [u \in {"a", "b", "bx"} |-> CASE u = "a" -> 1 [] u = "b" -> 2 [] OTHER -> 0]

MCProvided == [e \in {"Io", "Diverge"} |-> IF e = "Io" THEN {"read"} ELSE {}]

Offers == Deprecating("a", {}, <<Fn("f"), Fn("k"), Fn("h")>>, {"f", "k"}, {<<"Io", "read">>},
                      {<<"k", "h">>})
Withdrawn == Text("a", {}, <<Fn("k")>>, {}, {})
Imports == Text("b", {<<"a", "f">>, <<"std", "s">>}, <<Fn("g"), Effect("E", {"read"})>>,
                {"f", "s"}, {<<"E", "read">>})
Claimant == Text("a", {}, <<Fn("f")>>, {}, {})

MCTexts == [f \in {"fa", "fb"} |->
    IF f = "fa" THEN {Offers, Withdrawn} ELSE {Imports, Claimant}]
MCDisk == [f \in {"fa", "fb"} |-> IF f = "fa" THEN Offers ELSE Imports]

\* Names declared in the person's own files.
OwnNames == {[kind |-> "item", of |-> m, name |-> n] : m \in {"a", "b"}, n \in {"f", "g"}}
            \cup {[kind |-> "import", of |-> "a", name |-> "f"],
                  [kind |-> "op", of |-> "E", name |-> "read"]}

=============================================================================
