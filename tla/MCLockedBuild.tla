--------------------------- MODULE MCLockedBuild ---------------------------
(***************************************************************************)
(* A program in root R that imports a file of the component root C and a   *)
(* shipped module that imports another; C names the root D, where an own   *)
(* copy of the shipped module sits; both manifests may pin a dependency.   *)
(* Files appear, go, offer less, and one says it is another module while   *)
(* asking for its own path.                                                *)
(***************************************************************************)
EXTENDS LockedBuild

Text(m, uses, names, calls) ==
    [module |-> m, uses |-> uses, decls |-> [i \in DOMAIN names |-> [name |-> names[i], ops |-> {}]],
     calls |-> calls, dots |-> {<<"Io", "read">>}, deprecated |-> {}]

MCProvided == [e \in {"Io"} |-> {"read"}]

MCModules == {"a", "b", "c", "p", "std", "core"}
MCRoots == {"R", "C", "D"}
MCPinned == {<<"cache", "p">>}
MCPlaces == {<<r, m>> : r \in MCRoots, m \in MCModules} \cup MCPinned
MCPlaceOf == [r \in MCRoots |-> [m \in MCModules |-> <<r, m>>]]
MCRootOf == [p \in MCPlaces |-> [m \in MCModules |->
    IF p[1] \in MCRoots /\ p[2] = m THEN p[1] ELSE "none"]]
MCNamed == <<<<"R", "a">>>>

MCShipped == [m \in {"std", "core"} |->
    IF m = "std" THEN Text("std", {<<"core", "k">>}, <<"s">>, {"k"})
    ELSE Text("core", {}, <<"k">>, {})]

Program == Text("a", {<<"b", "g">>, <<"std", "s">>}, <<"f">>, {"g", "s"})
Library == Text("b", {}, <<"g">>, {})
WiderLibrary == Text("b", {<<"core", "k">>, <<"a", "f">>}, <<"g">>, {"k", "f"})
OwnStd == Text("std", {}, <<"s">>, {})
Mistaken == Text("c", {<<"b", "g">>}, <<"g">>, {"g"})
Dependency == Text("p", {}, <<"d">>, {})

MCTexts == [p \in MCPlaces |->
    CASE p = <<"R", "a">> -> {Program}
      [] p = <<"R", "b">> -> {Mistaken}
      [] p = <<"C", "b">> -> {Library, WiderLibrary}
      [] p \in {<<"R", "std">>, <<"D", "std">>} -> {OwnStd}
      [] p \in MCPinned -> {Dependency}
      [] OTHER -> {}]
MCDisk == [p \in MCPlaces |->
    CASE p = <<"R", "a">> -> Program
      [] p = <<"C", "b">> -> Library
      [] p = <<"D", "std">> -> OwnStd
      [] p \in MCPinned -> Dependency
      [] OTHER -> Absent]

Lists(roots_, pinned_) == [components |-> roots_, pinned |-> pinned_, unobtained |-> FALSE]
Broken == [components |-> <<"C">>, pinned |-> <<>>, unobtained |-> TRUE]
MCFirstManifests == [r \in MCRoots |->
    CASE r = "R" -> Lists(<<"C">>, <<<<"cache", "p">>>>)
      [] r = "C" -> Lists(<<"D">>, <<<<"cache", "p">>>>)
      [] OTHER -> NoManifest]
MCManifests == [r \in MCRoots |->
    CASE r = "R" -> {Broken}
      [] OTHER -> {}]

=============================================================================
