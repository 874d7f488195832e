---------------------------- MODULE MCReuseSummaries ----------------------------
(* Programs for the analysis: every pair of functions of two instructions    *)
(* over two parameters and one slot, loops of the shapes a fold lowers to,   *)
(* calls that swap parameters, and a fold that may take no turn.             *)
EXTENDS ReuseSummaries

Put(to, from) == [op |-> "put", to |-> to, from |-> from]
Pick(to, from) == [op |-> "pick", to |-> to, from |-> from]
Give(to, from) == [op |-> "give", to |-> to, from |-> from]
Kept(from) == [op |-> "keep", from |-> from]
Returns(from) == [op |-> "return", from |-> from]
Calls(to, f, args) == [op |-> "call", to |-> to, of |-> f, args |-> args]
Fun(n, body, value) == [params |-> n, body |-> body, value |-> value]
Loop(body) == <<[op |-> "while", len |-> Len(body) + 1]>> \o body
              \o <<[op |-> "again", len |-> Len(body) + 1]>>

\* Two functions that may call each other and themselves.
Instructions(other) == {
    Put(3, {}), Put(3, {1, 2}), Pick(3, {1, 2}), Give(3, {1}), Kept({3}), Kept({2}), Returns({1}),
    Calls(3, 1, <<1, 2>>), Calls(3, 2, <<1, 3>>), Calls(3, other, <<3, 2>>)}
Bodies(other) == Instructions(other) \X Instructions(other)
MCPairs ==
    {<<Fun(2, b, 3), Fun(2, c, 3)>> : b \in Bodies(2), c \in Bodies(1)}

\* A fold: 1 is the list walked, 2 the start, 3 the element, 4 what is carried,
\* and every turn carries on what it was given.
Turn == {Put(4, {4, 3}), Pick(4, {4, 3}), Calls(4, 2, <<4, 3>>)}
Extras == {Kept({4}), Kept({3}), Returns({4}), Give(3, {1})}
Joins == {<<Put(2, {1, 2})>>, <<Pick(2, {1, 2})>>, <<Kept({1}), Put(2, {1, 2})>>}
MCFolds ==
    {<<Fun(2, <<Put(4, {2})>> \o Loop(<<Put(3, {1}), x, t>>), 4), Fun(2, j, 2)>> :
        x \in Extras, t \in Turn, j \in Joins}

\* Programs whose calls pass parameters crosswise.
Crossed == {Put(3, {1, 2}), Give(3, {1}), Kept({3}), Kept({2}), Returns({1}),
            Calls(3, 1, <<2, 1>>), Calls(3, 2, <<1, 3>>), Calls(3, 2, <<2, 1>>)}
MCCrossed ==
    {<<Fun(2, b, 3), Fun(2, <<r>>, 3)>> :
        b \in Crossed \X Crossed, r \in {Returns({1}), Kept({2}), Calls(3, 1, <<1, 2>>)}}

MCPrograms == MCPairs \union MCFolds \union MCCrossed
=============================================================================
