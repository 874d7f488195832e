------------------------------ MODULE MCFacts ------------------------------
(* A function with a parameter, a list and a local, over a few integers.     *)
EXTENDS Facts

T(name) == [by |-> 1, of |-> name]
N(name, k) == [by |-> k, of |-> name]
K(value) == [by |-> value, of |-> One]
Only(o) == [op |-> "only", l |-> o, r |-> K(0)]
Sum(o, p) == [op |-> "+", l |-> o, r |-> p]
Less(o, p) == [op |-> "-", l |-> o, r |-> p]
Cmp(l, op, r) == [op |-> op, l |-> l, r |-> r]
Just(c) == [all |-> TRUE, parts |-> <<c>>]
And(c, d) == [all |-> TRUE, parts |-> <<c, d>>]
Or(c, d) == [all |-> FALSE, parts |-> <<c, d>>]

MCRefined == [t \in Params \union State \union Lengths \union Fields |->
                IF t = "f" THEN Between(1, 2) ELSE Any]
MCDeclarations == {Any}

RECURSIVE Listing(_)
Listing(set) == IF set = {} THEN <<>>
                ELSE LET p == CHOOSE p \in set : TRUE IN <<p>> \o Listing(set \ {p})
Backwards(list) == [i \in DOMAIN list |-> list[Len(list) + 1 - i]]
MCOrders == {Listing(Pairs), Backwards(Listing(Pairs))}

MCConditions == {
    Just(Cmp(Only(T("x")), "<", Only(T("s")))),
    Just(Cmp(Only(T("y")), "<=", Only(T("x")))),
    Just(Cmp(Only(N("x", 2)), ">=", Only(K(-1)))),
    Just(Cmp(Sum(T("x"), T("s")), ">", Only(K(0)))),
    Just(Cmp(Only(T("n")), ">", Only(K(0)))),
    Or(Cmp(Only(T("x")), ">", Only(K(1))), Cmp(Less(T("s"), T("f")), ">=", Only(K(0)))),
    And(Cmp(Only(T("s")), "!=", Only(K(0))), Cmp(Only(T("s")), ">=", Only(K(0))))}
MCValues == {Sum(T("s"), K(1)), Less(T("x"), T("s"))}
ASSUME MCRoomy == Roomy
=============================================================================
