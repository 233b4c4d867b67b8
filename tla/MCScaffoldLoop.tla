--------------------------- MODULE MCScaffoldLoop ---------------------------
(* Three variables, two run configurations.  Two debt families over the    *)
(* same variables recur, so that every operation but those that need a     *)
(* context is mined from what sleep wrote; the other files bring contexts. *)
EXTENDS ScaffoldLoop

MCVars  == 0 .. 2
MCFits  == {[edges |-> {1, 2}, func |-> "f"]}
MCPairs == {{1, 2}}

Debt(v, state) == [var |-> v, state |-> state, reason |-> "stress"]

MCAuthorities ==
    {<<>>, <<Debt(2, ""), Debt(0, "contested"), Debt(1, "contested")>>,
     <<Debt(0, "stressed"), Debt(1, "stressed"), Debt(2, "stressed")>>}

Product(n, vs, contexts, use) ==
    [whole |-> TRUE, hidden |-> FALSE, id |-> <<n, "sleep_product">>,
     kind |-> "sleep_product", vars |-> vs, contexts |-> contexts, use |-> use]

MCProducts ==
    {<<Product(1, {0, 1}, {"a"}, "hard_filter"), Product(2, {0, 1, 2}, {"a", "b"}, "block"),
       [Product(3, {2}, {}, "ranking_hint") EXCEPT !.hidden = TRUE]>>,
     <<Product(1, {0, 1}, {"a"}, "ranking_hint"), Product(2, {2}, {"b"}, "soft_filter")>>}

Passed(op, n, m, vs, right, evidence) ==
    [k \in {[op |-> op, operands |-> {<<n, "sleep_product">>, <<m, "sleep_product">>},
             gate |-> <<>>]} |-> [vars |-> vs, right |-> right, evidence |-> evidence]]

MCGivens ==
    {<<>>, Passed("union", 1, 2, {1, 2}, "hard_filter", 0),
     Passed("difference", 1, 2, {2}, "block", 0),
     Passed("intersection", 1, 2, {1, 2}, "ranking_hint", 0)
         @@ Passed("difference", 1, 2, {0}, "feature_only", 1)}

=============================================================================
