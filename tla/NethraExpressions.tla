-------------------------- MODULE NethraExpressions -------------------------
(***************************************************************************)
(* nethra_expression.py and the index of proposals that feeds it,          *)
(* scaffold_memory.py: expressions mined from what sleep proposed, the     *)
(* slice an audit compiles from them, and the rights they earn.            *)
(*                                                                         *)
(* An expression is known by its operation, its operands as a set and its  *)
(* gate; the hash of the three stands for no more.  The table maps these   *)
(* to what the expression covers and to the right it holds.                *)
(***************************************************************************)
EXTENDS Naturals, Sequences, FiniteSets, SequencesExt, Picks

CONSTANTS Threshold,     \* _COACTIVATION_RANKING_THRESHOLD
          MaxExpressions \* max_expressions

ASSUME NethraExpressionsAssumption == Threshold \in Nat \ {0} /\ MaxExpressions \in Nat

UseRank == [record_only |-> 0, feature_only |-> 1, ranking_hint |-> 2,
            soft_filter |-> 3, hard_filter |-> 4, block |-> 5]

-----------------------------------------------------------------------------
(* Loading proposals                                                       *)

\* load_proposals: rows that do not parse, hold hidden truth or have no id
\* are skipped; a sleep product keeps the right it proposes, hard filters apart.
FromDict(row) ==
    [id |-> row.id, vars |-> row.vars, contexts |-> row.contexts,
     use |-> IF row.kind = "sleep_product" /\ row.use = "hard_filter"
             THEN "record_only" ELSE row.use]

LoadProposals(rows) ==
    LET readable == Picked(rows, {i \in DOMAIN rows :
                        rows[i].whole /\ ~rows[i].hidden /\ rows[i].id # <<>>})
    IN  [k \in 1 .. Len(readable) |-> FromDict(readable[k])]

-----------------------------------------------------------------------------
(* Mining                                                                  *)

Expr(op, operands, gate, vars, right) ==
    [key |-> [op |-> op, operands |-> operands, gate |-> gate],
     vars |-> vars, right |-> right, evidence |-> 0]

When(condition, expr) == IF condition THEN <<expr>> ELSE <<>>

\* What one pair of proposals yields.  Nothing looks at the use a proposal
\* suggests.
MinedFromPair(a, b) ==
    LET both == {a.id, b.id}
        all  == a.vars \cup b.vars
        nested == a.vars # b.vars /\ (a.vars \subseteq b.vars \/ b.vars \subseteq a.vars)
        rest == all \ (a.vars \cap b.vars)
    IN  When(Cardinality(a.vars \cap b.vars) >= 2,
             Expr("intersection", both, <<>>, a.vars \cap b.vars, "feature_only"))
        \o When(Cardinality(all) >= 3, Expr("union", both, <<>>, all, "record_only"))
        \o When(nested, Expr("difference", both, <<>>, rest, "feature_only"))
        \o When(a.contexts \cap b.contexts # {},
                Expr("coactive", both, <<>>, all, "feature_only"))
        \o When(a.contexts # {} /\ b.contexts \ a.contexts # {} /\ Cardinality(a.vars) >= 2,
                Expr("gated", {a.id}, b.id, a.vars, "record_only"))

\* mine_expressions_from_proposals
Mined(proposals) ==
    LET p == Picked(proposals, {i \in DOMAIN proposals : proposals[i].vars # {}})
        n == Len(p)
        pairs == FlattenSeq([i \in 1 .. n |->
                     FlattenSeq([d \in 1 .. n - i |-> MinedFromPair(p[i], p[i + d])])])
        found == FirstOfEach(pairs, [k \in 1 .. Len(pairs) |-> pairs[k].key])
    IN  SubSeq(found, 1, IF Len(found) < MaxExpressions THEN Len(found) ELSE MaxExpressions)

\* add_expression: a known expression keeps what it covers and its right.
AddExpression(table, expr) ==
    LET body == [vars |-> expr.vars, right |-> expr.right, evidence |-> expr.evidence]
    IN  IF expr.key \in DOMAIN table
        THEN [table EXCEPT ![expr.key].evidence = @ + expr.evidence]
        ELSE [k \in DOMAIN table \cup {expr.key} |->
                 IF k = expr.key THEN body ELSE table[k]]

\* load_into_expression_index
Loaded(given, proposals) ==
    LET mined == Mined(proposals)
        after[n \in 0 .. Len(mined)] ==
            IF n = 0 THEN given ELSE AddExpression(after[n - 1], mined[n])
    IN  after[Len(mined)]

-----------------------------------------------------------------------------
(* The active slice of an audit                                            *)

ActiveIds(proposals, v) == {p.id : p \in {q \in ToSet(proposals) : v \in q.vars}}

\* compile_active_slice
Contributes(key, expr, active) ==
    /\ (key.operands \cup {key.gate}) \cap active # {}
    /\ key.op = "gated" => key.gate \in active
    /\ key.op = "coactive" /\ expr.right # "record_only" => key.operands \subseteq active

Contributing(table, active) == {k \in DOMAIN table : Contributes(k, table[k], active)}

Covered(table, keys, rights) ==
    UNION {table[k].vars : k \in {j \in keys : table[j].right \in rights}}

\* Filters and blocks narrow the candidates unless none would be left.
Narrowed(available, excluded) ==
    IF available \ excluded = {} THEN available ELSE available \ excluded

NoCredit == {}

\* The credit of a hint goes to the first expression of the slice in the order
\* of the hashes, whatever that one did.
Creditable(table, keys, available) ==
    IF Covered(table, keys, {"ranking_hint"}) = {} \/ available = {} THEN {NoCredit}
    ELSE {{k} : k \in keys}

-----------------------------------------------------------------------------
(* Outcomes                                                                *)

\* Mutant: any right rises.
CreditedAnyRight(expr, improved) ==
    [expr EXCEPT !.evidence = @ + 1,
                 !.right = IF improved /\ expr.evidence + 1 >= Threshold
                           THEN "ranking_hint" ELSE @]

\* record_assist_outcome: evidence makes a hint of an annotation; nothing
\* takes a right away.
Credited(expr, improved) ==
    LET evidence == expr.evidence + (IF improved THEN 1 ELSE 0)
        earned == improved /\ evidence >= Threshold /\ expr.right = "feature_only"
    IN  [expr EXCEPT !.evidence = evidence, !.right = IF earned THEN "ranking_hint" ELSE @]

Outcome(table, credit, improved) ==
    [k \in DOMAIN table |-> IF k \in credit THEN Credited(table[k], improved) ELSE table[k]]

=============================================================================
