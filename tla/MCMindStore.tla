---------------------------- MODULE MCMindStore -----------------------------
(* A small instance of MindStore: a certified record and a failing one of    *)
(* the same hook, a record of another hook, a hint and a negative product    *)
(* for two targets, and the outcomes of a hint.                              *)
EXTENDS MindStore

CONSTANTS fit, drift, probe, hint, gate

Nowhere == [hook |-> "", var |-> ""]
Ctx(h, v) == [hook |-> h, var |-> v]

Row(id, atoms, context, roles, failure, salience) ==
    [kind |-> "record", id |-> id, atoms |-> atoms, context |-> context, roles |-> roles,
     right |-> "record_only", success |-> 0, failure |-> failure, invalid |-> {},
     salience |-> salience, members |-> {id}]

Slept(id, atoms, context, right, invalid) ==
    [kind |-> "sleep", id |-> id, atoms |-> atoms, context |-> context, roles |-> {},
     right |-> right, success |-> 0, failure |-> 0, invalid |-> invalid,
     salience |-> 0, members |-> {fit}]

MCRecords ==
    {Row(fit, {"x1", "x2", "x3"}, Ctx("edges", "x1"), {"tareth"}, 0, 1),
     Row(drift, {"x3", "x4"}, Ctx("edges", "x4"), {"trass"}, 1, 0),
     Row(probe, {"x1", "x2"}, Ctx("probe", "x1"), {}, 0, 0)}

MCSlept ==
    {Slept(hint, {"x2", "x3"}, Ctx("edges", "x5"), "ranking_hint", {}),
     Slept(gate, {"x3"}, Ctx("edges", "x4"), "feature_only", {"visible_failure"})}

MCEvents ==
    {[active |-> {fit, hint}, effect |-> 2, success |-> TRUE],
     [active |-> {drift, hint}, effect |-> 1, success |-> FALSE]}

MCRefused == {Row(fit, {"x1"}, Nowhere, {}, 0, 0)}
=============================================================================
