--------------------------- MODULE MCFitFrontier ---------------------------
\* Three hypotheses: the constant a variable starts with, and two functions of
\* one and the same source, so that tied churn and true changes both happen.
\* The two functions, and the two contexts, are alike.
EXTENDS FitFrontier, TLC

CONSTANTS low, sum, product, a, here, there

MCSrc == [h \in Hyps |-> IF h = low THEN {} ELSE {a}]
\* Nothing reads chain or compress, nor does a property checked under this view.
MCView == <<fit, audited, record, failed, frontier, dormant, gates, weak, steady,
            open, run, trassed>>

MCSymmetry == Permutations({sum, product}) \cup Permutations(Contexts)

=============================================================================
