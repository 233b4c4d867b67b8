------------------------ MODULE MCAuthorityControl --------------------------
(* A small instance of AuthorityControl.                                     *)
EXTENDS AuthorityControl, TLC

Unseen ==
    [strong |-> 0, sentinels |-> FALSE, passes |-> FALSE, fits |-> 0, margin |-> 0,
     near |-> FALSE, tied |-> FALSE, frontier |-> FALSE, alternatives |-> FALSE,
     novelty |-> FALSE, churn |-> FALSE, moved |-> FALSE, steady |-> FALSE,
     revoked |-> 0, failing |-> FALSE, stress |-> FALSE, regimeFailed |-> FALSE,
     drift |-> 0, authoritative |-> FALSE, tareth |-> FALSE]

\* The evidence of x0: a tie, a stable fit, the same with an open frontier or
\* with failing sentinels, and fits that change while a novelty is open, with
\* and without failing sentinels.
Tie     == [Unseen EXCEPT !.fits = 1, !.margin = 1, !.frontier = TRUE]
Solid   == [Unseen EXCEPT !.fits = 2, !.margin = 3, !.strong = 3, !.sentinels = TRUE,
                          !.passes = TRUE, !.steady = TRUE, !.authoritative = TRUE]
Torn    == [Solid EXCEPT !.frontier = TRUE]
Drifted == [Solid EXCEPT !.failing = TRUE, !.drift = 2]
Loose   == [Unseen EXCEPT !.fits = 2, !.margin = 1, !.churn = TRUE, !.moved = TRUE,
                          !.novelty = TRUE]
Broken  == [Loose EXCEPT !.failing = TRUE]

\* The evidence of x1, which is fitted once.
Young == [Unseen EXCEPT !.fits = 1, !.margin = 3, !.strong = 1, !.sentinels = TRUE]

MCEvidence ==
    (0 :> {Unseen, Tie, Torn, Solid, Drifted, Loose, Broken})
      @@ (1 :> {Unseen, Young, [Young EXCEPT !.failing = TRUE]})

MCAudits == (0 :> 3) @@ (1 :> 1)

MCFits == {{}}

Assist(policy) == [mode |-> "assist", controller |-> "state", policy |-> policy]

MCSettings ==
    {Assist("quarantine_persistent"), Assist("quarantine_repair_only"),
     [mode |-> "assist", controller |-> "legacy", policy |-> "off"],
     [mode |-> "record", controller |-> "state", policy |-> "shadow"]}
=============================================================================
