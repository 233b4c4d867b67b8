-------------------------- MODULE VisibleEvidence ---------------------------
(***************************************************************************)
(* What the agent can see about one of its variables, and the three places *)
(* that judge it: authority_strength.py in every cycle, and after a run    *)
(* shadow_authority_throttle.py and uncertainty_governance.py, which read  *)
(* the same evidence from the report that batch_run.py makes of it.        *)
(*                                                                         *)
(* Nothing in the agent sets the uncertainty clusters the first one looks  *)
(* for, and the report never has passive stress.                           *)
(***************************************************************************)
EXTENDS Naturals, FiniteSets

\* Counts are kept up to the largest value anything is compared with.
EvidenceRecord ==
    [strong        : 0..3,      \* strong_observations
     sentinels     : BOOLEAN,   \* it has sentinels
     passes        : BOOLEAN,   \* a certificate of it has counted passes
     fits          : 0..2,      \* how many fits it has had
     margin        : 0..3,      \* the margin of the last
     near          : BOOLEAN,   \* which had more than one near tie
     tied          : BOOLEAN,   \* or more than one tie
     frontier      : BOOLEAN,   \* a frontier of several candidates is open
     alternatives  : BOOLEAN,   \* it has dormant alternatives
     novelty       : BOOLEAN,   \* a novelty is open
     churn         : BOOLEAN,   \* the last four fits differ
     moved         : BOOLEAN,   \* the sources of the last two differ
     steady        : BOOLEAN,   \* the last three agree, with a margin
     revoked       : 0..2,      \* revoked certificates
     failing       : BOOLEAN,   \* its sentinels fail
     stress        : BOOLEAN,   \* its envelope counts readings out of band
     regimeFailed  : BOOLEAN,   \* the probe of its regime failed
     drift         : 0..2,      \* cycles in which drift was seen
     authoritative : BOOLEAN,
     tareth        : BOOLEAN]   \* its highest role is a skip as tareth

\* The keys of a record of BOOLEANs that are TRUE.
Marked(f) == {k \in DOMAIN f : f[k]}

-----------------------------------------------------------------------------
(* authority_strength.py                                                   *)

Fitted(e)    == e.fits > 0
LowMargin(e) == Fitted(e) /\ e.margin <= 1

\* Mutant: the open frontier is not counted among the ties.
TiesOfLastFit(e) == e.tied

\* The ties are the larger of the last fit's and the open frontier's.
Ties(e) == e.tied \/ e.frontier

Contradictions(e) ==
    Marked([fit_margin_missing |-> ~Fitted(e), low_fit_margin |-> LowMargin(e),
            near_ties |-> e.near, tied_frontier |-> Ties(e),
            open_novelty |-> e.novelty, repeated_fit_churn |-> e.churn,
            recent_revocations |-> e.revoked > 0, sentinel_failures |-> e.failing,
            passive_stress |-> e.stress, dormant_alternatives |-> e.alternatives,
            regime_sentinel_failure |-> e.regimeFailed])

ContestedMarkers ==
    {"open_novelty", "repeated_fit_churn", "regime_sentinel_failure", "near_ties",
     "tied_frontier", "dormant_alternatives", "recent_revocations", "sentinel_failures"}

\* _classify.  Its last branch but one asks for no contradiction at all, so a
\* variable without a fit is never strong.
Strength(e) ==
    IF Contradictions(e) \cap ContestedMarkers # {} THEN "contested"
    ELSE IF e.strong = 0 /\ ~e.sentinels /\ ~Fitted(e) THEN "insufficient"
    ELSE IF e.strong < 2 \/ LowMargin(e) \/ ~e.sentinels THEN "weak"
    ELSE IF e.strong >= 3 /\ Contradictions(e) = {} THEN "strong"
    ELSE "usable"

Active(e) ==
    Marked([strong_observations |-> e.strong > 0, sentinel_coverage |-> e.sentinels,
            sentinel_passes |-> e.passes, fit_margin |-> Fitted(e) /\ e.margin >= 3])

Future(e) ==
    IF Strength(e) = "strong" THEN {}
    ELSE Marked([sentinel_coverage          |-> ~e.sentinels,
                 more_stable_observations   |-> e.strong < 2,
                 larger_fit_margin          |-> ~Fitted(e) \/ LowMargin(e),
                 separating_evidence        |-> e.near \/ Ties(e) \/ e.alternatives,
                 stability_after_uncertainty |->
                     e.novelty \/ e.churn \/ e.revoked > 0 \/ e.failing])

Reason(e) ==
    CASE Strength(e) = "contested"    -> "active_visible_conflict"
      [] Strength(e) = "insufficient" -> "too_little_visible_evidence"
      [] Strength(e) = "weak"         -> "best_available_but_limited_evidence"
      [] Strength(e) = "strong"       -> "stable_visible_evidence"
      [] OTHER                        -> "best_available_mostly_stable"

\* proposed_authority_state of the best available fit
Proposed(e) ==
    IF e.failing \/ e.revoked > 0 THEN "repair_candidate"
    ELSE IF Strength(e) \in {"weak", "contested"} THEN "contested_best_available"
    ELSE Strength(e)

-----------------------------------------------------------------------------
(* shadow_authority_throttle.py                                            *)

Contradicted(e) == e.revoked >= 2 \/ e.drift >= 2 \/ e.failing \/ e.novelty

LowEvidence(e) ==
    e.strong = 0 \/ ~e.sentinels \/ ~Fitted(e) \/ (Fitted(e) /\ e.margin = 0)

\* alternatives_existed, or ties of the last fit
Rivalled(e) == e.alternatives \/ e.frontier \/ e.tied \/ e.near

EvidenceClass(e) ==
    IF Contradicted(e) THEN "contradicted"
    ELSE IF LowEvidence(e) THEN "insufficient"
    ELSE IF e.steady /\ e.strong >= 2 /\ ~Rivalled(e) THEN "supported"
    ELSE "weakly_supported"

\* would_throttle_authority
Throttled(e, strictly) ==
    \/ EvidenceClass(e) = "contradicted"
    \/ EvidenceClass(e) = "insufficient" /\ (strictly \/ e.authoritative)
    \/ EvidenceClass(e) = "weakly_supported" /\ strictly /\ Rivalled(e)

-----------------------------------------------------------------------------
(* uncertainty_governance.py                                               *)

NoMargin(e) == Fitted(e) /\ e.margin = 0

\* classify_governance_proposal: the first that applies.  An open frontier has
\* always been stable for a cycle, so no higher handle is ever proposed.
Governance(e) ==
    IF e.failing /\ e.revoked >= 2 THEN "prioritize_repair"
    ELSE IF e.novelty /\ (e.tied \/ e.near) THEN "schedule_separating_probe"
    ELSE IF e.novelty THEN "attempt_consolidation"
    ELSE IF (NoMargin(e) /\ e.near) \/ e.alternatives THEN "preserve_alternative"
    ELSE IF e.failing \/ e.revoked >= 2 \/ e.moved THEN "increase_monitoring"
    ELSE IF NoMargin(e) /\ e.frontier /\ e.tareth THEN "reduce_skip_strength"
    ELSE "continue_best_available"

=============================================================================
