-------------------------- MODULE AuthorityControl --------------------------
(***************************************************************************)
(* The authority-state controller of authority_strength.py in the agent:   *)
(* at the start of a cycle it judges the evidence on every visible         *)
(* variable, keeps a debt per variable and context, hands out bounded      *)
(* attention, and gates the handles derived later in the cycle.            *)
(*                                                                         *)
(* A context is how many variables are visible and which sources the fit   *)
(* has: it changes with every reveal and every new fit, and the debts of   *)
(* the contexts left behind stay.                                          *)
(***************************************************************************)
EXTENDS VisibleEvidence, Integers

CONSTANTS NVars,
          Fits,            \* the sources a fit may find
          Evidence,        \* what may come to be seen of each variable
          Settings,        \* the modes, controllers and policies the agent is built with
          MonitoringBudget, RepairBudget, PreserveBudget,
          Cooldown,        \* cooldown_cycles
          InitialVisible,
          MaxAudits        \* bounds the audits of each variable

Vars == 0..(NVars - 1)
Keys == Vars \X (1..NVars) \X Fits

ASSUME AuthorityAssumption ==
    /\ NVars \in Nat \ {0} /\ InitialVisible \in 1..NVars
    /\ MonitoringBudget \in Nat /\ RepairBudget \in Nat /\ PreserveBudget \in Nat
    /\ Cooldown \in Nat \ {0} /\ MaxAudits \in [Vars -> Nat \ {0}]
    /\ Evidence \in [Vars -> SUBSET {e \in EvidenceRecord : e.moved => e.churn}]
    /\ Settings \subseteq
         [mode : {"off", "record", "assist"}, controller : {"legacy", "state"},
          policy : {"off", "shadow", "quarantine_persistent", "quarantine_repair_only"}]

VARIABLES setting,
          phase,     \* where run_cycle is
          visible,
          evidence,  \* what can be seen of each variable
          fit,       \* the sources of its fit
          audits,    \* full_audits
          debts,     \* the controller's debts
          surfaces,  \* what the agent takes from the last judgement
          made,      \* the last handle derived
          heard      \* how many evidence epochs in a row were judged bad

world == <<visible, evidence, fit, audits>>
vars  == <<setting, phase, world, debts, surfaces, made, heard>>

Key(v) == <<v, visible, fit[v]>>

NoSurfaces == [bonus |-> {}, preserve |-> {}, remaining |-> 3, repair |-> {}]
Nothing    == [of |-> 0, with |-> {}]

-----------------------------------------------------------------------------
(* The controller                                                          *)

Bad     == {"contested_best_available", "repair_candidate", "insufficient"}
Settled == {"strong", "usable"}

Known(ds, k) == k \in DOMAIN ds

\* The evidence epoch of the context is another than when it was last judged.
Changed(ds, k) == ~Known(ds, k) \/ ~ds[k].judged

\* Mutant: every cycle counts, with or without new evidence.
PersistenceByCycle(ds, k, e) ==
    IF Known(ds, k) /\ ds[k].state = Proposed(e) /\ Proposed(e) \in Bad
    THEN ds[k].persistence + 1
    ELSE IF Proposed(e) \in Bad THEN 1 ELSE 0

Persistence(ds, k, e) ==
    IF ~Changed(ds, k) THEN ds[k].persistence
    ELSE IF Known(ds, k) /\ ds[k].state = Proposed(e) /\ Proposed(e) \in Bad
    THEN ds[k].persistence + 1
    ELSE IF Proposed(e) \in Bad THEN 1 ELSE 0

\* _next_state
NextState(ds, k, e, persistence) ==
    IF /\ Proposed(e) = "contested_best_available"
       /\ persistence >= 2 /\ e.novelty /\ e.churn
    THEN "quarantined_for_derivation"
    ELSE IF Proposed(e) \in Settled /\ Known(ds, k) /\ ds[k].required > ds[k].paid + 1
    THEN "usable"
    ELSE Proposed(e)

Reasons(e) == {Reason(e)} \cup (IF Strength(e) = "strong" THEN {} ELSE Contradictions(e))

\* _policy_would_block
WouldBlock(state, reasons) ==
    \/ /\ setting.policy \in {"shadow", "quarantine_persistent"}
       /\ state = "quarantined_for_derivation"
    \/ /\ setting.policy = "quarantine_repair_only"
       /\ \/ state = "repair_candidate"
          \/ reasons \cap {"sentinel_failures", "recent_revocations"} # {}

\* _effective_derivation_allowed
DerivationAllowed(state, reasons) ==
    setting.policy = "shadow" \/ ~WouldBlock(state, reasons)

\* _action_reason_specificity: whether there is a specific reason to act.
Specific(reasons, persistence) ==
    \/ reasons \cap {"sentinel_failures", "recent_revocations", "repeated_fit_churn",
                     "regime_sentinel_failure"} # {}
    \/ /\ persistence >= 2
       /\ reasons \cap {"low_fit_margin", "near_ties", "tied_frontier", "passive_stress",
                        "dormant_alternatives", "open_novelty"} # {}

Base(state) ==
    CASE state \in Settled                      -> 0
      [] state = "contested_best_available"     -> 2
      [] state = "insufficient"                 -> 3
      [] state = "quarantined_for_derivation"   -> 4
      [] state = "repair_candidate"             -> 5

Over(a, b) == IF a > b THEN a - b ELSE 0
Least(a, b) == IF a < b THEN a ELSE b

\* _debt_score
Score(d) == Over(Base(d.state) + Over(d.persistence, 1) + d.required, d.paid)

\* A contested epoch after the first asks for one more piece of evidence.
Asks(ds, k, e, state, persistence) ==
    Changed(ds, k) /\ state = "contested_best_available" /\ persistence >= 2

Required(ds, k, e, state, persistence) ==
    (IF Known(ds, k) THEN ds[k].required ELSE Cardinality(Future(e)))
      + (IF Asks(ds, k, e, state, persistence) THEN 1 ELSE 0)

\* Sentinels and a wide margin each pay one piece, in every cycle anew.
Due(e) == (IF Active(e) \cap {"sentinel_coverage", "sentinel_passes"} # {} THEN 1 ELSE 0)
            + (IF "fit_margin" \in Active(e) THEN 1 ELSE 0)

\* Mutant: an epoch pays only once.
PaidByEpoch(ds, k, e, state, required) ==
    IF ~Known(ds, k) THEN 0
    ELSE IF state \in Settled /\ Changed(ds, k) THEN Least(required, ds[k].paid + Due(e))
    ELSE ds[k].paid

Paid(ds, k, e, state, required) ==
    IF ~Known(ds, k) THEN 0
    ELSE IF state \in Settled THEN Least(required, ds[k].paid + Due(e))
    ELSE ds[k].paid

\* The debt of k after the evidence e; age is set when the controller acts.
Debt(ds, k, e) ==
    LET persistence == Persistence(ds, k, e)
        next        == NextState(ds, k, e, persistence)
        required    == Required(ds, k, e, next, persistence)
        paid        == Paid(ds, k, e, next, required)
        pays        == Known(ds, k) /\ next \in Settled /\ Due(e) > 0 /\ paid >= required
        state       == IF pays THEN (IF Strength(e) = "strong" THEN "strong" ELSE "usable")
                       ELSE next
    IN  [state |-> state, persistence |-> persistence, required |-> required, paid |-> paid,
         judged |-> TRUE, allowed |-> DerivationAllowed(state, Reasons(e)),
         age |-> IF Known(ds, k) THEN ds[k].age ELSE Cooldown]

\* Mutant: no cooldown.
CoolAtOnce(d) == TRUE

\* can_act
Cool(d) == d.age >= Cooldown

\* process for the record of one variable, once its debt is d: out carries what
\* is left of the budgets and what was handed out to the variables before it.
Attend(out, v, d) ==
    LET k == Key(v)
        e == evidence[v]
        asks     == Asks(out.debts, k, e, d.state, d.persistence)
        preserve == asks /\ Cardinality(out.preserve) < PreserveBudget
        wants    == Specific(Reasons(e), d.persistence)
        monitor  == wants /\ Cool(d) /\ Cardinality(out.bonus) < MonitoringBudget
        repair   == /\ wants /\ Strength(e) = "contested" /\ Cool(d)
                    /\ Cardinality(out.repair) < RepairBudget
        acted    == [d EXCEPT !.age = IF monitor \/ repair THEN 0 ELSE @]
    IN  [debts    |-> [x \in DOMAIN out.debts \cup {k} |-> IF x = k THEN acted ELSE out.debts[x]],
         bonus    |-> out.bonus \cup (IF monitor THEN {v} ELSE {}),
         repair   |-> out.repair \cup (IF repair THEN {v} ELSE {}),
         preserve |-> out.preserve \cup (IF preserve THEN {v} ELSE {})]

Judge(out, v) == Attend(out, v, Debt(out.debts, Key(v), evidence[v]))

\* process, over the records of the visible variables in their order.
Processed ==
    LET upTo[n \in 0..visible] ==
          IF n = 0 THEN [debts |-> debts, bonus |-> {}, repair |-> {}, preserve |-> {}]
          ELSE Judge(upTo[n - 1], n - 1)
    IN  upTo[visible]

Stateful == setting.mode = "assist" /\ setting.controller = "state"

\* What the evidence says epoch by epoch, kept beside the controller: a context
\* counts an epoch as bad once a judgement in it was.
Heard(k, e) ==
    LET before == IF ~Known(heard, k) THEN [epochs |-> 0, now |-> FALSE]
                  ELSE IF Changed(debts, k)
                  THEN [epochs |-> IF heard[k].now THEN heard[k].epochs ELSE 0, now |-> FALSE]
                  ELSE heard[k]
    IN  IF Proposed(e) \in Bad /\ ~before.now
        THEN [epochs |-> Least(2, before.epochs + 1), now |-> TRUE]
        ELSE before

\* The legacy controller, which hands out attention without a bound.
Pressed(S) == {v \in 0..(visible - 1) : Strength(evidence[v]) \in S}

\* _run_authority_strength
RunAuthorityStrength ==
    /\ phase = "judge" /\ phase' = "pass"
    /\ \E out \in {Processed} :
       /\ surfaces' =
            IF Stateful
            THEN [bonus |-> out.bonus, preserve |-> out.preserve,
                  remaining |-> IF out.preserve # {} THEN 3 ELSE 0, repair |-> out.repair]
            ELSE IF setting.mode = "assist"
            THEN [bonus |-> Pressed({"weak", "contested"}), preserve |-> Pressed({"contested"}),
                  remaining |-> 3, repair |-> Pressed({"contested"})]
            ELSE NoSurfaces
       /\ debts' = IF Stateful THEN out.debts ELSE debts
    /\ heard' = IF Stateful
                THEN [k \in DOMAIN heard \cup {Key(v) : v \in 0..(visible - 1)} |->
                        IF k = Key(k[1]) THEN Heard(k, evidence[k[1]]) ELSE heard[k]]
                ELSE heard
    /\ UNCHANGED <<setting, world, made>>

-----------------------------------------------------------------------------
(* The rest of the cycle                                                   *)

\* What a cycle may see of v without an audit.
SameFit(e, f) ==
    \A x \in DOMAIN e \ {"novelty", "revoked", "failing", "stress", "regimeFailed", "passes",
                         "drift", "authoritative", "tareth"} : e[x] = f[x]

Observe(v) ==
    /\ phase = "pass" /\ v < visible
    /\ \E e \in Evidence[v] : /\ SameFit(e, evidence[v]) /\ e # evidence[v]
                              /\ evidence' = [evidence EXCEPT ![v] = e]
    /\ UNCHANGED <<setting, phase, visible, fit, audits, debts, surfaces, made, heard>>

\* _collapse_tied_frontier: the candidates of a frontier that never earned its
\* place are kept after all, if strength says so and the cap allows it.
Archives(v, e) ==
    /\ setting.mode = "assist" /\ v \in surfaces.preserve /\ surfaces.remaining > 0
    /\ evidence[v].frontier /\ ~e.frontier

\* _full_audit_var and _install_var: new evidence in a new epoch.  A repair
\* priority only moves v forward in the audit queue, a bonus only adds a probe.
Audited(v, e, sources) ==
    /\ evidence' = [evidence EXCEPT ![v] =
                      IF Archives(v, e) THEN [e EXCEPT !.alternatives = TRUE] ELSE e]
    /\ fit' = [fit EXCEPT ![v] = sources]
    /\ audits' = [audits EXCEPT ![v] = @ + 1]
    /\ e.fits = Least(2, audits'[v])
    /\ debts' = [k \in DOMAIN debts |-> IF k[1] = v THEN [debts[k] EXCEPT !.judged = FALSE]
                                        ELSE debts[k]]
    /\ \E left \in (IF Archives(v, e) THEN 0..(surfaces.remaining - 1)
                    ELSE {surfaces.remaining}) :
         surfaces' = [surfaces EXCEPT !.remaining = left]

Audit(v) ==
    /\ phase = "pass" /\ v < visible /\ audits[v] < MaxAudits[v]
    /\ \E e \in Evidence[v], sources \in Fits : Audited(v, e, sources)
    /\ UNCHANGED <<setting, phase, visible, made, heard>>

Matching(v) == {k \in DOMAIN debts : k[1] = v}

\* Mutant: the debt of the highest score decides.
GateByScore(v) ==
    ~Stateful \/ \A k \in Matching(v) :
        (\A j \in Matching(v) : Score(debts[j]) <= Score(debts[k])) => debts[k].allowed

\* check_derivation_gate, asked without a context: any debt of v may block.
Gate(v) == ~Stateful \/ \A k \in Matching(v) : debts[k].allowed

\* A route, a composite, a component or a compression asks for its own variable
\* too; an extension, a rival route and a context role only for the others.
Derive(own, v, S) ==
    /\ phase = "pass" /\ S # {} /\ v \notin S /\ S \cup {v} \subseteq 0..(visible - 1)
    /\ own => Gate(v)
    /\ \A u \in S : Gate(u)
    /\ made' = [of |-> v, with |-> S]
    /\ UNCHANGED <<setting, phase, world, debts, surfaces, heard>>

EndCycle ==
    /\ phase = "pass" /\ phase' = "judge"
    /\ debts' = [k \in DOMAIN debts |-> [debts[k] EXCEPT !.age = Least(Cooldown, @ + 1)]]
    /\ made' = Nothing
    /\ UNCHANGED <<setting, world, surfaces, heard>>

\* on_variable_revealed: every context changes, and the new variable is audited.
Reveal ==
    /\ phase = "judge" /\ visible < NVars
    /\ visible' = visible + 1
    /\ \E e \in Evidence[visible], sources \in Fits : Audited(visible, e, sources)
    /\ UNCHANGED <<setting, phase, made, heard>>

Init ==
    /\ setting \in Settings
    /\ phase = "judge" /\ visible = InitialVisible
    /\ evidence \in [Vars -> UNION {Evidence[v] : v \in Vars}]
    /\ \A v \in Vars : /\ evidence[v] \in Evidence[v]
                      /\ evidence[v].fits <= (IF v < visible THEN 1 ELSE 0)
    /\ fit \in [Vars -> Fits] /\ \A v \in Vars : evidence[v].fits = 0 => fit[v] = {}
    /\ audits = [v \in Vars |-> evidence[v].fits]
    /\ debts = <<>> /\ heard = <<>>
    /\ surfaces = NoSurfaces /\ made = Nothing

Next ==
    \/ RunAuthorityStrength
    \/ \E v \in Vars : Observe(v) \/ Audit(v)
    \/ \E own \in BOOLEAN, v \in Vars, S \in SUBSET Vars : Derive(own, v, S)
    \/ EndCycle
    \/ Reveal

\* The driver runs one cycle after the other: a cycle begun is completed and the
\* next one begins.
Turn == phase' \in {"judge", "pass"} \ {phase}
Spec == Init /\ [][Next]_vars /\ WF_phase(Turn)

-----------------------------------------------------------------------------
(* Properties                                                              *)

DebtType ==
    [state : Settled \cup Bad \cup {"quarantined_for_derivation"},
     persistence : Nat, required : Nat, paid : Nat,
     judged : BOOLEAN, allowed : BOOLEAN, age : 0..Cooldown]

\* Types; no debt is paid beyond what it asks for, and the controller keeps
\* within its budgets.
TypeOK ==
    /\ setting \in Settings /\ phase \in {"judge", "pass"} /\ visible \in 1..NVars
    /\ evidence \in [Vars -> EvidenceRecord]
    /\ fit \in [Vars -> Fits] /\ audits \in [Vars -> Nat]
    /\ DOMAIN debts \subseteq Keys /\ DOMAIN heard = DOMAIN debts
    /\ \A k \in DOMAIN debts : debts[k] \in DebtType /\ debts[k].paid <= debts[k].required
    /\ surfaces.remaining \in 0..3
    /\ setting.controller = "state" =>
         /\ Cardinality(surfaces.bonus) <= MonitoringBudget
         /\ Cardinality(surfaces.repair) <= RepairBudget
         /\ Cardinality(surfaces.preserve) <= PreserveBudget

\* Derivation is quarantined in a context only when two evidence epochs in a row
\* were judged bad there: no number of cycles over the same evidence does it.
\* The first may have been bad otherwise than contested: what is counted is that
\* a state persists, and the evidence may change within the second epoch.
QuarantineEarned ==
    \A k \in DOMAIN debts :
      debts[k].state = "quarantined_for_derivation" => heard[k].epochs = 2

\* A variable the controller calls strong in the run is one the reports made of
\* it afterwards neither throttle, however strictly, nor want to act on, unless
\* it has drifted: three classifiers over the same evidence agree.
StrongIsSupported ==
    \A v \in Vars :
      Strength(evidence[v]) = "strong" /\ evidence[v].drift < 2
        => /\ ~Throttled(evidence[v], TRUE)
           /\ Governance(evidence[v]) = "continue_best_available"

\* No handle leans on a variable whose last judgement in its own context
\* quarantined it or made it a repair candidate, under the policy that says so,
\* whatever other debts it has.
SupportsCleared ==
    [][\A u \in made'.with :
         Stateful /\ Known(debts, Key(u)) =>
           /\ setting.policy = "quarantine_persistent"
                => debts[Key(u)].state # "quarantined_for_derivation"
           /\ setting.policy = "quarantine_repair_only"
                => debts[Key(u)].state # "repair_candidate"]_made

Stable(v) == Stateful /\ v < visible /\ Strength(evidence[v]) \in {"usable", "strong"}

\* Debt ends: a variable whose evidence stays usable or strong gets its debt paid
\* and may be derived from, as far as that context is concerned.
DebtRepaid ==
    \A v \in Vars : <>[]Stable(v) =>
      <>[](/\ Known(debts, Key(v)) /\ debts[Key(v)].state \in Settled /\ debts[Key(v)].paid = debts[Key(v)].required
           /\ debts[Key(v)].allowed)

Wants(v) ==
    /\ Stateful /\ v < visible /\ Known(debts, Key(v))
    /\ Specific(Reasons(evidence[v]), debts[Key(v)].persistence)

\* A variable that goes on wanting attention gets it again and again, though the
\* ones before it are asked first in every cycle.
AttentionReaches ==
    \A v \in Vars : <>[]Wants(v) => []<>(v \in surfaces.bonus \cup surfaces.repair)
=============================================================================
