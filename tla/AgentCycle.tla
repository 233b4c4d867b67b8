----------------------------- MODULE AgentCycle -----------------------------
(***************************************************************************)
(* The control loop of ChainedAgent (dreth/agent.py): initialize,          *)
(* on_variable_revealed and run_cycle, as they move the authority of each  *)
(* variable.  One cycle is a first pass over the visible variables in      *)
(* dependency order (skip, probe, check sentinels, or queue), an audit     *)
(* pass over the queued ones within the budget, and the work at the end of *)
(* the cycle.  The loop is sequential; what is nondeterministic is what    *)
(* the world answers to probes and which fit an audit finds.               *)
(*                                                                         *)
(* Composites, regimes, novelties and compressions reach this loop only    *)
(* through the choices marked below.                                       *)
(***************************************************************************)
EXTENDS Ledger, Sequences

CONSTANTS
    InitialVisible,   \* world.visible_count at the start
    Hypotheses,       \* for each variable, the fits an audit may return
    Salience,         \* salience_targets ({} when None)
    Joint,            \* the variables that may belong to composites
    Noisy,            \* the variables whose envelope may come to certify
    MinPeers,         \* other visible variables a role test needs
    FrontierK,        \* frontier_k
    AuditBudget,      \* priority_audit_budget
    PromoteAfter, PromoteTier,   \* promote_after, and its step per tier
    StrongTrass, TrassTier,      \* _STRONG_TRASS_SENTINEL_PASSES, and its step
    BackoffInterval, NoveltyInterval,
    Period            \* bound: the cycle number is kept modulo Period

ASSUME AgentAssumption ==
    /\ InitialVisible \in 1 .. NVars
    /\ Hypotheses \in [Vars -> SUBSET [src : SUBSET Vars, func : Funcs]]
    /\ Salience \subseteq Vars
    /\ Joint \subseteq Vars
    /\ Noisy \subseteq Vars
    /\ {MinPeers, PromoteTier, TrassTier} \subseteq Nat
    /\ {FrontierK, AuditBudget, PromoteAfter, StrongTrass} \subseteq Nat \ {0}
    /\ {BackoffInterval, NoveltyInterval, Period} \subseteq Nat \ {0}
    /\ PromoteAfter + 2 * PromoteTier <= StrongCap
    /\ StrongTrass + 2 * TrassTier <= PassCap
    /\ Period % BackoffInterval = 0
    /\ Period % NoveltyInterval = 0

VARIABLES
    led,       \* ledger.vars
    visible,   \* world.visible_count
    live,      \* _live_set ({} while it is None, during boot)
    inert,     \* _inert_vars
    phase,     \* where run_cycle stands
    order,     \* the order of the pass in progress
    pos,       \* position in order of the variable being processed
    covered,   \* composite_passing
    needs,     \* needs_audit, while the first pass fills it
    failed,    \* _sentinel_failed_vars
    shifted,   \* _structural_change_this_cycle
    cycle      \* the cycle number, modulo Period

vars == <<led, visible, live, inert, phase, order, pos, covered, needs,
          failed, shifted, cycle>>

Seen == 0 .. visible - 1
Phases == {"boot", "idle", "first", "audit", "close"}

-----------------------------------------------------------------------------
(* Helpers                                                                 *)

\* The ways to enumerate a finite set, each element once.
Orderings(S) ==
    {o \in [1 .. Cardinality(S) -> S] : \A i, j \in DOMAIN o : o[i] = o[j] => i = j}

Tier(L, v) ==
    LET deps == Cardinality(VariableDependents(L, v))
    IN IF deps = 0 THEN 0 ELSE IF deps <= 2 THEN 1 ELSE 2

EffPromoteAfter(L, v) == PromoteAfter + Tier(L, v) * PromoteTier
TrassThreshold(L, v) == StrongTrass + Tier(L, v) * TrassTier

\* _certify_operation_role, with nvis variables visible: the role the skip
\* certificate gets (untested when too few peers are visible to test).
OperationRole(v, nvis) ==
    IF v \in Salience THEN {"tareth"}
    ELSE IF nvis - 1 < MinPeers THEN {"untested"}
    ELSE {"tareth", "trass"}

\* Only a substitution test leaves witnesses to replay on failure.
Witnessed(v) == led[v].role = "tareth" /\ v \notin Salience

HeldForGood(n) == n.stable >= StableThreshold \/ n.csf >= BackoffThreshold

\* Cases A and C of the audit rate limit.
Held(n) ==
    \/ n.stable >= StableThreshold
    \/ n.csf >= BackoffThreshold /\ cycle % BackoffInterval # 0

\* Case B: an open novelty (which variables have one is left open here).
NoveltyHolds == IF cycle % NoveltyInterval # 0 THEN BOOLEAN ELSE {FALSE}

-----------------------------------------------------------------------------
(* A full audit and its installation                                       *)

\* What an audit of v can return: the winning fit, whether old and new fit
\* were tied, the verdict of a role test should one run, whether sentinels
\* could be selected, and which losers of a near tie turn out route-trass.
Audits(v, nvis) ==
    [ fit    : {h \in Hypotheses[v] :
                    h.src \subseteq (0 .. nvis - 1) \ ({v} \cup led[v].route)},
      tied   : BOOLEAN,
      role   : OperationRole(v, nvis),
      attach : BOOLEAN,
      near   : SUBSET {p \in 0 .. nvis - 1 :
                    p \notin {v} \cup led[v].route /\ Decided(led[p])} ]

SourceChange(n, a) == n.src # a.fit.src

ChangeAssumed(n, a) == TRUE

\* semantic_changed: any new signature but tied churn under the same sources.
SemanticChange(n, a) ==
    \/ SourceChange(n, a)
    \/ n.func # a.fit.func /\ ~a.tied

Promotes(L, v, n) ==
    n.status # "certified" /\ n.strong >= EffPromoteAfter(L, v) /\ n.sentinels

CommitAnyLoser(L, v, n, a, changed) ==
    [n EXCEPT !.strong = IF changed THEN 1 ELSE Bump(@, StrongCap),
              !.sentinels = @ \/ a.attach,
              !.route = @ \cup a.near]

\* _install_var past the trass exit, on the record n of v in ledger L.
Commit(L, v, n, a, changed) ==
    LET counted == [n EXCEPT !.strong = IF changed THEN 1 ELSE Bump(@, StrongCap),
                             !.csf = IF changed THEN 0 ELSE @,
                             !.sentinels = @ \/ a.attach]
    IN IF Promotes(L, v, counted)
       THEN [counted EXCEPT !.status = "certified",
                            !.route = @ \cup (a.near \ a.fit.src)]
       ELSE [counted EXCEPT !.status = IF @ = "uncertain" THEN "proposed" ELSE @]

\* _install_var: commit the result, test the role if it is untested, and
\* re-test every trass source the new fit leans on.
InstallVar(v, a) ==
    LET changed == SemanticChange(led[v], a)
        fitted  == [UpdateVar(led[v], a.fit, changed) EXCEPT !.audited = TRUE]
        tested  == IF fitted.role = "untested" THEN IssueSkip(fitted, a.role)
                   ELSE fitted
        L       == [led EXCEPT ![v] = tested]
        leaned  == {p \in a.fit.src : led[p].role = "trass"}
    IN IF tested.role = "trass"
       THEN [led EXCEPT ![v] = [tested EXCEPT !.sentinels = FALSE]]
       ELSE [p \in Vars |->
                IF p = v THEN Commit(L, v, tested, a, changed)
                ELSE IF p \in leaned THEN Contradict(led[p]) ELSE led[p]]

\* The inert sources a changed source set wakes.
Woken(v, a) == IF SourceChange(led[v], a) THEN a.fit.src \cap inert ELSE {}

\* _maybe_demote: settled stands for the streaks at zero and an old envelope.
Parks(n, settled) ==
    \/ n.role \in {"trass", "noise_floor"}
    \/ n.status = "certified" /\ Authoritative(n) /\ n.mature /\ settled

-----------------------------------------------------------------------------
(* Boot and reveal                                                         *)

\* _pick_initial_frontier: FrontierK of the salient variables (which of them,
\* by a score left out here), or of all when the screen found none; a large
\* FrontierK takes every visible variable, inert or not.
Frontiers(screened) ==
    LET candidates == IF FrontierK >= InitialVisible \/ screened = Seen
                      THEN Seen ELSE Seen \ screened
    IN IF Cardinality(candidates) <= FrontierK THEN {candidates}
       ELSE {S \in SUBSET candidates : Cardinality(S) = FrontierK}

\* initialize(): the screen finds some variables inert, and the frontier is
\* audited, in an order of costs left out here.
Init ==
    /\ visible = InitialVisible
    /\ led = [v \in Vars |-> FreshVar]
    /\ live = {} /\ covered = {} /\ needs = {} /\ failed = {}
    /\ inert \in SUBSET Seen
    /\ \E frontier \in Frontiers(inert) : order \in Orderings(frontier)
    /\ pos = 1 /\ phase = "boot" /\ shifted = FALSE /\ cycle = 0

Current(v) == pos <= Len(order) /\ v = order[pos]
Done == pos > Len(order)

BootAudit(v) ==
    /\ phase = "boot" /\ Current(v)
    /\ \E a \in Audits(v, visible) :
        /\ led' = InstallVar(v, a)
        /\ inert' = inert \ Woken(v, a)
    /\ pos' = pos + 1
    /\ UNCHANGED <<visible, live, phase, order, covered, needs, failed, shifted, cycle>>

GoLive ==
    /\ phase = "boot" /\ Done
    /\ live' = {order[i] : i \in DOMAIN order}
    /\ phase' = "idle" /\ order' = <<>> /\ pos' = 1
    /\ UNCHANGED <<led, visible, inert, covered, needs, failed, shifted, cycle>>

\* on_variable_revealed: the world shows one more variable between cycles.
Reveal ==
    /\ phase = "idle" /\ visible < NVars
    /\ visible' = visible + 1
    /\ \E a \in Audits(visible, visible + 1) :
        /\ led' = InstallVar(visible, a)
        /\ inert' = inert \ Woken(visible, a)
        /\ live' = live \cup {visible} \cup Woken(visible, a)
    /\ UNCHANGED <<phase, order, pos, covered, needs, failed, shifted, cycle>>

-----------------------------------------------------------------------------
(* First pass                                                              *)

\* The members of some composites: a composite has at least two.
Groups == {S \in SUBSET (Joint \cap Seen) : Cardinality(S) # 1}

\* The start of run_cycle: composites are replayed (some are revoked, some
\* pass and cover their members) and the order of the pass is fixed.
StartCycle ==
    /\ phase = "idle"
    /\ cycle' = (cycle + 1) % Period
    /\ \E revoked \in Groups :
        led' = [v \in Vars |-> IF v \in revoked THEN Contradict(led[v]) ELSE led[v]]
    /\ covered' \in Groups
    /\ order' \in Orderings(Seen)
    /\ Topological(led, order')
    /\ phase' = "first" /\ pos' = 1
    /\ UNCHANGED <<visible, live, inert, needs, failed, shifted>>

\* The step of the first pass is at v, and no composite covers it.
At(v) == phase = "first" /\ Current(v) /\ v \notin covered

Advance ==
    /\ pos' = pos + 1
    /\ UNCHANGED <<visible, inert, phase, order, covered, shifted, cycle>>

CompositeSkip(v) ==
    /\ phase = "first" /\ Current(v) /\ v \in covered
    /\ Advance
    /\ UNCHANGED <<led, live, needs, failed>>

StrongTrassSkip(v) ==
    /\ At(v)
    /\ led[v].role = "trass" /\ led[v].passes >= TrassThreshold(led, v)
    /\ live' = live \ {v}
    /\ Advance
    /\ UNCHANGED <<led, needs, failed>>

\* The probe of a provisional trass cert detects propagation.  The audit is
\* queued without consulting the rate limits.
ProvisionalProbeFails(v) ==
    /\ At(v)
    /\ led[v].role = "trass" /\ led[v].passes < TrassThreshold(led, v)
    /\ led' = [led EXCEPT ![v] = PopSkip(@)]
    /\ needs' = needs \cup {v}
    /\ Advance
    /\ UNCHANGED <<live, failed>>

QuietNotCounted(v) ==
    /\ At(v)
    /\ led[v].role = "trass" /\ led[v].passes < TrassThreshold(led, v)
    /\ Advance
    /\ UNCHANGED <<led, live, needs, failed>>

ProvisionalProbeQuiet(v) ==
    LET passes == Bump(led[v].passes, PassCap)
        strong == passes >= TrassThreshold(led, v)
    IN /\ At(v)
       /\ led[v].role = "trass" /\ led[v].passes < TrassThreshold(led, v)
       /\ led' = [led EXCEPT ![v].passes = passes,
                             ![v].status = IF strong THEN "trass" ELSE @]
       /\ live' = IF strong THEN live \ {v} ELSE live
       /\ Advance
       /\ UNCHANGED <<needs, failed>>

DormantSkip(v) ==
    /\ At(v)
    /\ led[v].role # "trass" /\ v \notin live
    /\ Advance
    /\ UNCHANGED <<led, live, needs, failed>>

\* The step is at a live variable that is not trass.
AtLive(v) == At(v) /\ led[v].role # "trass" /\ v \in live

\* A matching compression, a passing regime sentinel, parking or a passive
\* residual inside the envelope: the variable is skipped on that evidence.
CheapSkip(v) ==
    /\ AtLive(v)
    /\ led[v].sentinels /\ led[v].status \in {"certified", "proposed"}
    /\ Advance
    /\ UNCHANGED <<led, live, needs, failed>>

\* Queue v for audit, rec being its record by then, unless a case holds it.
QueueUnlessHeld(v, rec) ==
    \E novel \in NoveltyHolds :
        needs' = IF Held(rec) \/ novel THEN needs ELSE needs \cup {v}

\* A sentinel check feeds the envelope, which may now be mature.
Sampled(v) ==
    {led[v]} \cup (IF v \in Noisy THEN {[led[v] EXCEPT !.mature = TRUE]} ELSE {})

\* The pass of a proposed variable counts as one more matching observation.
Credit(v, n) ==
    IF n.status = "proposed" /\ n.strong < EffPromoteAfter(led, v)
    THEN LET strong == Bump(n.strong, StrongCap)
         IN [n EXCEPT !.strong = strong,
                      !.status = IF strong >= EffPromoteAfter(led, v)
                                 THEN "certified" ELSE @]
    ELSE n

SentinelPasses(v) ==
    /\ AtLive(v) /\ Authoritative(led[v])
    /\ \E n \in Sampled(v), settled \in BOOLEAN :
        LET credited == Credit(v, [n EXCEPT !.csf = 0])
        IN /\ led' = [led EXCEPT ![v] = credited]
           /\ live' = IF Parks(credited, settled) THEN live \ {v} ELSE live
    /\ Advance
    /\ UNCHANGED <<needs, failed>>

\* The sentinel fails and no witness propagates any more: the certificate's
\* basis is gone.  Recertify and audit, without demotion or rate limit.
WitnessExpires(v) ==
    /\ AtLive(v) /\ Authoritative(led[v]) /\ Witnessed(v)
    /\ \E n \in Sampled(v), role \in OperationRole(v, visible) :
        led' = [led EXCEPT ![v] = IssueSkip(n, role)]
    /\ needs' = needs \cup {v}
    /\ Advance
    /\ UNCHANGED <<live, failed>>

\* A failure of the local demotion: certified keeps its observations.
DemoteLocally(n) ==
    [n EXCEPT !.status = "uncertain",
              !.strong = IF n.status = "certified" THEN @ ELSE 0]

\* The sentinel fails and the world has changed: revoke, demote v alone, and
\* queue it for the audit that may confirm the change.
SentinelFails(v) ==
    /\ AtLive(v) /\ Authoritative(led[v])
    /\ \E n \in Sampled(v) :
        LET missed  == [n EXCEPT !.csf = Bump(@, BackoffThreshold)]
            demoted == DemoteLocally(InvalidateCerts(missed))
        IN /\ led' = [led EXCEPT ![v] = demoted]
           /\ QueueUnlessHeld(v, demoted)
    /\ failed' = failed \cup {v}
    /\ Advance
    /\ UNCHANGED live

\* No cheap path applies: the variable needs an audit.
FallThrough(v) ==
    /\ AtLive(v) /\ ~Authoritative(led[v])
    /\ QueueUnlessHeld(v, led[v])
    /\ Advance
    /\ UNCHANGED <<led, live, failed>>

FirstPass(v) ==
    \/ CompositeSkip(v) \/ StrongTrassSkip(v)
    \/ ProvisionalProbeFails(v) \/ ProvisionalProbeQuiet(v)
    \/ DormantSkip(v) \/ CheapSkip(v)
    \/ SentinelPasses(v) \/ WitnessExpires(v) \/ SentinelFails(v)
    \/ FallThrough(v)

-----------------------------------------------------------------------------
(* Audit pass                                                              *)

\* The queued variables that come before v in the order of the first pass.
QueuedBefore(v) == {u \in needs : \E i, j \in DOMAIN order :
                                    i < j /\ order[i] = u /\ order[j] = v}

\* The queue in the order of the first pass, cut off at the budget.  What is
\* deferred is queued anew by the next first pass.
AuditQueue(queue) ==
    /\ queue \in Orderings({v \in needs : Cardinality(QueuedBefore(v)) < AuditBudget})
    /\ \A i, j \in DOMAIN queue : i < j => queue[i] \in QueuedBefore(queue[j])

StartAudits ==
    /\ phase = "first" /\ Done
    /\ \E queue \in UNION {Orderings(S) : S \in SUBSET needs} :
        AuditQueue(queue) /\ order' = queue
    /\ phase' = "audit" /\ pos' = 1 /\ covered' = {} /\ needs' = {}
    /\ UNCHANGED <<led, visible, live, inert, failed, shifted, cycle>>

AtAudit(v) == phase = "audit" /\ Current(v)

NextAudit ==
    /\ pos' = pos + 1
    /\ UNCHANGED <<visible, phase, order, covered, needs, failed, cycle>>

\* The audit finds another fit for a variable that had not failed: its
\* dependents are woken.
AuditFindsChange(v) ==
    /\ AtAudit(v) /\ v \notin failed
    /\ \E a \in Audits(v, visible) :
        /\ SemanticChange(led[v], a)
        /\ led' = InstallVar(v, a)
        /\ inert' = inert \ Woken(v, a)
        /\ live' = live \cup Woken(v, a) \cup VariableDependents(led', v)
    /\ NextAudit
    /\ UNCHANGED shifted

\* The audit confirms the failed sentinel: the change cascades to every
\* believed descendant.
AuditConfirmsFailure(v) ==
    /\ AtAudit(v) /\ v \in failed
    /\ \E a \in Audits(v, visible) :
        LET installed == InstallVar(v, a)
        IN /\ SemanticChange(led[v], a)
           /\ led' = Invalidate(installed, {v})
           /\ inert' = inert \ Woken(v, a)
           /\ live' = live \cup Woken(v, a) \cup VariableDependents(installed, v)
                           \cup ClosureDescendants(installed, {v})
    /\ shifted' = TRUE
    /\ NextAudit

\* The envelope after an audit that kept the fit: quiet when the envelope
\* neither re-certified nor is failing.  The last quiet audit that is needed
\* issues the noise-floor certificate.
EnvelopeAfter(n, quiet) ==
    IF ~n.mature THEN n
    ELSE IF ~quiet THEN [n EXCEPT !.stable = 0]
    ELSE LET counted == [n EXCEPT !.stable = @ + 1]
         IN IF counted.stable = StableThreshold
            THEN IssueSkip(counted, "noise_floor") ELSE counted

\* The audit finds the fit it had (or tied churn).  A noisy miss may also
\* rescreen the inert variables (every sixth one does).
AuditKeepsFit(v) ==
    /\ AtAudit(v)
    /\ \E a \in Audits(v, visible), settled \in BOOLEAN, quiet \in BOOLEAN,
          rescreened \in IF v \in failed THEN SUBSET inert ELSE {{}} :
        LET installed == InstallVar(v, a)
        IN /\ ~SemanticChange(led[v], a)
           /\ inert' = inert \ rescreened
           /\ live' = IF Parks(installed[v], settled)
                      THEN (live \cup rescreened) \ {v} ELSE live \cup rescreened
           /\ led' = [installed EXCEPT ![v] = EnvelopeAfter(@, quiet)]
    /\ NextAudit
    /\ UNCHANGED shifted

AuditPass(v) ==
    \/ AuditFindsChange(v) \/ AuditConfirmsFailure(v) \/ AuditKeepsFit(v)

-----------------------------------------------------------------------------
(* End of the cycle                                                        *)

\* After a confirmed shift the inert variables are screened again.
RescreenInert ==
    /\ phase = "audit" /\ Done
    /\ \E salient \in IF shifted THEN SUBSET inert ELSE {{}} :
        /\ inert' = inert \ salient
        /\ live' = live \cup salient
    /\ phase' = "close" /\ order' = <<>> /\ pos' = 1 /\ shifted' = FALSE
    /\ UNCHANGED <<led, visible, covered, needs, failed, cycle>>

\* The visible variables never audited that frontier admission may admit.
Unknown == {v \in Seen : v \notin live /\ v \notin inert /\ ~led[v].audited}

Admissions ==
    IF \E v \in live : ~led[v].audited THEN {{}}
    ELSE IF Cardinality(Unknown) <= FrontierK THEN {Unknown}
    ELSE {A \in SUBSET Unknown : Cardinality(A) = FrontierK}

\* The members of new composites (trass, or inert and never tested) leave the
\* trass status; those whose trass cert was issued without sources (flagged)
\* also lose the certificate.
JointVerdict(members, flagged) ==
    [v \in Vars |->
        IF v \in flagged THEN Contradict(led[v])
        ELSE IF v \in members /\ led[v].status = "trass"
        THEN [led[v] EXCEPT !.status = "proposed"] ELSE led[v]]

EndCycle ==
    /\ phase = "close"
    /\ \E admitted \in Admissions : live' = live \cup admitted
    /\ \E members \in Groups :
        /\ \A v \in members : led[v].role = "trass" \/ v \in inert
        /\ \E flagged \in SUBSET {v \in members : led[v].role = "trass"} :
            led' = JointVerdict(members, flagged)
    /\ phase' = "idle" /\ failed' = {}
    /\ UNCHANGED <<visible, inert, order, pos, covered, needs, shifted, cycle>>

-----------------------------------------------------------------------------
StepAt(v) == BootAudit(v) \/ FirstPass(v) \/ AuditPass(v)

Next ==
    \/ GoLive \/ Reveal \/ StartCycle \/ StartAudits \/ RescreenInert \/ EndCycle
    \/ \E v \in Vars : StepAt(v)

Spec == Init /\ [][Next]_vars

\* The drivers call run_cycle in a loop, and a cycle runs to its end.
LiveSpec == Spec /\ WF_vars(Next)

-----------------------------------------------------------------------------
(* Properties                                                              *)

\* Every variable of the loop has its type.
TypeOK ==
    /\ led \in [Vars -> VarNethra]
    /\ visible \in 1 .. NVars
    /\ live \in SUBSET Vars /\ inert \in SUBSET Vars
    /\ phase \in Phases
    /\ order \in Seq(Vars) /\ pos \in Nat \ {0}
    /\ covered \in SUBSET Vars /\ needs \in SUBSET Vars /\ failed \in SUBSET Vars
    /\ shifted \in BOOLEAN
    /\ cycle \in 0 .. Period - 1

\* Case C of the rate limit ("best fit accepted at noise floor") shuts exactly
\* the variables that hold a noise-floor certificate out of the audit queue:
\* the stable-audit count and the certificate are never out of step.
FloorIffStable ==
    \A v \in Vars : led[v].role = "noise_floor" <=> led[v].stable >= StableThreshold

\* A candidate certified irrelevant to a variable's fit is never a source of
\* that fit, although route certificates outlive every change of signature.
RouteNeverSource == \A v \in Vars : led[v].route \cap led[v].src = {}

Descendants(L, v) == Reached(Beliefs(L), {v}) \ {v}

\* An earned skip role is lost only to evidence against the variable itself:
\* its own sentinel check of the first pass, or a composite it belongs to.  No
\* cascade, and no audit of its own or of another variable, takes it away.
RevokedOnlyByEvidence ==
    [][\A v \in Vars : Earned(led[v]) /\ ~Earned(led'[v]) =>
            \/ phase = "first" /\ Current(v)
            \/ phase = "idle" /\ v \in Joint]_vars

\* Noisy misses do not cascade (the graded cascade of run_cycle): away from
\* its own step of the first pass, a certified variable is demoted only when
\* it is, or descends from, a variable that failed its sentinel in this cycle
\* and whose audit now found another fit.
CascadeOnlyConfirmed ==
    [][\A v \in Vars :
        led[v].status = "certified" /\ led'[v].status = "uncertain" =>
            \/ phase = "first" /\ Current(v)
            \/ \E u \in failed :
                /\ phase = "audit" /\ Current(u)
                /\ <<led'[u].src, led'[u].func>> # <<led[u].src, led[u].func>>
                /\ v \in Reached(Beliefs(led'), {u})]_vars

\* When an audit confirms a failed sentinel, no variable that descends from
\* the changed one through any chain of believed fits may still be skipped on
\* its sentinels, and each one is live, so that its own audit can follow.
CascadeComplete ==
    [][\A u \in failed :
        /\ phase = "audit" /\ Current(u)
        /\ \/ led'[u].src # led[u].src
           \/ led'[u].func # led[u].func /\ ~shifted /\ shifted'
        => \A d \in Descendants(led', u) : ~Authoritative(led'[d]) /\ d \in live']_vars

\* A provisional trass certificate is not probed for ever: enough quiet probes
\* make it strong, or it is revoked, dormant or not and whatever happens to the
\* threshold as dependents come and go.  Only composites may put it off, by
\* covering the variable again and again.
ProvisionalResolved ==
    \A v \in Vars : led[v].role = "trass"
        ~> \/ led[v].role # "trass" \/ led[v].passes >= TrassThreshold(led, v)
           \/ v \in covered

\* The queue is cut at the budget and v, queued by this cycle, is behind the cut.
PutOff(v) ==
    /\ phase = "first" /\ phase' = "audit"
    /\ v \in needs
    /\ \A i \in DOMAIN order' : order'[i] # v

\* A live variable demoted, awaiting the audit that brings it back.
Demoted(v) ==
    led[v].status = "uncertain" /\ v \in live /\ led[v].role \notin {"trass", "noise_floor"}

Recovered(v) == led[v].status # "uncertain" \/ led[v].role \in {"trass", "noise_floor"}

\* A live variable demoted by its own sentinel or by a cascade comes back: it is
\* audited, through back-off, novelty holds and the audits put off over the
\* budget, and leaves "uncertain", unless an audit settles it as trass or at the
\* noise floor.  Only a variable that never stops being put off, or that
\* composites never stop covering, may be left.
DemotedRecovers ==
    \A v \in Vars :
        \/ Demoted(v) ~> Recovered(v)
        \/ []<><<PutOff(v)>>_vars
        \/ []<>(v \in covered)

-----------------------------------------------------------------------------
(* What the comments of the code say and the code does not do              *)

\* "Force re-test of those trass vars" (_install_var): an audited variable
\* whose role is revoked has its role tested again.
RetestForced ==
    \A v \in Vars : led[v].audited /\ led[v].role = "untested" ~> led[v].role # "untested"

\* "Excess vars are deferred to next cycle" (run_cycle): a variable put off over
\* the budget gets its turn, whoever is queued before it.
DeferredServed == \A v \in Vars : Demoted(v) ~> Recovered(v)

\* Case C is left "only via sentinel failure (which resets this to 0)"
\* (VarNethra.audit_stable_count): a noise-floor variable demoted by a cascade
\* leaves the noise floor again.
FloorReopens ==
    \A v \in Vars :
        led[v].status = "uncertain" /\ led[v].role = "noise_floor"
            ~> (led[v].status # "uncertain" \/ led[v].role # "noise_floor")
=============================================================================
