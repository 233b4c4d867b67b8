---------------------------- MODULE FitFrontier ----------------------------
(***************************************************************************)
(* What one variable of the agent's ledger keeps about its fit besides     *)
(* its authority (dreth/agent.py and dreth/ledger.py): the frontier of     *)
(* near-tied hypotheses, the dormant alternatives archived from it, the    *)
(* compressions found under the fit, and the novelty raised when the fit   *)
(* keeps swinging.  All four are rewritten by the installation of an       *)
(* audit, and the first pass of a cycle tries the compressions and may     *)
(* take the frontier away.                                                 *)
(*                                                                         *)
(* The other variables and the world enter as choices: what an audit       *)
(* finds, who loses a role, who is demoted in a cascade.  The numbers that *)
(* rank hypotheses and probes are left out, and so are the anchors of a    *)
(* gate (one gate per set of sources stands for those of every anchor).    *)
(***************************************************************************)
EXTENDS Naturals, FiniteSets, Sequences

CONSTANTS
    Hyps,            \* hypotheses (source_edges, func)
    Sources,         \* the other variables
    Src,             \* the source_edges of each hypothesis
    Unfitted,        \* the constant LOW a variable starts with
    Contexts,        \* context keys: the sets of available source_edges
    NoContext,
    PromoteAfter, DiscoverAfter,   \* promote_after, compression_discover_after
    MatchesNeeded,   \* compression_promote_after
    WeakStreak,      \* novelty_weak_streak
    StrongCap,       \* bound: strong_observations saturates here
    PreserveCap      \* alternatives the authority controller lets a cycle keep

ASSUME FrontierAssumption ==
    /\ IsFiniteSet(Hyps)
    /\ Src \in [Hyps -> SUBSET Sources]
    /\ Unfitted \in Hyps /\ Src[Unfitted] = {}
    /\ NoContext \notin Contexts
    /\ {PromoteAfter, DiscoverAfter, MatchesNeeded, WeakStreak} \subseteq Nat \ {0}
    /\ StrongCap \in Nat /\ PromoteAfter <= StrongCap /\ DiscoverAfter <= StrongCap
    /\ PreserveCap \in Nat

VARIABLES
    fit,        \* the current hypothesis
    audited,    \* full_audits > 0
    status, role, sentinels, strong,   \* as in the module Ledger
    failed,     \* var in _sentinel_failed_vars
    frontier,   \* tied_frontier
    dormant,    \* dormant_alternatives
    gates,      \* pred_passes of the compressions, by the gate's sources
    compress,   \* whether a "compress" certificate is held
    weak, steady,   \* weak_streak, stable_streak, up to WeakStreak
    open,       \* whether a vocabulary novelty is open
    run,        \* history: audits in a row with the frontier's near-tie set
    chain,      \* history: contexts of those audits, with that very set
    trassed     \* history: the open novelty outlived a reset of the streaks

record  == <<status, role, sentinels, strong>>
vars == <<fit, audited, record, failed, frontier, dormant, gates, compress,
          weak, steady, open, run, chain, trassed>>

StableFloor == 3
ContextFloor == 2
NoFrontier == [cands |-> {}, key |-> NoContext, stable |-> 0, contexts |-> 0]
None == frontier.cands = {}
Fresh(near, key) == [cands |-> near, key |-> key, stable |-> 1, contexts |-> 1]
Count(n, cap) == IF n < cap THEN n + 1 ELSE cap
Archive(hyps) == [hyp : hyps, revived : {FALSE}]
NoGates == [g \in {} |-> 0]

-----------------------------------------------------------------------------
(* An audit and its installation                                           *)

\* The near-tie sets fit_var returns around a winner.
NearTies(best) == {near \in SUBSET Hyps : best \in near}

\* An audit: the winner, the near-tie set around it, the key of the context they
\* come from, and whether the old fit, another function of the same sources,
\* scored exactly as well.
Audits ==
    {a \in [best : Hyps, near : SUBSET Hyps, tied : BOOLEAN, key : Contexts] :
        /\ a.near \in NearTies(a.best)
        /\ a.tied => fit \in a.near \ {a.best} /\ Src[fit] = Src[a.best]}

\* Any new signature but same_source_edge_tied_churn.
SemanticChange(a) == fit # a.best /\ ~a.tied

\* _certify_operation_role runs only for an untested variable.
RoleAfter == IF role = "untested" THEN {"untested", "tareth", "trass"} ELSE {role}

\* The status, the sentinels and the strong observations once the fit is
\* committed; attach tells whether sentinels could be selected.
Committed(a, r, attach) ==
    LET reset == SemanticChange(a)
        kept  == [status |-> IF reset THEN "proposed" ELSE status,
                  sentinels |-> sentinels /\ ~reset, strong |-> strong]
        count == IF reset THEN 1 ELSE Count(strong, StrongCap)
        armed == kept.sentinels \/ attach
    IN IF r = "trass"
       THEN [kept EXCEPT !.sentinels = FALSE, !.strong = IF reset THEN 0 ELSE @]
       ELSE [status |-> IF count >= PromoteAfter /\ armed THEN "certified"
                        ELSE IF kept.status = "uncertain" THEN "proposed"
                        ELSE kept.status,
             sentinels |-> armed, strong |-> count]

\* A promotion to certified, the only moment alternatives are revived.
Promoted(a, r, c) ==
    r # "trass" /\ c.status = "certified" /\ (status # "certified" \/ SemanticChange(a))

\* The dormant alternatives that win the audit of a promotion are revived.
Revived(alts, a) ==
    {[d EXCEPT !.revived = @ \/ d.hyp = a.best] : d \in alts}

\* _discover_compressions: gates that make the prediction nearly constant,
\* searched once the fit is sampled and strong and none is known.  Without
\* leave of the authority controller nothing is found.
Discovered(kept, a, c) ==
    IF c.sentinels /\ c.strong >= DiscoverAfter /\ DOMAIN kept = {}
    THEN {[g \in {{p} : p \in S} |-> 0] : S \in SUBSET Src[a.best]}
    ELSE {kept}

WithNew(known, derived) ==
    [g \in DOMAIN known \cup derived |-> IF g \in DOMAIN known THEN known[g] ELSE 0]

\* The extension hook: for a sampled tareth variable dreth_extensions derives
\* further gates, each over some of the sources of the fit.
Compressions(kept, a, r, c) ==
    IF r = "tareth" /\ c.sentinels
    THEN {WithNew(known, derived) : known \in Discovered(kept, a, c),
                                    derived \in SUBSET (SUBSET Src[a.best] \ {{}})}
    ELSE Discovered(kept, a, c)

FrontierKeepsCount(old, a) ==
    IF old.cands = {} THEN Fresh(a.near, a.key)
    ELSE [cands |-> a.near, key |-> a.key, stable |-> Count(old.stable, StableFloor),
          contexts |-> IF old.key = a.key THEN old.contexts
                       ELSE Count(old.contexts, ContextFloor)]

\* _update_tied_frontier: the same set again counts, and counts a context when
\* the key moved; another set starts over, but for the contexts already
\* counted, which it inherits as long as the key stands.
UpdatedFrontier(old, a) ==
    IF old.cands = {} THEN Fresh(a.near, a.key)
    ELSE IF a.near = old.cands
    THEN [old EXCEPT !.stable = Count(@, StableFloor), !.key = a.key,
                     !.contexts = IF a.key # old.key THEN Count(@, ContextFloor) ELSE @]
    ELSE IF a.key # old.key THEN Fresh(a.near, a.key)
    ELSE [Fresh(a.near, a.key) EXCEPT !.contexts = old.contexts]

Proven(f) == f.stable >= StableFloor /\ f.contexts >= ContextFloor

\* _collapse_tied_frontier: what joins the archive when the winner stands
\* alone.  A proven frontier archives every loser; any other is discarded, but
\* for as many losers, not archived yet, as the authority controller spares.
Collapsed(old, alts, a) ==
    LET losers == old.cands \ {a.best}
        unkept == losers \ {d.hyp : d \in alts}
    IN IF Proven(old) THEN {losers}
       ELSE {S \in SUBSET unkept : Cardinality(S) <= PreserveCap}

ArchiveKept(a) == dormant

\* update_var forgets the archive, as it does the frontier and the
\* compressions, when the change is semantic; the certificate for a compression
\* is no part of the reset.
ArchiveLeft(a) == IF SemanticChange(a) THEN {} ELSE dormant

\* The frontier once the audit is installed, ahead of the cascade; a trass
\* variable leaves the installation before its frontier is looked at.
FrontierAfter(a, r, left) ==
    IF r = "trass" THEN left
    ELSE IF Cardinality(a.near) >= 2 THEN UpdatedFrontier(left, a)
    ELSE NoFrontier

\* What the frontier sends to the archive: the candidates that fell out of it,
\* or what its collapse keeps.
Dropped(a, r, left, alts) ==
    IF r = "trass" \/ left.cands = {} THEN {{}}
    ELSE IF Cardinality(a.near) >= 2 THEN {left.cands \ a.near}
    ELSE Collapsed(left, alts, a)

\* The history of a frontier, told from the audits alone: how often in a row
\* its very set was the near-tie set, and in which contexts.
Remember(a, r, left, lost) ==
    IF lost THEN run' = 0 /\ chain' = {}
    ELSE IF r = "trass" THEN UNCHANGED <<run, chain>>
    ELSE /\ run' = IF a.near = left.cands THEN Count(run, StableFloor) ELSE 1
         /\ chain' = IF a.near = left.cands THEN chain \cup {a.key} ELSE {a.key}

\* select_var_sentinels is asked when the variable has no sentinels, or lost
\* them with its fit; whether some can be found depends on the fit.
Attachable(a, r) ==
    IF r # "trass" /\ (~sentinels \/ SemanticChange(a)) THEN BOOLEAN ELSE {FALSE}

\* _install_var, and the cascade of run_cycle when the audit that found a
\* change answers a failed sentinel: it demotes the variable it starts from and
\* takes the new frontier away.
InstallVar(a, r) ==
    \E attach \in Attachable(a, r) :
        LET left == IF SemanticChange(a) THEN NoFrontier ELSE frontier
            held == IF SemanticChange(a) THEN NoGates ELSE gates
            c    == Committed(a, r, attach)
            alts == IF Promoted(a, r, c) THEN Revived(ArchiveLeft(a), a) ELSE ArchiveLeft(a)
            hit  == failed /\ SemanticChange(a)
        IN /\ fit' = a.best /\ audited' = TRUE /\ failed' = FALSE
           /\ sentinels' = c.sentinels
           /\ status' = IF hit /\ c.status = "certified" THEN "uncertain" ELSE c.status
           /\ strong' = IF hit /\ c.status = "proposed" THEN 0 ELSE c.strong
           /\ frontier' = IF hit THEN NoFrontier ELSE FrontierAfter(a, r, left)
           /\ gates' \in IF r = "trass" THEN {held} ELSE Compressions(held, a, r, c)
           /\ \E gone \in Dropped(a, r, left, alts) :
                dormant' = alts \cup Archive(gone)
           /\ Remember(a, r, left, frontier' = NoFrontier)
           /\ UNCHANGED compress

-----------------------------------------------------------------------------
(* The streaks and the novelty                                             *)

NoveltySteadyClears(r, swung) ==
    IF r = "trass" \/ status' = "trass"
    THEN weak' = 0 /\ steady' = 0 /\ trassed' = open /\ UNCHANGED open
    ELSE IF swung
    THEN /\ weak' = Count(weak, WeakStreak) /\ steady' = 0
         /\ open' = (open \/ weak' >= WeakStreak)
         /\ trassed' = (trassed /\ weak' < WeakStreak)
    ELSE /\ weak' = 0 /\ steady' = Count(steady, WeakStreak)
         /\ open' = (open /\ ~(steady' >= WeakStreak /\ weak > 0))
         /\ trassed' = (trassed /\ open')

\* propose_novelty adds to the open novelty or opens one; resolve_novelty, asked
\* after so many steady audits with a swing still on record, closes it.
Raised(swings) == open \/ swings >= WeakStreak
Resolved(calm) == calm >= WeakStreak /\ weak > 0

\* _maybe_novelty: as many swings as WeakStreak, however far apart unless as
\* many steady audits come between, raise the novelty.  A trass variable loses
\* both streaks and keeps the novelty.
Novelty(r, swung) ==
    IF r = "trass" \/ status' = "trass"
    THEN weak' = 0 /\ steady' = 0 /\ trassed' = open /\ UNCHANGED open
    ELSE IF swung
    THEN /\ weak' = Count(weak, WeakStreak) /\ steady' = 0
         /\ open' = Raised(weak')
         /\ trassed' = (trassed /\ weak' < WeakStreak)
    ELSE /\ steady' = Count(steady, WeakStreak)
         /\ weak' = IF Resolved(steady') THEN 0 ELSE weak
         /\ open' = (open /\ ~Resolved(steady'))
         /\ trassed' = (trassed /\ ~Resolved(steady'))

-----------------------------------------------------------------------------
(* The cycle                                                               *)

Init ==
    /\ fit = Unfitted /\ audited = FALSE
    /\ status = "proposed" /\ role = "untested" /\ sentinels = FALSE /\ strong = 0
    /\ failed = FALSE /\ frontier = NoFrontier /\ dormant = {}
    /\ gates = NoGates /\ compress = FALSE
    /\ weak = 0 /\ steady = 0 /\ open = FALSE
    /\ run = 0 /\ chain = {} /\ trassed = FALSE

\* initialize and on_variable_revealed audit a variable without judging its
\* stability.
FirstAudit ==
    /\ ~audited
    /\ \E a \in Audits, r \in RoleAfter : InstallVar(a, r) /\ role' = r
    /\ UNCHANGED <<weak, steady, open, trassed>>

\* An audit of run_cycle.  A fit that stays, with an envelope that has stopped
\* moving, gets the noise-floor role whatever role it had.
Audit ==
    \E a \in Audits, r \in RoleAfter :
        /\ InstallVar(a, r)
        /\ role' \in IF SemanticChange(a) THEN {r} ELSE {r, "noise_floor"}
        /\ Novelty(role', SemanticChange(a))

\* _try_compression and the trial before it in the first pass: a gate that
\* matches the state and predicts well earns a pass, one that predicts badly
\* starts over and takes the certificate; gates that earned their passes are
\* believed and no longer compared.  Which of two gates comes last is open.
TryCompressions ==
    LET tried == {g \in DOMAIN gates : gates[g] < MatchesNeeded}
    IN /\ role # "trass" /\ status \in {"certified", "proposed"} /\ tried # {}
       /\ \E good \in SUBSET tried : \E bad \in SUBSET (tried \ good) :
            /\ gates' = [g \in DOMAIN gates |->
                            IF g \in good THEN gates[g] + 1
                            ELSE IF g \in bad THEN 0 ELSE gates[g]]
            /\ LET earned == \E g \in good : gates[g] + 1 = MatchesNeeded
               IN compress' \in IF bad = {} THEN {compress \/ earned} ELSE {earned, FALSE}
       /\ UNCHANGED <<fit, audited, record, failed, frontier, dormant, weak,
                      steady, open, run, chain, trassed>>

\* A sentinel of an authoritative variable fails: local demotion.
SentinelFails ==
    /\ role \in {"tareth", "noise_floor"} /\ sentinels
    /\ status \in {"certified", "proposed"}
    /\ role' = "untested" /\ status' = "uncertain"
    /\ strong' = IF status = "certified" THEN strong ELSE 0
    /\ frontier' = NoFrontier /\ run' = 0 /\ chain' = {} /\ failed' = TRUE
    /\ UNCHANGED <<fit, audited, sentinels, dormant, gates, compress, weak,
                   steady, open, trassed>>

\* The cascade of a failure above: invalidate() on a descendant.
Cascaded ==
    /\ status' = IF status = "trass" THEN status ELSE "uncertain"
    /\ strong' = IF status = "proposed" THEN 0 ELSE strong
    /\ frontier' = NoFrontier /\ run' = 0 /\ chain' = {}
    /\ UNCHANGED <<fit, audited, role, sentinels, failed, dormant, gates, compress,
                   weak, steady, open, trassed>>

\* The skip certificate goes, and the frontier stays: a stale probe of a trass
\* certificate, a fit that leans on the trass variable (which ends the trass
\* status), a composite that fails, a witness that expires (which tests again).
RoleLost ==
    /\ role # "untested"
    /\ role' \in IF role = "tareth" /\ sentinels THEN {"untested", "tareth", "trass"}
                 ELSE {"untested"}
    /\ status' \in {status} \cup (IF status = "trass" THEN {"proposed"} ELSE {})
    /\ UNCHANGED <<fit, audited, sentinels, strong, failed, frontier, dormant,
                   gates, compress, weak, steady, open, run, chain, trassed>>

\* Enough quiet probes make a trass role strong.
TrassStrong ==
    /\ role = "trass" /\ status' = "trass"
    /\ UNCHANGED <<fit, audited, role, sentinels, strong, failed, frontier, dormant,
                   gates, compress, weak, steady, open, run, chain, trassed>>

\* The next cycle: no failure is pending any more.
NextCycle ==
    /\ failed /\ failed' = FALSE
    /\ UNCHANGED <<fit, audited, record, frontier, dormant, gates, compress,
                   weak, steady, open, run, chain, trassed>>

Next ==
    \/ FirstAudit \/ Audit \/ TryCompressions \/ SentinelFails
    \/ Cascaded \/ RoleLost \/ TrassStrong \/ NextCycle

Spec == Init /\ [][Next]_vars

-----------------------------------------------------------------------------
(* Properties                                                              *)

\* The hypotheses that enter the archive in a step.
Archived == {d.hyp : d \in dormant'} \ {d.hyp : d \in dormant}

\* A step in which the frontier collapses and leaves more alternatives behind
\* than the authority controller allows on its own.
Archiving == ~None /\ frontier' = NoFrontier /\ Cardinality(Archived) > PreserveCap

\* A frontier that collapses leaves alternatives behind only if its very
\* candidates were the near-tie set of three audits in a row, none of which
\* another fit, a failure or a cascade came between, or within the cap the
\* authority controller set.
CollapseStable == [][Archiving => run = StableFloor]_vars

\* What is kept beside the fit is about that fit: a tareth variable's frontier
\* contains it, the gates of its compressions are its sources, and an
\* alternative that was ever revived differs from it in the function only.
OfThisFit ==
    /\ role = "tareth" /\ ~None => fit \in frontier.cands
    /\ UNION DOMAIN gates \subseteq Src[fit]
    /\ \A d \in dormant : d.revived => Src[d.hyp] = Src[fit]

\* An open novelty has its swings on record and is not yet answered by as many
\* steady audits, unless the variable was trass while it was open.
OpenIsUnsettled == open /\ ~trassed => weak >= WeakStreak /\ steady < WeakStreak

-----------------------------------------------------------------------------
(* What the comments of the code say and the code does not do              *)

\* distinct_contexts_seen is the "number of distinct context_key values the same
\* candidate set has persisted through", and "collapse requires [...] >= 2"
\* (TiedFrontier): losers are archived on audits of two contexts, all with the
\* frontier's candidates.
ArchivesEarned ==
    [][Archiving => run = StableFloor /\ Cardinality(chain) >= ContextFloor]_vars

=============================================================================
