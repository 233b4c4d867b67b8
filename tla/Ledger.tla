------------------------------- MODULE Ledger -------------------------------
(***************************************************************************)
(* The per-variable record of the agent's ledger (dreth/ledger.py) and the *)
(* transactions that rewrite it.  Everything here is a constant operator   *)
(* on records and on ledgers (functions from variables to records); the    *)
(* state machine that drives them is in AgentCycle.                        *)
(*                                                                         *)
(* Of VarNethra the record keeps what decides authority: the current fit,  *)
(* the lifecycle status, the skip certificate (its role and its quiet      *)
(* probe count), whether sentinels are attached, and the counters that     *)
(* gate promotion, back-off and the noise floor.                           *)
(***************************************************************************)
EXTENDS Naturals, FiniteSets

CONSTANTS
    NVars,             \* number of ledger slots; variable v is 0..NVars-1
    Funcs,             \* names of library functions a fit may use
    DefaultFunc,       \* "LOW", the function of a variable never fitted
    StrongCap,         \* bound: strong_observations saturates here
    BackoffThreshold,  \* _BACKOFF_THRESHOLD of run_cycle
    StableThreshold,   \* _STABLE_THRESHOLD of run_cycle
    PassCap            \* bound: sentinel_passes of a trass cert saturates here

ASSUME LedgerAssumption ==
    /\ NVars \in Nat \ {0}
    /\ DefaultFunc \in Funcs
    /\ StrongCap \in Nat \ {0}
    /\ BackoffThreshold \in Nat \ {0}
    /\ StableThreshold \in Nat \ {0}
    /\ PassCap \in Nat \ {0}

Vars == 0 .. NVars - 1

Roles == {"untested", "tareth", "trass", "noise_floor"}
Statuses == {"proposed", "certified", "uncertain", "trass"}

\* Saturating addition: the counters below are only ever compared with
\* thresholds at or below their cap, and otherwise only reset to zero.
Bump(count, cap) == IF count < cap THEN count + 1 ELSE cap

VarNethra ==
    [ src       : SUBSET Vars,          \* source_edges of the current fit
      func      : Funcs,
      status    : Statuses,
      strong    : 0 .. StrongCap,       \* strong_observations
      sentinels : BOOLEAN,              \* whether any sentinel is attached
      role      : Roles,                \* role_for("skip")
      passes    : 0 .. PassCap,         \* sentinel_passes; confirmed iff > 0
      csf       : 0 .. BackoffThreshold,  \* consecutive_sentinel_failures
      stable    : Nat,                  \* audit_stable_count
      mature    : BOOLEAN,              \* enough envelope deltas to certify
      audited   : BOOLEAN,              \* full_audits > 0
      route     : SUBSET Vars ]         \* candidates with a trass route cert

FreshVar ==
    [ src |-> {}, func |-> DefaultFunc, status |-> "proposed", strong |-> 0,
      sentinels |-> FALSE, role |-> "untested", passes |-> 0, csf |-> 0,
      stable |-> 0, mature |-> FALSE, audited |-> FALSE, route |-> {} ]

-----------------------------------------------------------------------------
(* Reading a record                                                        *)

Earned(n) == n.role \in {"tareth", "noise_floor"}

Authoritative(n) ==
    /\ Earned(n)
    /\ n.sentinels
    /\ n.status \in {"certified", "proposed"}

\* The variables other fits may lean on: certified or trass, or proposed
\* with sentinels attached.
Decided(n) ==
    \/ n.status \in {"certified", "trass"}
    \/ n.role = "trass"
    \/ n.status = "proposed" /\ n.sentinels

-----------------------------------------------------------------------------
(* Transactions on one record                                              *)

IssueSkip(n, role) == [n EXCEPT !.role = role, !.passes = 0]

\* certificates.pop("skip"): role_for answers "untested" from here on.
PopSkip(n) == IssueSkip(n, "untested")

InvalidateKeepsCount(n) == PopSkip(n)

\* invalidate_certs for its two raised events, sentinel_failure and
\* false_trass_contradiction.  A noise-floor variable restarts its count.  The
\* quiet-probe count of the flagged certificate is never read again: only a
\* newly issued certificate can be trass, and it starts from zero.
InvalidateCerts(n) ==
    [PopSkip(n) EXCEPT
        !.stable = IF n.role = "noise_floor" THEN 0 ELSE @]

\* What both contradiction sites do: revoke, and leave the trass status.
Contradict(n) ==
    [InvalidateCerts(n) EXCEPT
        !.status = IF @ = "trass" THEN "proposed" ELSE @]

\* update_var: a reset drops everything measured against the old fit.  The
\* certificates and the stable-audit count are not part of the reset.
UpdateVar(n, fit, reset) ==
    LET kept == [n EXCEPT !.src = fit.src, !.func = fit.func]
    IN IF reset
       THEN [kept EXCEPT !.status = "proposed", !.strong = 0,
                         !.sentinels = FALSE, !.mature = FALSE]
       ELSE kept

DemoteRevokes(n, descendant) ==
    IF n.status = "certified" THEN [PopSkip(n) EXCEPT !.status = "uncertain"] ELSE n

\* What invalidate() does to one member of the closure.
Demote(n, descendant) ==
    CASE n.status = "certified" -> [n EXCEPT !.status = "uncertain"]
      [] n.status = "proposed"  ->
            [n EXCEPT !.strong = 0,
                      !.status = IF descendant THEN "uncertain" ELSE @]
      [] OTHER -> n

-----------------------------------------------------------------------------
(* The belief graph: an edge <<p, d>> when the fit of d lists p            *)

VariableDependents(L, v) == {d \in Vars : v \in L[d].src}

Beliefs(L) == {e \in Vars \X Vars : e[1] \in L[e[2]].src}

\* The edges a cascade follows: a trass route cert prunes its edge.
CascadeEdges(L) ==
    {e \in Vars \X Vars : e[1] \in L[e[2]].src /\ e[1] \notin L[e[2]].route}

\* The variables reached from S: the least set that holds S and is closed
\* under the edges.
Reached(edges, S) ==
    {d \in Vars : \A C \in SUBSET Vars :
        (S \subseteq C /\ \A e \in edges : e[1] \in C => e[2] \in C) => d \in C}

\* What _topological_order promises of an order: a source comes before its
\* dependents, except along a cycle of beliefs.  (TopologicalOrder checks the
\* algorithm against this.)
Topological(L, o) ==
    \A i, j \in DOMAIN o :
        o[j] \in L[o[i]].src /\ i < j => o[j] \in Reached(Beliefs(L), {o[i]})

DirectDependents(L, S) == S \cup UNION {VariableDependents(L, v) : v \in S}

ClosureDescendants(L, S) == Reached(CascadeEdges(L), S)

\* invalidate(): the cascade through the closure of S.
Invalidate(L, S) ==
    LET closure == ClosureDescendants(L, S)
    IN [d \in Vars |-> IF d \in closure THEN Demote(L[d], d \notin S) ELSE L[d]]
=============================================================================
