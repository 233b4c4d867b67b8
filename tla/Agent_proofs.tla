---------------------------- MODULE Agent_proofs ----------------------------
(***************************************************************************)
(* Theorems about AgentCycle, for every number of variables, every set of  *)
(* fits the audits may return and every threshold, and about the graph     *)
(* algorithms of TopologicalOrder, for every graph the audits may install. *)
(***************************************************************************)
EXTENDS AgentCycle, TopologicalOrder, FiniteSetTheorems, SequenceTheorems,
        NaturalsInduction, WellFoundedInduction, TLAPS

-----------------------------------------------------------------------------
(* What the transactions of Ledger preserve                                *)

\* What holds of one record: the stable-audit count reaches the threshold
\* exactly when the noise-floor certificate is held, and never passes it.
FloorOK(n) ==
    /\ n.stable <= StableThreshold
    /\ n.role = "noise_floor" <=> n.stable = StableThreshold

RouteOK(n) == n.route \cap n.src = {}

LEMMA Zeros ==
    /\ 0 \in 0 .. StrongCap /\ 0 \in 0 .. PassCap /\ 0 \in 0 .. BackoffThreshold
    /\ 1 \in 0 .. StrongCap
    /\ StableThreshold \in Nat /\ 0 < StableThreshold
    /\ DefaultFunc \in Funcs
BY LedgerAssumption DEF LedgerAssumption

LEMMA BumpType ==
    ASSUME NEW cap \in Nat, NEW count \in 0 .. cap
    PROVE  Bump(count, cap) \in 0 .. cap
BY DEF Bump

LEMMA FreshVarType == FreshVar \in VarNethra /\ FloorOK(FreshVar) /\ RouteOK(FreshVar)
BY Zeros DEF FreshVar, VarNethra, FloorOK, RouteOK, Statuses, Roles

LEMMA IssueSkipType ==
    ASSUME NEW n \in VarNethra, NEW role \in Roles
    PROVE  /\ IssueSkip(n, role) \in VarNethra
           /\ IssueSkip(n, role) = [n EXCEPT !.role = role, !.passes = 0]
           /\ RouteOK(n) => RouteOK(IssueSkip(n, role))
           /\ n.role # "noise_floor" /\ role # "noise_floor" /\ FloorOK(n)
                => FloorOK(IssueSkip(n, role))
BY Zeros DEF IssueSkip, VarNethra, FloorOK, RouteOK

LEMMA InvalidateCertsType ==
    ASSUME NEW n \in VarNethra
    PROVE  /\ InvalidateCerts(n) \in VarNethra
           /\ InvalidateCerts(n).role = "untested"
           /\ FloorOK(n) => FloorOK(InvalidateCerts(n))
           /\ RouteOK(n) => RouteOK(InvalidateCerts(n))
<1> DEFINE popped == [n EXCEPT !.role = "untested", !.passes = 0]
           count == IF n.role = "noise_floor" THEN 0 ELSE n.stable
<1>1. popped \in VarNethra /\ popped.role = "untested" /\ popped.stable = n.stable
  BY Zeros DEF VarNethra, Roles
<1>2. count \in Nat
  BY DEF VarNethra
<1>3. InvalidateCerts(n) = [popped EXCEPT !.stable = count]
  BY <1>1 DEF InvalidateCerts, PopSkip, IssueSkip
<1>4. [popped EXCEPT !.stable = count] \in VarNethra
  BY <1>1, <1>2 DEF VarNethra
<1>5. QED
  BY <1>1, <1>2, <1>3, <1>4, Zeros DEF VarNethra, FloorOK, RouteOK

LEMMA ContradictType ==
    ASSUME NEW n \in VarNethra
    PROVE  /\ Contradict(n) \in VarNethra
           /\ Contradict(n).role = "untested"
           /\ FloorOK(n) => FloorOK(Contradict(n))
           /\ RouteOK(n) => RouteOK(Contradict(n))
<1>1. InvalidateCerts(n) \in VarNethra
  BY InvalidateCertsType
<1>2. QED
  BY <1>1, InvalidateCertsType DEF Contradict, VarNethra, Statuses, FloorOK, RouteOK

LEMMA UpdateVarType ==
    ASSUME NEW n \in VarNethra, NEW fit \in [src : SUBSET Vars, func : Funcs],
           NEW reset \in BOOLEAN
    PROVE  /\ UpdateVar(n, fit, reset) \in VarNethra
           /\ UpdateVar(n, fit, reset).role = n.role
           /\ UpdateVar(n, fit, reset).stable = n.stable
           /\ UpdateVar(n, fit, reset).src = fit.src
           /\ UpdateVar(n, fit, reset).route = n.route
<1> DEFINE kept == [n EXCEPT !.src = fit.src, !.func = fit.func]
<1>1. kept \in VarNethra /\ kept.role = n.role /\ kept.stable = n.stable
        /\ kept.src = fit.src /\ kept.route = n.route
  BY DEF VarNethra
<1>2. CASE ~reset
  BY <1>1, <1>2 DEF UpdateVar
<1>3. CASE reset
  <2>1. UpdateVar(n, fit, reset) =
          [kept EXCEPT !.status = "proposed", !.strong = 0,
                       !.sentinels = FALSE, !.mature = FALSE]
    BY <1>3 DEF UpdateVar
  <2> HIDE DEF kept
  <2> DEFINE emptied == [kept EXCEPT !.status = "proposed", !.strong = 0]
  <2>2. emptied \in VarNethra /\ emptied.role = n.role /\ emptied.stable = n.stable
          /\ emptied.src = fit.src /\ emptied.route = n.route
    BY <1>1, Zeros DEF VarNethra, Statuses
  <2>3. UpdateVar(n, fit, reset) = [emptied EXCEPT !.sentinels = FALSE, !.mature = FALSE]
    BY <1>1, <2>1 DEF VarNethra
  <2> HIDE DEF emptied
  <2>4. QED
    BY <2>2, <2>3 DEF VarNethra
<1>4. QED
  BY <1>2, <1>3

LEMMA DemoteType ==
    ASSUME NEW n \in VarNethra, NEW descendant \in BOOLEAN
    PROVE  /\ Demote(n, descendant) \in VarNethra
           /\ Demote(n, descendant).role = n.role
           /\ Demote(n, descendant).src = n.src
           /\ Demote(n, descendant).func = n.func
           /\ FloorOK(n) => FloorOK(Demote(n, descendant))
           /\ RouteOK(n) => RouteOK(Demote(n, descendant))
<1>1. CASE n.status = "certified"
  BY <1>1 DEF Demote, VarNethra, Statuses, FloorOK, RouteOK
<1>2. CASE n.status = "proposed"
  BY <1>2, Zeros DEF Demote, VarNethra, Statuses, FloorOK, RouteOK
<1>3. CASE n.status \notin {"certified", "proposed"}
  BY <1>3 DEF Demote
<1>4. QED
  BY <1>1, <1>2, <1>3

\* A descendant is not authoritative once the cascade has demoted it.
LEMMA DemotedNotAuthoritative ==
    ASSUME NEW n \in VarNethra
    PROVE  ~Authoritative(Demote(n, TRUE))
<1>1. CASE n.status = "certified"
  BY <1>1 DEF Demote, VarNethra, Authoritative
<1>2. CASE n.status = "proposed"
  BY <1>2 DEF Demote, VarNethra, Authoritative
<1>3. CASE n.status \notin {"certified", "proposed"}
  BY <1>3 DEF Demote, Authoritative
<1>4. QED
  BY <1>1, <1>2, <1>3

LEMMA InvalidateType ==
    ASSUME NEW L \in [Vars -> VarNethra], NEW S
    PROVE  /\ Invalidate(L, S) \in [Vars -> VarNethra]
           /\ \A d \in Vars :
                /\ Invalidate(L, S)[d].role = L[d].role
                /\ Invalidate(L, S)[d].src = L[d].src
                /\ Invalidate(L, S)[d].func = L[d].func
                /\ FloorOK(L[d]) => FloorOK(Invalidate(L, S)[d])
                /\ RouteOK(L[d]) => RouteOK(Invalidate(L, S)[d])
<1>1. Invalidate(L, S) =
        [d \in Vars |-> IF d \in ClosureDescendants(L, S)
                        THEN Demote(L[d], d \notin S) ELSE L[d]]
  BY DEF Invalidate
<1>2. \A d \in Vars : L[d] \in VarNethra /\ (d \notin S) \in BOOLEAN
  OBVIOUS
<1>3. QED
  BY <1>1, <1>2, DemoteType

-----------------------------------------------------------------------------
(* The closure of a cascade                                                *)

LEMMA ReachedMonotonic ==
    ASSUME NEW E1, NEW E2, E1 \subseteq E2, NEW S
    PROVE  Reached(E1, S) \subseteq Reached(E2, S)
BY DEF Reached

\* The pruning of route-trass edges cuts nothing while no source of a fit is
\* route-trass for it.
LEMMA CascadeFollowsBeliefs ==
    ASSUME NEW L, \A d \in Vars : RouteOK(L[d])
    PROVE  CascadeEdges(L) = Beliefs(L)
BY DEF CascadeEdges, Beliefs, RouteOK

\* A cascade changes no fit, so what is reached before it is reached after it.
LEMMA InvalidateKeepsBeliefs ==
    ASSUME NEW L \in [Vars -> VarNethra], NEW S
    PROVE  Beliefs(Invalidate(L, S)) = Beliefs(L)
BY InvalidateType DEF Beliefs

\* After the cascade nothing it reached beyond its roots is authoritative.
LEMMA CascadeRevokesAuthority ==
    ASSUME NEW L \in [Vars -> VarNethra], NEW S,
           \A d \in Vars : RouteOK(L[d]),
           NEW d \in Vars \ S, d \in Reached(Beliefs(L), S)
    PROVE  ~Authoritative(Invalidate(L, S)[d])
<1>1. d \in ClosureDescendants(L, S)
  BY CascadeFollowsBeliefs DEF ClosureDescendants
<1>2. Invalidate(L, S)[d] = Demote(L[d], TRUE)
  BY <1>1 DEF Invalidate
<1>3. QED
  BY <1>2, DemotedNotAuthoritative

-----------------------------------------------------------------------------
(* The helpers                                                             *)

LEMMA OrderingsType ==
    ASSUME NEW S \in SUBSET Vars, NEW o \in Orderings(S)
    PROVE  /\ o \in Seq(Vars)
           /\ \A i \in DOMAIN o : o[i] \in S
           /\ \A i, j \in DOMAIN o : o[i] = o[j] => i = j
<1>1. IsFiniteSet(Vars)
  BY FS_Interval, LedgerAssumption DEF LedgerAssumption, Vars
<1>2. Cardinality(S) \in Nat
  BY <1>1, FS_Subset, FS_CardinalityType
<1>3. o \in [1 .. Cardinality(S) -> S]
  BY DEF Orderings
<1>4. o \in [1 .. Cardinality(S) -> Vars]
  BY <1>3
<1>5. o \in Seq(Vars)
  BY <1>2, <1>4, SeqDef
<1>6. QED
  BY <1>3, <1>5 DEF Orderings

LEMMA OperationRoleType ==
    ASSUME NEW v, NEW nvis, NEW role \in OperationRole(v, nvis)
    PROVE  role \in Roles /\ role # "noise_floor"
BY DEF OperationRole, Roles

LEMMA AuditsType ==
    ASSUME led \in [Vars -> VarNethra], NEW v \in Vars,
           NEW nvis \in Nat, nvis <= NVars, NEW a \in Audits(v, nvis)
    PROVE  /\ a.fit \in [src : SUBSET Vars, func : Funcs]
           /\ a.fit.src \cap led[v].route = {}
           /\ a.role \in Roles /\ a.role # "noise_floor"
           /\ a.attach \in BOOLEAN
           /\ a.near \in SUBSET Vars
<1>1. 0 .. nvis - 1 \subseteq Vars
  BY LedgerAssumption DEF LedgerAssumption, Vars
<1>2. Hypotheses[v] \subseteq [src : SUBSET Vars, func : Funcs]
  BY AgentAssumption DEF AgentAssumption
<1>3. /\ a.fit \in Hypotheses[v]
      /\ a.fit.src \subseteq (0 .. nvis - 1) \ ({v} \cup led[v].route)
      /\ a.role \in OperationRole(v, nvis)
      /\ a.attach \in BOOLEAN
      /\ a.near \subseteq 0 .. nvis - 1
  BY DEF Audits
<1>4. QED
  BY <1>1, <1>2, <1>3, OperationRoleType

LEMMA CommitType ==
    ASSUME NEW L, NEW v, NEW n \in VarNethra, NEW a, NEW changed \in BOOLEAN,
           a.attach \in BOOLEAN, a.near \in SUBSET Vars, n.src = a.fit.src
    PROVE  /\ Commit(L, v, n, a, changed) \in VarNethra
           /\ Commit(L, v, n, a, changed).role = n.role
           /\ Commit(L, v, n, a, changed).stable = n.stable
           /\ Commit(L, v, n, a, changed).src = n.src
           /\ Commit(L, v, n, a, changed).func = n.func
           /\ Commit(L, v, n, a, changed).status # "uncertain"
           /\ RouteOK(n) => RouteOK(Commit(L, v, n, a, changed))
<1> DEFINE strong == IF changed THEN 1 ELSE Bump(n.strong, StrongCap)
           csf == IF changed THEN 0 ELSE n.csf
           attached == n.sentinels \/ a.attach
           counted == [n EXCEPT !.strong = strong, !.csf = csf, !.sentinels = attached]
           widened == n.route \cup (a.near \ a.fit.src)
<1>1. StrongCap \in Nat /\ n.strong \in 0 .. StrongCap
  BY LedgerAssumption DEF LedgerAssumption, VarNethra
<1>2. strong \in 0 .. StrongCap
  BY <1>1, BumpType, Zeros
<1>3. csf \in 0 .. BackoffThreshold
  BY Zeros DEF VarNethra
<1>4. attached \in BOOLEAN
  BY DEF VarNethra
<1>5. /\ counted \in VarNethra /\ counted.role = n.role /\ counted.stable = n.stable
      /\ counted.route = n.route /\ counted.src = n.src /\ counted.func = n.func
  <2> HIDE DEF strong, csf, attached
  <2>1. QED
    BY <1>2, <1>3, <1>4 DEF VarNethra
<1>6. Commit(L, v, n, a, changed) =
        IF Promotes(L, v, counted)
        THEN [counted EXCEPT !.status = "certified", !.route = @ \cup (a.near \ a.fit.src)]
        ELSE [counted EXCEPT !.status = IF @ = "uncertain" THEN "proposed" ELSE @]
  BY DEF Commit
<1> HIDE DEF counted
<1>7. CASE Promotes(L, v, counted)
  <2>1. Commit(L, v, n, a, changed) =
          [counted EXCEPT !.status = "certified", !.route = widened]
    BY <1>5, <1>6, <1>7 DEF VarNethra
  <2>2. widened \in SUBSET Vars
    BY DEF VarNethra
  <2>3. RouteOK(n) => widened \cap counted.src = {}
    BY <1>5 DEF RouteOK
  <2> HIDE DEF widened
  <2>4. QED
    BY <1>5, <2>1, <2>2, <2>3 DEF VarNethra, Statuses, RouteOK
<1>8. CASE ~Promotes(L, v, counted)
  BY <1>5, <1>6, <1>8 DEF VarNethra, Statuses, RouteOK
<1>9. QED
  BY <1>7, <1>8

LEMMA EnvelopeAfterType ==
    ASSUME NEW n \in VarNethra, NEW quiet \in BOOLEAN
    PROVE  /\ EnvelopeAfter(n, quiet) \in VarNethra
           /\ FloorOK(n) /\ n.role # "noise_floor" => FloorOK(EnvelopeAfter(n, quiet))
           /\ RouteOK(n) => RouteOK(EnvelopeAfter(n, quiet))
           /\ Earned(n) => Earned(EnvelopeAfter(n, quiet))
<1> DEFINE counted == [n EXCEPT !.stable = n.stable + 1]
<1>1. CASE ~n.mature
  BY <1>1 DEF EnvelopeAfter
<1>2. CASE n.mature /\ ~quiet
  BY <1>2, Zeros DEF EnvelopeAfter, VarNethra, FloorOK, RouteOK, Earned
<1>3. CASE n.mature /\ quiet
  <2>1. counted \in VarNethra /\ counted.stable = n.stable + 1
          /\ counted.role = n.role /\ counted.src = n.src /\ counted.route = n.route
    BY DEF VarNethra
  <2>2. EnvelopeAfter(n, quiet) =
          IF counted.stable = StableThreshold
          THEN IssueSkip(counted, "noise_floor") ELSE counted
    BY <1>3 DEF EnvelopeAfter
  <2> HIDE DEF counted
  <2>3. IssueSkip(counted, "noise_floor") \in VarNethra
    BY <2>1, IssueSkipType DEF Roles
  <2>4. IssueSkip(counted, "noise_floor") =
          [counted EXCEPT !.role = "noise_floor", !.passes = 0]
    BY DEF IssueSkip
  <2>5. n.stable \in Nat
    BY DEF VarNethra
  <2>6. CASE counted.stable = StableThreshold
    <3> DEFINE settled == [counted EXCEPT !.role = "noise_floor", !.passes = 0]
    <3>1. settled.role = "noise_floor" /\ settled.stable = counted.stable
            /\ settled.src = n.src /\ settled.route = n.route
      BY <2>1 DEF VarNethra
    <3>2. EnvelopeAfter(n, quiet) = settled
      BY <2>2, <2>4, <2>6
    <3>3. settled \in VarNethra
      BY <2>3, <2>4
    <3> HIDE DEF settled
    <3>4. QED
      BY <2>6, <3>1, <3>2, <3>3, Zeros DEF FloorOK, RouteOK, Earned
  <2>7. CASE counted.stable # StableThreshold
    BY <2>1, <2>2, <2>5, <2>7, Zeros DEF FloorOK, RouteOK, Earned
  <2>8. QED
    BY <2>6, <2>7
<1>4. QED
  BY <1>1, <1>2, <1>3 DEF VarNethra

\* What a full audit and its installation preserve.  Only the certificates of
\* trass sources and a role that was untested can change.
LEMMA InstallVarType ==
    ASSUME led \in [Vars -> VarNethra], NEW v \in Vars,
           NEW nvis \in Nat, nvis <= NVars, NEW a \in Audits(v, nvis)
    PROVE  /\ InstallVar(v, a) \in [Vars -> VarNethra]
           /\ \A p \in Vars :
                /\ FloorOK(led[p]) => FloorOK(InstallVar(v, a)[p])
                /\ RouteOK(led[p]) => RouteOK(InstallVar(v, a)[p])
                /\ InstallVar(v, a)[p].role = "noise_floor" => led[p].role = "noise_floor"
                /\ Earned(led[p]) => Earned(InstallVar(v, a)[p])
<1> DEFINE changed == SemanticChange(led[v], a)
           updated == UpdateVar(led[v], a.fit, changed)
           fitted  == [updated EXCEPT !.audited = TRUE]
           tested  == IF fitted.role = "untested" THEN IssueSkip(fitted, a.role) ELSE fitted
           L       == [led EXCEPT ![v] = tested]
           leaned  == {p \in a.fit.src : led[p].role = "trass"}
           quieted == [tested EXCEPT !.sentinels = FALSE]
<1>1. /\ a.fit \in [src : SUBSET Vars, func : Funcs]
      /\ a.fit.src \cap led[v].route = {}
      /\ a.role \in Roles /\ a.role # "noise_floor"
      /\ a.attach \in BOOLEAN /\ a.near \in SUBSET Vars
  BY AuditsType
<1>2. led[v] \in VarNethra /\ changed \in BOOLEAN
  BY DEF SemanticChange, SourceChange
<1> HIDE DEF changed
<1>3. /\ updated \in VarNethra /\ updated.role = led[v].role
      /\ updated.stable = led[v].stable /\ updated.src = a.fit.src
      /\ updated.route = led[v].route
  BY <1>1, <1>2, UpdateVarType
<1> HIDE DEF updated
<1>4. /\ fitted \in VarNethra /\ fitted.role = led[v].role
      /\ fitted.stable = led[v].stable /\ fitted.src = a.fit.src
      /\ fitted.route = led[v].route
  BY <1>3 DEF VarNethra
<1> HIDE DEF fitted
<1>5. /\ tested \in VarNethra /\ tested.src = a.fit.src
      /\ tested.route = led[v].route /\ tested.stable = led[v].stable
      /\ led[v].role # "untested" => tested.role = led[v].role
      /\ led[v].role = "untested" => tested.role = a.role
  <2>1. CASE fitted.role = "untested"
    <3>1. IssueSkip(fitted, a.role) \in VarNethra
      BY <1>1, <1>4, IssueSkipType
    <3>2. IssueSkip(fitted, a.role) = [fitted EXCEPT !.role = a.role, !.passes = 0]
      BY DEF IssueSkip
    <3>3. QED
      BY <1>4, <2>1, <3>1, <3>2 DEF VarNethra
  <2>2. CASE fitted.role # "untested"
    BY <1>4, <2>2
  <2>3. QED
    BY <2>1, <2>2
<1> HIDE DEF tested
<1>6. /\ FloorOK(led[v]) => FloorOK(tested)
      /\ tested.role = "noise_floor" => led[v].role = "noise_floor"
      /\ Earned(led[v]) => tested.role = led[v].role
      /\ RouteOK(tested)
  BY <1>1, <1>5, Zeros DEF FloorOK, RouteOK, Earned
<1>7. \A p \in Vars : led[p] \in VarNethra
  OBVIOUS
<1>8. CASE tested.role = "trass"
  <2>1. InstallVar(v, a) = [led EXCEPT ![v] = quieted]
    BY <1>8 DEF InstallVar, tested, fitted, updated, changed
  <2>2. /\ quieted \in VarNethra /\ quieted.role = tested.role
        /\ quieted.stable = tested.stable /\ quieted.src = tested.src
        /\ quieted.route = tested.route
    BY <1>5 DEF VarNethra
  <2> HIDE DEF quieted
  <2>3. /\ FloorOK(led[v]) => FloorOK(quieted)
        /\ RouteOK(quieted)
        /\ quieted.role # "noise_floor"
        /\ ~Earned(led[v])
    BY <1>6, <1>8, <2>2 DEF FloorOK, RouteOK, Earned
  <2>4. QED
    BY <1>7, <2>1, <2>2, <2>3
<1>9. CASE tested.role # "trass"
  <2>1. InstallVar(v, a) =
          [p \in Vars |-> IF p = v THEN Commit(L, v, tested, a, changed)
                          ELSE IF p \in leaned THEN Contradict(led[p]) ELSE led[p]]
    BY <1>9 DEF InstallVar, tested, fitted, updated, changed
  <2>2. /\ Commit(L, v, tested, a, changed) \in VarNethra
        /\ Commit(L, v, tested, a, changed).role = tested.role
        /\ Commit(L, v, tested, a, changed).stable = tested.stable
        /\ RouteOK(tested) => RouteOK(Commit(L, v, tested, a, changed))
    BY <1>1, <1>2, <1>5, CommitType
  <2> DEFINE committed == Commit(L, v, tested, a, changed)
  <2>3. /\ FloorOK(led[v]) => FloorOK(committed)
        /\ RouteOK(committed)
        /\ committed.role = "noise_floor" => led[v].role = "noise_floor"
        /\ Earned(led[v]) => Earned(committed)
    BY <1>6, <2>2 DEF FloorOK, Earned
  <2> HIDE DEF committed
  <2>4. ASSUME NEW p \in Vars, p # v
        PROVE  LET r == IF p \in leaned THEN Contradict(led[p]) ELSE led[p]
               IN /\ r \in VarNethra
                  /\ FloorOK(led[p]) => FloorOK(r)
                  /\ RouteOK(led[p]) => RouteOK(r)
                  /\ r.role = "noise_floor" => led[p].role = "noise_floor"
                  /\ Earned(led[p]) => Earned(r)
    <3>1. CASE p \in leaned
      <4>1. led[p].role = "trass"
        BY <3>1
      <4>2. QED
        BY <1>7, <3>1, <4>1, ContradictType DEF Earned
    <3>2. CASE p \notin leaned
      BY <1>7, <3>2
    <3>3. QED
      BY <3>1, <3>2
  <2> HIDE DEF leaned
  <2>5. \A p \in Vars : InstallVar(v, a)[p] =
          IF p = v THEN committed
          ELSE IF p \in leaned THEN Contradict(led[p]) ELSE led[p]
    BY <2>1 DEF committed
  <2>6. InstallVar(v, a) \in [Vars -> VarNethra]
    BY <2>1, <2>2, <2>4 DEF committed
  <2>7. ASSUME NEW p \in Vars
        PROVE  /\ FloorOK(led[p]) => FloorOK(InstallVar(v, a)[p])
               /\ RouteOK(led[p]) => RouteOK(InstallVar(v, a)[p])
               /\ InstallVar(v, a)[p].role = "noise_floor" => led[p].role = "noise_floor"
               /\ Earned(led[p]) => Earned(InstallVar(v, a)[p])
    <3>1. CASE p = v
      BY <2>3, <2>5, <3>1
    <3>2. CASE p # v
      BY <2>4, <2>5, <3>2
    <3>3. QED
      BY <3>1, <3>2
  <2>8. QED
    BY <2>6, <2>7
<1>10. QED
  BY <1>8, <1>9

-----------------------------------------------------------------------------
(* The inductive invariant                                                 *)

\* A variable queued for audit does not hold the noise floor, in the first pass
\* and for as long as its audit is due; nothing is audited twice in a cycle.
\* Without it the count of a queued variable could run past the threshold.
QueueInv ==
    /\ phase = "first" => \A v \in needs : led[v].role # "noise_floor"
    /\ phase # "first" => needs = {}
    /\ phase = "audit" =>
        /\ \A i, j \in DOMAIN order : order[i] = order[j] => i = j
        /\ \A i \in DOMAIN order : i >= pos => led[order[i]].role # "noise_floor"

LedgerInv == \A v \in Vars : FloorOK(led[v]) /\ RouteOK(led[v])

IInv == TypeOK /\ LedgerInv /\ QueueInv

LEMMA SeenType ==
    ASSUME TypeOK
    PROVE  /\ visible \in Nat /\ visible <= NVars
           /\ Seen \in SUBSET Vars
           /\ pos \in Nat
           /\ DOMAIN order = 1 .. Len(order) /\ Len(order) \in Nat
BY LedgerAssumption, LenProperties DEF LedgerAssumption, TypeOK, Seen, Vars

\* A step of the first pass replaces the record of one variable and queues at
\* most that variable, not with a noise-floor record.
LEMMA RecordStep ==
    ASSUME IInv, phase = "first", Advance,
           NEW v \in Vars, NEW r \in VarNethra, led' = [led EXCEPT ![v] = r],
           FloorOK(led[v]) => FloorOK(r), RouteOK(led[v]) => RouteOK(r),
           r.role = "noise_floor" => led[v].role = "noise_floor",
           needs' = needs \/ (needs' = needs \cup {v} /\ r.role # "noise_floor"),
           live' \in SUBSET Vars, failed' \in SUBSET Vars
    PROVE  IInv'
<1>1. TypeOK'
  BY DEF IInv, TypeOK, Advance, Phases
<1>2. \A u \in Vars : led'[u] = IF u = v THEN r ELSE led[u]
  BY DEF IInv, TypeOK
<1>3. LedgerInv'
  BY <1>2 DEF IInv, LedgerInv
<1>4. QueueInv'
  BY <1>2 DEF IInv, TypeOK, QueueInv, Advance
<1>5. QED
  BY <1>1, <1>3, <1>4 DEF IInv

\* A step of the audit pass installs a ledger in which only the audited variable
\* may newly hold the noise floor.
LEMMA AuditStep ==
    ASSUME IInv, NEW v \in Vars, AtAudit(v), NextAudit,
           led' \in [Vars -> VarNethra],
           \A p \in Vars : FloorOK(led'[p]) /\ RouteOK(led'[p]),
           \A p \in Vars \ {v} : led'[p].role = "noise_floor" => led[p].role = "noise_floor",
           live' \in SUBSET Vars, inert' \in SUBSET Vars, shifted' \in BOOLEAN
    PROVE  IInv'
<1>0. pos \in 1 .. Len(order) /\ v = order[pos] /\ phase = "audit"
  BY DEF AtAudit, Current, IInv, TypeOK
<1>1. TypeOK'
  BY DEF IInv, TypeOK, NextAudit, Phases
<1>2. LedgerInv'
  BY DEF LedgerInv
<1>3. \A i \in DOMAIN order : order[i] \in Vars
  BY ElementOfSeq, SeenType DEF IInv, TypeOK
<1>4. QueueInv'
  <2>1. phase' = "audit" /\ order' = order /\ pos' = pos + 1
    BY <1>0 DEF NextAudit
  <2>2. ASSUME NEW i \in DOMAIN order, i >= pos + 1
        PROVE  led'[order[i]].role # "noise_floor"
    <3>1. i \in Nat /\ pos \in Nat /\ pos \in DOMAIN order
      BY <1>0, SeenType DEF IInv
    <3>2. order[i] # v
      BY <1>0, <2>2, <3>1 DEF IInv, QueueInv
    <3>3. led[order[i]].role # "noise_floor"
      BY <1>0, <2>2, <3>1 DEF IInv, QueueInv
    <3>4. QED
      BY <1>3, <3>2, <3>3
  <2>3. \A i, j \in DOMAIN order : order[i] = order[j] => i = j
    BY <1>0 DEF IInv, QueueInv
  <2>4. needs' = {}
    BY <1>0 DEF IInv, QueueInv, NextAudit
  <2>5. QED
    BY <2>1, <2>2, <2>3, <2>4 DEF QueueInv
<1>5. QED
  BY <1>1, <1>2, <1>4 DEF IInv

LEMMA InitInv == Init => IInv
<1> SUFFICES ASSUME Init PROVE IInv
  OBVIOUS
<1>1. visible \in 1 .. NVars
  BY AgentAssumption DEF AgentAssumption, Init
<1>2. Seen \in SUBSET Vars
  BY <1>1, LedgerAssumption DEF LedgerAssumption, Seen, Vars
<1>3. order \in Seq(Vars)
  <2>1. PICK frontier \in Frontiers(inert) : order \in Orderings(frontier)
    BY DEF Init
  <2>2. frontier \in SUBSET Seen
    BY <2>1 DEF Frontiers
  <2> QED
    BY <1>2, <2>1, <2>2, OrderingsType
<1>4. led \in [Vars -> VarNethra]
  BY FreshVarType DEF Init
<1>5. 0 \in 0 .. Period - 1
  BY AgentAssumption DEF AgentAssumption
<1>6. TypeOK
  <2>1. /\ live = {} /\ covered = {} /\ needs = {} /\ failed = {}
        /\ inert \in SUBSET Seen /\ pos = 1 /\ phase = "boot" /\ shifted = FALSE /\ cycle = 0
    BY DEF Init
  <2>2. inert \in SUBSET Vars
    BY <1>2, <2>1
  <2>3. /\ live \in SUBSET Vars /\ covered \in SUBSET Vars
        /\ needs \in SUBSET Vars /\ failed \in SUBSET Vars
        /\ phase \in Phases /\ pos \in Nat \ {0}
        /\ cycle \in 0 .. Period - 1
    BY <1>5, <2>1 DEF Phases
  <2>4. shifted \in BOOLEAN
    BY <2>1
  <2>5. QED
    BY <1>1, <1>3, <1>4, <2>2, <2>3, <2>4 DEF TypeOK
<1>7. LedgerInv
  BY FreshVarType DEF Init, LedgerInv
<1>8. QueueInv
  BY DEF Init, QueueInv
<1>9. QED
  BY <1>6, <1>7, <1>8 DEF IInv

-----------------------------------------------------------------------------
(* The steps                                                               *)

LEMMA BootInv ==
    ASSUME IInv
    PROVE  /\ \A v \in Vars : BootAudit(v) => IInv'
           /\ GoLive => IInv'
           /\ Reveal => IInv'
<1>1. ASSUME NEW v \in Vars, BootAudit(v) PROVE IInv'
  <2>1. PICK a \in Audits(v, visible) :
           led' = InstallVar(v, a) /\ inert' = inert \ Woken(v, a)
    BY <1>1 DEF BootAudit
  <2>2. /\ led' \in [Vars -> VarNethra]
        /\ \A p \in Vars : /\ FloorOK(led[p]) => FloorOK(led'[p])
                           /\ RouteOK(led[p]) => RouteOK(led'[p])
    BY <2>1, InstallVarType, SeenType DEF IInv, TypeOK
  <2>3. inert' \in SUBSET Vars
    BY <2>1 DEF IInv, TypeOK
  <2>4. TypeOK'
    BY <1>1, <2>2, <2>3 DEF IInv, TypeOK, BootAudit
  <2>5. QED
    BY <1>1, <2>2, <2>4 DEF IInv, LedgerInv, QueueInv, BootAudit
<1>2. ASSUME GoLive PROVE IInv'
  <2>1. \A i \in DOMAIN order : order[i] \in Vars
    BY ElementOfSeq, SeenType DEF IInv, TypeOK
  <2>2. <<>> \in Seq(Vars)
    BY EmptySeq
  <2>3. QED
    BY <1>2, <2>1, <2>2 DEF IInv, TypeOK, LedgerInv, QueueInv, GoLive, Phases
<1>3. ASSUME Reveal PROVE IInv'
  <2>0. visible \in Vars /\ visible + 1 \in Nat /\ visible + 1 <= NVars
          /\ visible + 1 \in 1 .. NVars
    BY <1>3, LedgerAssumption DEF LedgerAssumption, IInv, TypeOK, Reveal, Vars
  <2>1. PICK a \in Audits(visible, visible + 1) :
           /\ led' = InstallVar(visible, a) /\ inert' = inert \ Woken(visible, a)
           /\ live' = live \cup {visible} \cup Woken(visible, a)
    BY <1>3 DEF Reveal
  <2>2. /\ led' \in [Vars -> VarNethra]
        /\ \A p \in Vars : /\ FloorOK(led[p]) => FloorOK(led'[p])
                           /\ RouteOK(led[p]) => RouteOK(led'[p])
    BY <2>0, <2>1, InstallVarType DEF IInv, TypeOK
  <2>3. inert' \in SUBSET Vars /\ live' \in SUBSET Vars
    BY <2>0, <2>1 DEF IInv, TypeOK, Woken
  <2>4. TypeOK'
    BY <1>3, <2>0, <2>2, <2>3 DEF IInv, TypeOK, Reveal
  <2>5. QED
    BY <1>3, <2>2, <2>4 DEF IInv, LedgerInv, QueueInv, Reveal
<1>4. QED
  BY <1>1, <1>2, <1>3

LEMMA StartCycleInv ==
    ASSUME IInv, StartCycle
    PROVE  IInv'
<1>1. PICK revoked \in Groups :
         led' = [v \in Vars |-> IF v \in revoked THEN Contradict(led[v]) ELSE led[v]]
  BY DEF StartCycle
<1>2. ASSUME NEW v \in Vars
      PROVE  /\ led'[v] \in VarNethra
             /\ FloorOK(led'[v]) /\ RouteOK(led'[v])
             /\ led'[v].role = "noise_floor" => led[v].role = "noise_floor"
  <2>1. led[v] \in VarNethra /\ FloorOK(led[v]) /\ RouteOK(led[v])
    BY DEF IInv, TypeOK, LedgerInv
  <2>2. CASE v \in revoked
    BY <1>1, <2>1, <2>2, ContradictType
  <2>3. CASE v \notin revoked
    BY <1>1, <2>1, <2>3
  <2>4. QED
    BY <2>2, <2>3
<1>3. led' \in [Vars -> VarNethra]
  BY <1>1, <1>2
<1>4. order' \in Seq(Vars)
  BY SeenType, OrderingsType DEF IInv, StartCycle
<1>5. cycle' \in 0 .. Period - 1
  <2>1. Period \in Nat \ {0} /\ cycle + 1 \in Nat
    BY AgentAssumption DEF AgentAssumption, IInv, TypeOK
  <2>2. (cycle + 1) % Period \in 0 .. Period - 1
    BY <2>1
  <2>3. QED
    BY <2>2 DEF StartCycle
<1>6. covered' \in SUBSET Vars
  BY SeenType DEF IInv, StartCycle, Groups
<1>7. TypeOK'
  <2>1. /\ phase' = "first" /\ pos' = 1
        /\ UNCHANGED <<visible, live, inert, needs, failed, shifted>>
    BY DEF StartCycle
  <2>2. QED
    BY <1>3, <1>4, <1>5, <1>6, <2>1 DEF IInv, TypeOK, Phases
<1>8. QED
  BY <1>2, <1>7 DEF IInv, LedgerInv, QueueInv, StartCycle

\* A step of the first pass that leaves every record alone.
LEMMA SkipStep ==
    ASSUME IInv, phase = "first", Advance, NEW v \in Vars, UNCHANGED led,
           needs' = needs \/ (needs' = needs \cup {v} /\ led[v].role # "noise_floor"),
           live' \in SUBSET Vars, failed' \in SUBSET Vars
    PROVE  IInv'
<1>1. led' = [led EXCEPT ![v] = led[v]] /\ led[v] \in VarNethra
  BY DEF IInv, TypeOK
<1>2. QED
  BY <1>1, RecordStep

LEMMA QueueUnlessHeldType ==
    ASSUME NEW v, NEW rec, FloorOK(rec), QueueUnlessHeld(v, rec)
    PROVE  needs' = needs \/ (needs' = needs \cup {v} /\ rec.role # "noise_floor")
BY Zeros DEF QueueUnlessHeld, Held, FloorOK

LEMMA SampledType ==
    ASSUME led \in [Vars -> VarNethra], NEW v \in Vars, NEW n \in Sampled(v)
    PROVE  /\ n \in VarNethra /\ n.role = led[v].role
           /\ FloorOK(led[v]) => FloorOK(n)
           /\ RouteOK(led[v]) => RouteOK(n)
<1>1. n = led[v] \/ n = [led[v] EXCEPT !.mature = TRUE]
  BY DEF Sampled
<1>2. led[v] \in VarNethra
  OBVIOUS
<1>3. QED
  BY <1>1, <1>2 DEF VarNethra, FloorOK, RouteOK

LEMMA CreditType ==
    ASSUME NEW v, NEW n \in VarNethra
    PROVE  /\ Credit(v, n) \in VarNethra /\ Credit(v, n).role = n.role
           /\ FloorOK(n) => FloorOK(Credit(v, n))
           /\ RouteOK(n) => RouteOK(Credit(v, n))
<1> DEFINE strong == Bump(n.strong, StrongCap)
           status == IF strong >= EffPromoteAfter(led, v) THEN "certified" ELSE n.status
<1>1. strong \in 0 .. StrongCap
  BY BumpType, LedgerAssumption DEF LedgerAssumption, VarNethra
<1>2. status \in Statuses
  BY DEF VarNethra, Statuses
<1>3. Credit(v, n) =
        IF n.status = "proposed" /\ n.strong < EffPromoteAfter(led, v)
        THEN [n EXCEPT !.strong = strong, !.status = status] ELSE n
  BY DEF Credit, VarNethra
<1> HIDE DEF strong, status
<1>4. QED
  BY <1>1, <1>2, <1>3 DEF VarNethra, FloorOK, RouteOK

LEMMA DemoteLocallyType ==
    ASSUME NEW n \in VarNethra
    PROVE  /\ DemoteLocally(n) \in VarNethra /\ DemoteLocally(n).role = n.role
           /\ FloorOK(n) => FloorOK(DemoteLocally(n))
           /\ RouteOK(n) => RouteOK(DemoteLocally(n))
BY Zeros DEF DemoteLocally, VarNethra, Statuses, FloorOK, RouteOK

LEMMA FirstPassInv ==
    ASSUME IInv, NEW v \in Vars, FirstPass(v)
    PROVE  IInv'
<1>0. /\ led \in [Vars -> VarNethra] /\ led[v] \in VarNethra
      /\ FloorOK(led[v]) /\ RouteOK(led[v])
      /\ live \in SUBSET Vars /\ failed \in SUBSET Vars
  BY DEF IInv, TypeOK, LedgerInv
<1>1. CASE CompositeSkip(v)
  BY <1>0, <1>1, SkipStep DEF CompositeSkip
<1>2. CASE StrongTrassSkip(v)
  BY <1>0, <1>2, SkipStep DEF StrongTrassSkip, At
<1>3. CASE ProvisionalProbeFails(v)
  <2>1. PopSkip(led[v]) \in VarNethra /\ PopSkip(led[v]).role = "untested"
    BY <1>0, IssueSkipType, Zeros DEF PopSkip, IssueSkip, Roles, VarNethra
  <2>2. FloorOK(led[v]) => FloorOK(PopSkip(led[v]))
    BY <1>0, <1>3, IssueSkipType DEF PopSkip, Roles, ProvisionalProbeFails
  <2>3. RouteOK(led[v]) => RouteOK(PopSkip(led[v]))
    BY <1>0, IssueSkipType DEF PopSkip, Roles
  <2>4. led' = [led EXCEPT ![v] = PopSkip(led[v])]
    BY <1>3 DEF ProvisionalProbeFails
  <2>5. QED
    BY <1>0, <1>3, <2>1, <2>2, <2>3, <2>4, RecordStep DEF ProvisionalProbeFails, At
<1>4. CASE ProvisionalProbeQuiet(v)
  <2> DEFINE passes == Bump(led[v].passes, PassCap)
             status == IF passes >= TrassThreshold(led, v) THEN "trass" ELSE led[v].status
             r == [led[v] EXCEPT !.passes = passes, !.status = status]
  <2>1. passes \in 0 .. PassCap
    BY <1>0, BumpType, LedgerAssumption DEF LedgerAssumption, VarNethra
  <2>2. status \in Statuses
    BY <1>0 DEF VarNethra, Statuses
  <2>3. led' = [led EXCEPT ![v] = r]
    BY <1>0, <1>4 DEF ProvisionalProbeQuiet, VarNethra
  <2>4. /\ r \in VarNethra /\ r.role = led[v].role /\ FloorOK(r) /\ RouteOK(r)
    <3> HIDE DEF passes, status
    <3>1. QED
      BY <1>0, <2>1, <2>2 DEF VarNethra, FloorOK, RouteOK
  <2>5. live' \in SUBSET Vars /\ needs' = needs /\ failed' = failed /\ Advance /\ phase = "first"
    BY <1>0, <1>4 DEF ProvisionalProbeQuiet, At
  <2> HIDE DEF r
  <2>6. QED
    BY <1>0, <2>3, <2>4, <2>5, RecordStep
<1>5. CASE DormantSkip(v)
  BY <1>0, <1>5, SkipStep DEF DormantSkip, At
<1>6. CASE CheapSkip(v)
  BY <1>0, <1>6, SkipStep DEF CheapSkip, AtLive, At
<1>7. CASE SentinelPasses(v)
  <2>1. PICK n \in Sampled(v), settled \in BOOLEAN :
          LET credited == Credit(v, [n EXCEPT !.csf = 0])
          IN /\ led' = [led EXCEPT ![v] = credited]
             /\ live' = IF Parks(credited, settled) THEN live \ {v} ELSE live
    BY <1>7 DEF SentinelPasses
  <2> DEFINE calm == [n EXCEPT !.csf = 0]
  <2>2. /\ n \in VarNethra /\ n.role = led[v].role /\ FloorOK(n) /\ RouteOK(n)
    BY <1>0, SampledType
  <2>3. /\ calm \in VarNethra /\ calm.role = led[v].role /\ FloorOK(calm) /\ RouteOK(calm)
    BY <2>2, Zeros DEF VarNethra, FloorOK, RouteOK
  <2> HIDE DEF calm
  <2>4. /\ Credit(v, calm) \in VarNethra /\ Credit(v, calm).role = led[v].role
        /\ FloorOK(Credit(v, calm)) /\ RouteOK(Credit(v, calm))
    BY <2>3, CreditType
  <2>5. led' = [led EXCEPT ![v] = Credit(v, calm)] /\ live' \in SUBSET Vars
    BY <1>0, <2>1 DEF calm
  <2>6. QED
    BY <1>0, <1>7, <2>4, <2>5, RecordStep DEF SentinelPasses, AtLive, At
<1>8. CASE WitnessExpires(v)
  <2>1. PICK n \in Sampled(v), role \in OperationRole(v, visible) :
          led' = [led EXCEPT ![v] = IssueSkip(n, role)]
    BY <1>8 DEF WitnessExpires
  <2>2. /\ n \in VarNethra /\ n.role = "tareth" /\ FloorOK(n) /\ RouteOK(n)
    BY <1>0, <1>8, SampledType DEF WitnessExpires, Witnessed
  <2>3. role \in Roles /\ role # "noise_floor"
    BY OperationRoleType
  <2>4. /\ IssueSkip(n, role) \in VarNethra /\ IssueSkip(n, role).role = role
        /\ FloorOK(IssueSkip(n, role)) /\ RouteOK(IssueSkip(n, role))
    BY <2>2, <2>3, IssueSkipType DEF IssueSkip, VarNethra
  <2>5. QED
    BY <1>0, <1>8, <2>1, <2>3, <2>4, RecordStep DEF WitnessExpires, AtLive, At
<1>9. CASE SentinelFails(v)
  <2>1. PICK n \in Sampled(v) :
          LET missed  == [n EXCEPT !.csf = Bump(@, BackoffThreshold)]
              demoted == DemoteLocally(InvalidateCerts(missed))
          IN /\ led' = [led EXCEPT ![v] = demoted]
             /\ QueueUnlessHeld(v, demoted)
    BY <1>9 DEF SentinelFails
  <2> DEFINE csf == Bump(n.csf, BackoffThreshold)
             missed == [n EXCEPT !.csf = csf]
             demoted == DemoteLocally(InvalidateCerts(missed))
  <2>2. /\ n \in VarNethra /\ FloorOK(n) /\ RouteOK(n)
    BY <1>0, SampledType
  <2>3. csf \in 0 .. BackoffThreshold
    BY <2>2, BumpType, LedgerAssumption DEF LedgerAssumption, VarNethra
  <2>4. missed = [n EXCEPT !.csf = Bump(@, BackoffThreshold)]
    BY <2>2 DEF VarNethra
  <2>5. /\ missed \in VarNethra /\ FloorOK(missed) /\ RouteOK(missed)
    <3> HIDE DEF csf
    <3>1. QED
      BY <2>2, <2>3 DEF VarNethra, FloorOK, RouteOK
  <2>6. led' = [led EXCEPT ![v] = demoted] /\ QueueUnlessHeld(v, demoted)
    BY <2>1, <2>4
  <2> HIDE DEF missed
  <2>7. /\ demoted \in VarNethra /\ demoted.role = "untested"
        /\ FloorOK(demoted) /\ RouteOK(demoted)
    BY <2>5, InvalidateCertsType, DemoteLocallyType
  <2> HIDE DEF demoted
  <2>8. needs' = needs \/ (needs' = needs \cup {v} /\ demoted.role # "noise_floor")
    BY <2>6, <2>7, QueueUnlessHeldType
  <2>9. failed' \in SUBSET Vars /\ live' = live /\ Advance /\ phase = "first"
    BY <1>0, <1>9 DEF SentinelFails, AtLive, At
  <2>10. QED
    BY <1>0, <2>6, <2>7, <2>8, <2>9, RecordStep
<1>10. CASE FallThrough(v)
  <2>1. needs' = needs \/ (needs' = needs \cup {v} /\ led[v].role # "noise_floor")
    BY <1>0, <1>10, QueueUnlessHeldType DEF FallThrough
  <2>2. QED
    BY <1>0, <1>10, <2>1, SkipStep DEF FallThrough, AtLive, At
<1>11. QED
  BY <1>1, <1>2, <1>3, <1>4, <1>5, <1>6, <1>7, <1>8, <1>9, <1>10 DEF FirstPass

LEMMA StartAuditsInv ==
    ASSUME IInv, StartAudits
    PROVE  IInv'
<1>1. PICK queue \in UNION {Orderings(S) : S \in SUBSET needs} :
         AuditQueue(queue) /\ order' = queue
  BY DEF StartAudits
<1>2. PICK S \in SUBSET needs : queue \in Orderings(S)
  BY <1>1
<1>3. S \in SUBSET Vars
  BY <1>2 DEF IInv, TypeOK
<1>4. /\ queue \in Seq(Vars)
      /\ \A i \in DOMAIN queue : queue[i] \in needs
      /\ \A i, j \in DOMAIN queue : queue[i] = queue[j] => i = j
  BY <1>2, <1>3, OrderingsType
<1>5. TypeOK'
  BY <1>1, <1>4 DEF IInv, TypeOK, StartAudits, Phases
<1>6. QueueInv'
  BY <1>1, <1>4 DEF IInv, QueueInv, StartAudits
<1>7. QED
  BY <1>5, <1>6 DEF IInv, LedgerInv, StartAudits

LEMMA AuditPassInv ==
    ASSUME IInv, NEW v \in Vars, AuditPass(v)
    PROVE  IInv'
<1>0. /\ led \in [Vars -> VarNethra]
      /\ \A p \in Vars : FloorOK(led[p]) /\ RouteOK(led[p])
      /\ live \in SUBSET Vars /\ inert \in SUBSET Vars /\ shifted \in BOOLEAN
      /\ visible \in Nat /\ visible <= NVars
  BY SeenType DEF IInv, TypeOK, LedgerInv
<1>a. ASSUME NEW a \in Audits(v, visible)
      PROVE  /\ InstallVar(v, a) \in [Vars -> VarNethra]
             /\ \A p \in Vars :
                  /\ FloorOK(InstallVar(v, a)[p]) /\ RouteOK(InstallVar(v, a)[p])
                  /\ InstallVar(v, a)[p].role = "noise_floor" => led[p].role = "noise_floor"
  BY <1>0, InstallVarType
<1>b. \A L, S : ClosureDescendants(L, S) \in SUBSET Vars
  BY DEF ClosureDescendants, Reached
<1>1. CASE AuditFindsChange(v)
  <2>1. PICK a \in Audits(v, visible) :
          /\ led' = InstallVar(v, a)
          /\ inert' = inert \ Woken(v, a)
          /\ live' = live \cup Woken(v, a) \cup VariableDependents(led', v)
    BY <1>1 DEF AuditFindsChange
  <2>2. inert' \in SUBSET Vars /\ live' \in SUBSET Vars
    BY <1>0, <2>1 DEF Woken, VariableDependents
  <2>3. AtAudit(v) /\ NextAudit /\ shifted' = shifted
    BY <1>1 DEF AuditFindsChange
  <2>4. QED
    BY <1>0, <1>a, <2>1, <2>2, <2>3, AuditStep
<1>2. CASE AuditConfirmsFailure(v)
  <2>1. PICK a \in Audits(v, visible) :
          LET installed == InstallVar(v, a)
          IN /\ led' = Invalidate(installed, {v})
             /\ inert' = inert \ Woken(v, a)
             /\ live' = live \cup Woken(v, a) \cup VariableDependents(installed, v)
                           \cup ClosureDescendants(installed, {v})
    BY <1>2 DEF AuditConfirmsFailure
  <2>2. inert' \in SUBSET Vars /\ live' \in SUBSET Vars
    BY <1>0, <1>b, <2>1 DEF Woken, VariableDependents
  <2>3. AtAudit(v) /\ NextAudit /\ shifted' = TRUE
    BY <1>2 DEF AuditConfirmsFailure
  <2>4. shifted' \in BOOLEAN
    BY <2>3
  <2>5. /\ led' \in [Vars -> VarNethra]
        /\ \A p \in Vars : /\ FloorOK(led'[p]) /\ RouteOK(led'[p])
                           /\ led'[p].role = InstallVar(v, a)[p].role
    BY <1>a, <2>1, InvalidateType
  <2>6. QED
    BY <1>a, <2>2, <2>3, <2>4, <2>5, AuditStep
<1>3. CASE AuditKeepsFit(v)
  <2>1. PICK a \in Audits(v, visible), settled \in BOOLEAN, quiet \in BOOLEAN,
             rescreened \in IF v \in failed THEN SUBSET inert ELSE {{}} :
          LET installed == InstallVar(v, a)
          IN /\ inert' = inert \ rescreened
             /\ live' = IF Parks(installed[v], settled)
                        THEN (live \cup rescreened) \ {v} ELSE live \cup rescreened
             /\ led' = [installed EXCEPT ![v] = EnvelopeAfter(@, quiet)]
    BY <1>3 DEF AuditKeepsFit
  <2> DEFINE installed == InstallVar(v, a)
  <2>2. inert' \in SUBSET Vars /\ live' \in SUBSET Vars
    BY <1>0, <2>1
  <2>3. AtAudit(v) /\ NextAudit /\ shifted' = shifted
    BY <1>3 DEF AuditKeepsFit
  <2>4. pos \in DOMAIN order /\ v = order[pos] /\ pos \in Nat /\ phase = "audit"
    BY <2>3, SeenType DEF AtAudit, Current, IInv, TypeOK
  <2>5. led[v].role # "noise_floor"
    BY <2>4 DEF IInv, QueueInv
  <2>6. /\ installed \in [Vars -> VarNethra]
        /\ \A p \in Vars :
             /\ FloorOK(installed[p]) /\ RouteOK(installed[p])
             /\ installed[p].role = "noise_floor" => led[p].role = "noise_floor"
    BY <1>a
  <2>7. led' = [installed EXCEPT ![v] = EnvelopeAfter(installed[v], quiet)]
    BY <2>1
  <2> HIDE DEF installed
  <2>8. /\ EnvelopeAfter(installed[v], quiet) \in VarNethra
        /\ FloorOK(EnvelopeAfter(installed[v], quiet))
        /\ RouteOK(EnvelopeAfter(installed[v], quiet))
    BY <2>5, <2>6, EnvelopeAfterType
  <2>9. /\ led' \in [Vars -> VarNethra]
        /\ \A p \in Vars : FloorOK(led'[p]) /\ RouteOK(led'[p])
        /\ \A p \in Vars \ {v} : led'[p].role = "noise_floor" => led[p].role = "noise_floor"
    BY <2>6, <2>7, <2>8
  <2>10. QED
    BY <1>0, <2>2, <2>3, <2>9, AuditStep
<1>4. QED
  BY <1>1, <1>2, <1>3 DEF AuditPass

LEMMA CloseInv ==
    ASSUME IInv
    PROVE  /\ RescreenInert => IInv'
           /\ EndCycle => IInv'
<1>1. ASSUME RescreenInert PROVE IInv'
  <2>1. PICK salient \in IF shifted THEN SUBSET inert ELSE {{}} :
          inert' = inert \ salient /\ live' = live \cup salient
    BY <1>1 DEF RescreenInert
  <2>2. inert' \in SUBSET Vars /\ live' \in SUBSET Vars
    BY <2>1 DEF IInv, TypeOK
  <2>3. <<>> \in Seq(Vars)
    BY EmptySeq
  <2>4. shifted' = FALSE
    BY <1>1 DEF RescreenInert
  <2>5. shifted' \in BOOLEAN
    BY <2>4
  <2>6. TypeOK'
    BY <1>1, <2>2, <2>3, <2>5 DEF IInv, TypeOK, RescreenInert, Phases
  <2>7. QED
    BY <1>1, <2>6 DEF IInv, LedgerInv, QueueInv, RescreenInert
<1>2. ASSUME EndCycle PROVE IInv'
  <2>1. PICK admitted \in Admissions : live' = live \cup admitted
    BY <1>2 DEF EndCycle
  <2>2. live' \in SUBSET Vars
    BY <2>1, SeenType DEF IInv, TypeOK, Admissions, Unknown
  <2>a. PICK members \in Groups :
          \E flagged \in SUBSET {v \in members : led[v].role = "trass"} :
            led' = JointVerdict(members, flagged)
    BY <1>2 DEF EndCycle
  <2>3. PICK flagged \in SUBSET members : led' = JointVerdict(members, flagged)
    BY <2>a
  <2>4. ASSUME NEW p \in Vars
        PROVE  led'[p] \in VarNethra /\ FloorOK(led'[p]) /\ RouteOK(led'[p])
    <3>1. led[p] \in VarNethra /\ FloorOK(led[p]) /\ RouteOK(led[p])
      BY DEF IInv, TypeOK, LedgerInv
    <3>2. led'[p] = IF p \in flagged THEN Contradict(led[p])
                    ELSE IF p \in members /\ led[p].status = "trass"
                    THEN [led[p] EXCEPT !.status = "proposed"] ELSE led[p]
      BY <2>3 DEF JointVerdict
    <3>3. [led[p] EXCEPT !.status = "proposed"] \in VarNethra
            /\ FloorOK([led[p] EXCEPT !.status = "proposed"])
            /\ RouteOK([led[p] EXCEPT !.status = "proposed"])
      BY <3>1 DEF VarNethra, Statuses, FloorOK, RouteOK
    <3>4. QED
      BY <3>1, <3>2, <3>3, ContradictType
  <2>5. led' \in [Vars -> VarNethra]
    BY <2>3, <2>4 DEF JointVerdict
  <2>6. TypeOK'
    BY <1>2, <2>2, <2>5 DEF IInv, TypeOK, EndCycle, Phases
  <2>7. QED
    BY <1>2, <2>4, <2>6 DEF IInv, LedgerInv, QueueInv, EndCycle
<1>3. QED
  BY <1>1, <1>2

LEMMA NextInv == IInv /\ [Next]_vars => IInv'
<1> SUFFICES ASSUME IInv, [Next]_vars PROVE IInv'
  OBVIOUS
<1>1. CASE UNCHANGED vars
  BY <1>1 DEF vars, IInv, TypeOK, LedgerInv, QueueInv
<1>2. ASSUME NEW v \in Vars, StepAt(v) PROVE IInv'
  BY <1>2, BootInv, FirstPassInv, AuditPassInv DEF StepAt
<1>3. QED
  BY <1>1, <1>2, BootInv, StartCycleInv, StartAuditsInv, CloseInv DEF Next

\* The inductive invariant holds in every reachable state.
THEOREM Invariance == Spec => []IInv
<1>1. Init => IInv
  BY InitInv
<1>2. IInv /\ [Next]_vars => IInv'
  BY NextInv
<1>3. QED
  BY <1>1, <1>2, PTL DEF Spec

\* Every reachable state of the loop is well typed.
THEOREM TypeCorrect == Spec => []TypeOK
<1>1. IInv => TypeOK
  BY DEF IInv
<1>2. QED
  BY <1>1, Invariance, PTL

\* A variable is held out of the audit queue as settled at the noise floor
\* exactly while it holds the noise-floor certificate.
THEOREM NoiseFloorSound == Spec => []FloorIffStable
<1>1. IInv => FloorIffStable
  BY Zeros DEF IInv, TypeOK, LedgerInv, FloorOK, FloorIffStable, VarNethra
<1>2. QED
  BY <1>1, Invariance, PTL

\* No source of a fit carries a route certificate against it: the cascade's
\* pruning of route-trass edges never cuts a believed edge.
THEOREM RouteSound == Spec => []RouteNeverSource
<1>1. IInv => RouteNeverSource
  BY DEF IInv, LedgerInv, RouteOK, RouteNeverSource
<1>2. QED
  BY <1>1, Invariance, PTL

-----------------------------------------------------------------------------
(* What a step may do to roles and statuses                                *)

\* An audit installs the fit it found, and demotes nobody.
LEMMA InstallVarFit ==
    ASSUME led \in [Vars -> VarNethra], NEW v \in Vars,
           NEW nvis \in Nat, nvis <= NVars, NEW a \in Audits(v, nvis)
    PROVE  /\ InstallVar(v, a)[v].src = a.fit.src
           /\ InstallVar(v, a)[v].func = a.fit.func
           /\ \A p \in Vars : InstallVar(v, a)[p].status = "uncertain"
                                => led[p].status = "uncertain"
<1> DEFINE changed == SemanticChange(led[v], a)
           updated == UpdateVar(led[v], a.fit, changed)
           fitted  == [updated EXCEPT !.audited = TRUE]
           tested  == IF fitted.role = "untested" THEN IssueSkip(fitted, a.role) ELSE fitted
           L       == [led EXCEPT ![v] = tested]
           leaned  == {p \in a.fit.src : led[p].role = "trass"}
           quieted == [tested EXCEPT !.sentinels = FALSE]
<1>1. a.fit \in [src : SUBSET Vars, func : Funcs] /\ a.role \in Roles
  BY AuditsType
<1>2. led[v] \in VarNethra /\ changed \in BOOLEAN
  BY DEF SemanticChange, SourceChange
<1> HIDE DEF changed
<1>3. /\ updated \in VarNethra /\ updated.src = a.fit.src /\ updated.func = a.fit.func
      /\ updated.status = "uncertain" => led[v].status = "uncertain"
  <2>1. updated \in VarNethra
    BY <1>1, <1>2, UpdateVarType
  <2>2. CASE changed
    BY <1>1, <1>2, <2>1, <2>2 DEF UpdateVar, VarNethra
  <2>3. CASE ~changed
    BY <1>1, <1>2, <2>1, <2>3 DEF UpdateVar, VarNethra
  <2>4. QED
    BY <1>2, <2>1, <2>2, <2>3
<1> HIDE DEF updated
<1>4. /\ fitted \in VarNethra /\ fitted.src = a.fit.src /\ fitted.func = a.fit.func
      /\ fitted.status = updated.status
  BY <1>3 DEF VarNethra
<1> HIDE DEF fitted
<1>5. /\ tested \in VarNethra /\ tested.src = a.fit.src /\ tested.func = a.fit.func
      /\ tested.status = updated.status
  BY <1>1, <1>4, IssueSkipType DEF VarNethra, IssueSkip
<1> HIDE DEF tested
<1>6. CASE tested.role = "trass"
  <2>1. InstallVar(v, a) = [led EXCEPT ![v] = quieted]
    BY <1>6 DEF InstallVar, tested, fitted, updated, changed
  <2>2. quieted.src = tested.src /\ quieted.func = tested.func /\ quieted.status = tested.status
    BY <1>5 DEF VarNethra
  <2> HIDE DEF quieted
  <2>3. QED
    BY <1>3, <1>5, <2>1, <2>2
<1>7. CASE tested.role # "trass"
  <2>1. InstallVar(v, a) =
          [p \in Vars |-> IF p = v THEN Commit(L, v, tested, a, changed)
                          ELSE IF p \in leaned THEN Contradict(led[p]) ELSE led[p]]
    BY <1>7 DEF InstallVar, tested, fitted, updated, changed
  <2>2. a.attach \in BOOLEAN /\ a.near \in SUBSET Vars
    BY AuditsType
  <2>3. /\ Commit(L, v, tested, a, changed).src = a.fit.src
        /\ Commit(L, v, tested, a, changed).func = a.fit.func
        /\ Commit(L, v, tested, a, changed).status # "uncertain"
    BY <1>2, <1>5, <2>2, CommitType
  <2>5. ASSUME NEW p \in Vars
        PROVE  Contradict(led[p]).status = "uncertain" => led[p].status = "uncertain"
    <3>1. led[p] \in VarNethra /\ InvalidateCerts(led[p]) \in VarNethra
      BY InvalidateCertsType
    <3>2. InvalidateCerts(led[p]).status = led[p].status
      BY <3>1 DEF InvalidateCerts, PopSkip, IssueSkip, VarNethra
    <3>3. QED
      BY <3>1, <3>2 DEF Contradict, VarNethra
  <2> HIDE DEF leaned
  <2>6. QED
    BY <2>1, <2>3, <2>5
<1>8. QED
  BY <1>6, <1>7

\* A step of the first pass touches the record of the variable it is at.
LEMMA FirstPassFrame ==
    ASSUME led \in [Vars -> VarNethra], NEW v \in Vars, FirstPass(v), NEW p \in Vars, p # v
    PROVE  led'[p] = led[p] /\ phase = "first" /\ Current(v)
BY DEF FirstPass, CompositeSkip, StrongTrassSkip, ProvisionalProbeFails,
       ProvisionalProbeQuiet, DormantSkip, CheapSkip, SentinelPasses,
       WitnessExpires, SentinelFails, FallThrough, AtLive, At

LEMMA FirstPassAt ==
    ASSUME NEW v, FirstPass(v)
    PROVE  phase = "first" /\ Current(v)
BY DEF FirstPass, CompositeSkip, StrongTrassSkip, ProvisionalProbeFails,
       ProvisionalProbeQuiet, DormantSkip, CheapSkip, SentinelPasses,
       WitnessExpires, SentinelFails, FallThrough, AtLive, At

\* What each kind of audit leaves of a ledger's roles.
LEMMA AuditKeepsRoles ==
    ASSUME IInv, NEW v \in Vars, AuditPass(v), NEW p \in Vars, Earned(led[p])
    PROVE  Earned(led'[p])
<1>0. led \in [Vars -> VarNethra] /\ visible \in Nat /\ visible <= NVars
  BY SeenType DEF IInv, TypeOK
<1>a. ASSUME NEW a \in Audits(v, visible)
      PROVE  InstallVar(v, a) \in [Vars -> VarNethra] /\ Earned(InstallVar(v, a)[p])
  BY <1>0, InstallVarType
<1>1. CASE AuditFindsChange(v)
  <2>1. PICK a \in Audits(v, visible) : led' = InstallVar(v, a)
    BY <1>1 DEF AuditFindsChange
  <2>2. QED
    BY <1>a, <2>1
<1>2. CASE AuditConfirmsFailure(v)
  <2>1. PICK a \in Audits(v, visible) : led' = Invalidate(InstallVar(v, a), {v})
    BY <1>2 DEF AuditConfirmsFailure
  <2>2. led'[p].role = InstallVar(v, a)[p].role
    BY <1>a, <2>1, InvalidateType
  <2>3. QED
    BY <1>a, <2>2 DEF Earned
<1>3. CASE AuditKeepsFit(v)
  <2>1. PICK a \in Audits(v, visible), quiet \in BOOLEAN :
          led' = [InstallVar(v, a) EXCEPT ![v] = EnvelopeAfter(@, quiet)]
    BY <1>3 DEF AuditKeepsFit
  <2>2. Earned(EnvelopeAfter(InstallVar(v, a)[v], quiet)) \/ p # v
    BY <1>a, EnvelopeAfterType
  <2>3. QED
    BY <1>a, <2>1, <2>2
<1>4. QED
  BY <1>1, <1>2, <1>3 DEF AuditPass

\* An earned role is lost only to evidence against the variable itself.
THEOREM EvidenceOnly == Spec => RevokedOnlyByEvidence
<1>1. ASSUME IInv, [Next]_vars, NEW v \in Vars, Earned(led[v]), ~Earned(led'[v])
      PROVE  \/ phase = "first" /\ Current(v)
             \/ phase = "idle" /\ v \in Joint
  <2>0. /\ led \in [Vars -> VarNethra] /\ visible \in Nat /\ visible <= NVars
    BY <1>1, SeenType DEF IInv, TypeOK
  <2>1. CASE UNCHANGED vars
    BY <1>1, <2>1 DEF vars
  <2>2. CASE GoLive \/ StartAudits \/ RescreenInert
    BY <1>1, <2>2 DEF GoLive, StartAudits, RescreenInert
  <2>3. CASE Reveal
    <3>1. visible \in Vars /\ visible + 1 \in Nat /\ visible + 1 <= NVars
      BY <2>0, <2>3, LedgerAssumption DEF LedgerAssumption, Reveal, Vars
    <3>2. PICK a \in Audits(visible, visible + 1) : led' = InstallVar(visible, a)
      BY <2>3 DEF Reveal
    <3>3. QED
      BY <1>1, <2>0, <3>1, <3>2, InstallVarType
  <2>4. CASE StartCycle
    <3>1. PICK revoked \in Groups :
            led' = [u \in Vars |-> IF u \in revoked THEN Contradict(led[u]) ELSE led[u]]
      BY <2>4 DEF StartCycle
    <3>2. v \in revoked
      BY <1>1, <3>1
    <3>3. QED
      BY <2>4, <3>2 DEF StartCycle, Groups
  <2>5. CASE EndCycle
    <3>1. PICK members \in Groups :
            \E flagged \in SUBSET {u \in members : led[u].role = "trass"} :
              led' = JointVerdict(members, flagged)
      BY <2>5 DEF EndCycle
    <3>2. PICK flagged \in SUBSET {u \in members : led[u].role = "trass"} :
            led' = JointVerdict(members, flagged)
      BY <3>1
    <3>3. v \notin flagged
      BY <1>1, <3>2 DEF Earned
    <3>4. led'[v] = led[v] \/ led'[v] = [led[v] EXCEPT !.status = "proposed"]
      BY <3>2, <3>3 DEF JointVerdict
    <3>5. QED
      BY <2>0, <1>1, <3>4 DEF VarNethra, Earned
  <2>6. ASSUME NEW u \in Vars, BootAudit(u) PROVE FALSE
    <3>1. PICK a \in Audits(u, visible) : led' = InstallVar(u, a)
      BY <2>6 DEF BootAudit
    <3>2. QED
      BY <1>1, <2>0, <3>1, InstallVarType
  <2>7. ASSUME NEW u \in Vars, FirstPass(u)
        PROVE  phase = "first" /\ Current(v)
    <3>1. CASE u = v
      BY <2>7, <3>1, FirstPassAt
    <3>2. CASE u # v
      BY <1>1, <2>0, <2>7, <3>2, FirstPassFrame
    <3>3. QED
      BY <3>1, <3>2
  <2>8. ASSUME NEW u \in Vars, AuditPass(u) PROVE FALSE
    BY <1>1, <2>8, AuditKeepsRoles
  <2>9. QED
    BY <1>1, <2>1, <2>2, <2>3, <2>4, <2>5, <2>6, <2>7, <2>8 DEF Next, StepAt
<1>2. IInv /\ [Next]_vars =>
        \A v \in Vars : Earned(led[v]) /\ ~Earned(led'[v]) =>
            \/ phase = "first" /\ Current(v)
            \/ phase = "idle" /\ v \in Joint
  BY <1>1
<1>3. QED
  BY <1>2, Invariance, PTL DEF Spec, RevokedOnlyByEvidence

LEMMA EnvelopeAfterFit ==
    ASSUME NEW n \in VarNethra, NEW quiet \in BOOLEAN
    PROVE  /\ EnvelopeAfter(n, quiet).src = n.src
           /\ EnvelopeAfter(n, quiet).func = n.func
           /\ EnvelopeAfter(n, quiet).status = n.status
BY DEF EnvelopeAfter, IssueSkip, VarNethra

\* Away from its own step of the first pass a variable becomes uncertain only
\* in the cascade of a confirmed failure.
LEMMA NewlyUncertain ==
    ASSUME IInv, [Next]_vars, NEW v \in Vars,
           led[v].status # "uncertain", led'[v].status = "uncertain",
           ~(phase = "first" /\ Current(v))
    PROVE  \E u \in Vars : AuditConfirmsFailure(u)
<1>0. /\ led \in [Vars -> VarNethra] /\ visible \in Nat /\ visible <= NVars
  BY SeenType DEF IInv, TypeOK
<1>1. led' # led
  OBVIOUS
<1>2. CASE UNCHANGED vars \/ GoLive \/ StartAudits \/ RescreenInert
  BY <1>1, <1>2 DEF vars, GoLive, StartAudits, RescreenInert
<1>3. CASE Reveal
  <2>1. visible \in Vars /\ visible + 1 \in Nat /\ visible + 1 <= NVars
    BY <1>0, <1>3, LedgerAssumption DEF LedgerAssumption, Reveal, Vars
  <2>2. PICK a \in Audits(visible, visible + 1) : led' = InstallVar(visible, a)
    BY <1>3 DEF Reveal
  <2>3. QED
    BY <1>0, <2>1, <2>2, InstallVarFit
<1>4. Contradict(led[v]).status # "uncertain"
  <2>1. led[v] \in VarNethra /\ InvalidateCerts(led[v]) \in VarNethra
    BY <1>0, InvalidateCertsType
  <2>2. InvalidateCerts(led[v]).status = led[v].status
    BY <2>1 DEF InvalidateCerts, PopSkip, IssueSkip, VarNethra
  <2>3. QED
    BY <2>1, <2>2 DEF Contradict, VarNethra
<1>5. CASE StartCycle
  <2>1. PICK revoked \in Groups :
          led' = [u \in Vars |-> IF u \in revoked THEN Contradict(led[u]) ELSE led[u]]
    BY <1>5 DEF StartCycle
  <2>2. QED
    BY <1>4, <2>1
<1>6. CASE EndCycle
  <2>1. PICK members \in Groups :
          \E flagged \in SUBSET members : led' = JointVerdict(members, flagged)
    BY <1>6 DEF EndCycle
  <2>2. PICK flagged \in SUBSET members : led' = JointVerdict(members, flagged)
    BY <2>1
  <2>3. QED
    BY <1>0, <1>4, <2>2 DEF JointVerdict, VarNethra
<1>7. ASSUME NEW u \in Vars, BootAudit(u) PROVE FALSE
  <2>1. PICK a \in Audits(u, visible) : led' = InstallVar(u, a)
    BY <1>7 DEF BootAudit
  <2>2. QED
    BY <1>0, <2>1, InstallVarFit
<1>8. ASSUME NEW u \in Vars, FirstPass(u) PROVE FALSE
  <2>1. CASE u = v
    BY <1>8, <2>1, FirstPassAt
  <2>2. CASE u # v
    BY <1>0, <1>8, <2>2, FirstPassFrame
  <2>3. QED
    BY <2>1, <2>2
<1>9. ASSUME NEW u \in Vars, AuditFindsChange(u) PROVE FALSE
  <2>1. PICK a \in Audits(u, visible) : led' = InstallVar(u, a)
    BY <1>9 DEF AuditFindsChange
  <2>2. QED
    BY <1>0, <2>1, InstallVarFit
<1>10. ASSUME NEW u \in Vars, AuditKeepsFit(u) PROVE FALSE
  <2>1. PICK a \in Audits(u, visible), quiet \in BOOLEAN :
          led' = [InstallVar(u, a) EXCEPT ![u] = EnvelopeAfter(@, quiet)]
    BY <1>10 DEF AuditKeepsFit
  <2>2. InstallVar(u, a) \in [Vars -> VarNethra]
    BY <1>0, InstallVarType
  <2>3. led'[v].status = InstallVar(u, a)[v].status
    BY <2>1, <2>2, EnvelopeAfterFit
  <2>4. QED
    BY <1>0, <2>3, InstallVarFit
<1>11. QED
  BY <1>2, <1>3, <1>5, <1>6, <1>7, <1>8, <1>9, <1>10 DEF Next, StepAt, AuditPass

\* What the audit that confirms a failure does, in one place.
LEMMA ConfirmedFailure ==
    ASSUME IInv, NEW u \in Vars, AuditConfirmsFailure(u)
    PROVE  \E L \in [Vars -> VarNethra] :
              /\ led' = Invalidate(L, {u})
              /\ \A d \in Vars : RouteOK(L[d])
              /\ \A d \in Vars : L[d].status = "uncertain" => led[d].status = "uncertain"
              /\ <<L[u].src, L[u].func>> # <<led[u].src, led[u].func>>
              /\ ClosureDescendants(L, {u}) \subseteq live'
              /\ phase = "audit" /\ Current(u) /\ u \in failed
<1>0. /\ led \in [Vars -> VarNethra] /\ visible \in Nat /\ visible <= NVars
      /\ \A d \in Vars : RouteOK(led[d])
  BY SeenType DEF IInv, TypeOK, LedgerInv
<1>1. PICK a \in Audits(u, visible) :
        LET installed == InstallVar(u, a)
        IN /\ SemanticChange(led[u], a)
           /\ led' = Invalidate(installed, {u})
           /\ live' = live \cup Woken(u, a) \cup VariableDependents(installed, u)
                           \cup ClosureDescendants(installed, {u})
  BY DEF AuditConfirmsFailure
<1> DEFINE L == InstallVar(u, a)
<1>2. L \in [Vars -> VarNethra] /\ \A d \in Vars : RouteOK(L[d])
  BY <1>0, InstallVarType
<1>3. /\ L[u].src = a.fit.src /\ L[u].func = a.fit.func
      /\ \A d \in Vars : L[d].status = "uncertain" => led[d].status = "uncertain"
  BY <1>0, InstallVarFit
<1>4. led[u].src # a.fit.src \/ led[u].func # a.fit.func
  BY <1>1 DEF SemanticChange, SourceChange
<1>5. phase = "audit" /\ Current(u) /\ u \in failed
  BY DEF AuditConfirmsFailure, AtAudit
<1> HIDE DEF L
<1>6. <<L[u].src, L[u].func>> # <<led[u].src, led[u].func>>
  BY <1>3, <1>4
<1>7. led' = Invalidate(L, {u}) /\ ClosureDescendants(L, {u}) \subseteq live'
  BY <1>1 DEF L
<1>8. QED
  BY <1>2, <1>3, <1>5, <1>6, <1>7

\* Noisy misses do not cascade.
THEOREM GradedCascade == Spec => CascadeOnlyConfirmed
<1>1. ASSUME IInv, [Next]_vars, NEW v \in Vars,
             led[v].status = "certified", led'[v].status = "uncertain"
      PROVE  \/ phase = "first" /\ Current(v)
             \/ \E u \in failed :
                  /\ phase = "audit" /\ Current(u)
                  /\ <<led'[u].src, led'[u].func>> # <<led[u].src, led[u].func>>
                  /\ v \in Reached(Beliefs(led'), {u})
  <2>1. SUFFICES ASSUME ~(phase = "first" /\ Current(v))
                 PROVE  \E u \in failed :
                          /\ phase = "audit" /\ Current(u)
                          /\ <<led'[u].src, led'[u].func>> # <<led[u].src, led[u].func>>
                          /\ v \in Reached(Beliefs(led'), {u})
    OBVIOUS
  <2>2. PICK u \in Vars : AuditConfirmsFailure(u)
    BY <1>1, <2>1, NewlyUncertain
  <2>3. PICK L \in [Vars -> VarNethra] :
          /\ led' = Invalidate(L, {u})
          /\ \A d \in Vars : RouteOK(L[d])
          /\ \A d \in Vars : L[d].status = "uncertain" => led[d].status = "uncertain"
          /\ <<L[u].src, L[u].func>> # <<led[u].src, led[u].func>>
          /\ phase = "audit" /\ Current(u) /\ u \in failed
    BY <1>1, <2>2, ConfirmedFailure
  <2>4. led'[u].src = L[u].src /\ led'[u].func = L[u].func
    BY <2>3, InvalidateType
  <2>5. L[v].status # "uncertain"
    BY <1>1, <2>3
  <2>6. v \in ClosureDescendants(L, {u})
    BY <1>1, <2>3, <2>5 DEF Invalidate
  <2>7. v \in Reached(Beliefs(led'), {u})
    BY <2>3, <2>6, CascadeFollowsBeliefs, InvalidateKeepsBeliefs DEF ClosureDescendants
  <2>8. QED
    BY <2>3, <2>4, <2>7
<1>2. IInv /\ [Next]_vars =>
        \A v \in Vars : led[v].status = "certified" /\ led'[v].status = "uncertain" =>
            \/ phase = "first" /\ Current(v)
            \/ \E u \in failed :
                 /\ phase = "audit" /\ Current(u)
                 /\ <<led'[u].src, led'[u].func>> # <<led[u].src, led[u].func>>
                 /\ v \in Reached(Beliefs(led'), {u})
  BY <1>1
<1>3. QED
  BY <1>2, Invariance, PTL DEF Spec, CascadeOnlyConfirmed

\* A confirmed failure strips every descendant of its authority and makes it
\* live, however long the chain of fits that leads to it.
THEOREM CascadeReachesAll == Spec => CascadeComplete
<1>1. ASSUME IInv, [Next]_vars, NEW u \in failed, phase = "audit", Current(u),
             \/ led'[u].src # led[u].src
             \/ led'[u].func # led[u].func /\ ~shifted /\ shifted',
             NEW d \in Descendants(led', u)
      PROVE  ~Authoritative(led'[d]) /\ d \in live'
  <2>0. /\ led \in [Vars -> VarNethra] /\ visible \in Nat /\ visible <= NVars
        /\ u \in Vars /\ d \in Vars \ {u}
    BY <1>1, SeenType DEF IInv, TypeOK, Descendants, Reached
  <2>1. ~UNCHANGED vars
    BY <1>1 DEF vars
  <2>2. ~(GoLive \/ Reveal \/ StartCycle \/ StartAudits \/ EndCycle)
    BY <1>1 DEF GoLive, Reveal, StartCycle, StartAudits, EndCycle
  <2>3. ~RescreenInert
    BY <1>1 DEF RescreenInert
  <2>4. \A w \in Vars : ~BootAudit(w) /\ ~FirstPass(w)
    BY <1>1, FirstPassAt DEF BootAudit
  <2>5. \A w \in Vars : AuditPass(w) => w = u
    BY <1>1 DEF AuditPass, AuditFindsChange, AuditConfirmsFailure, AuditKeepsFit,
                AtAudit, Current
  <2>6. ~AuditFindsChange(u)
    BY <1>1 DEF AuditFindsChange
  <2>7. ASSUME AuditKeepsFit(u) PROVE FALSE
    <3>1. PICK a \in Audits(u, visible), quiet \in BOOLEAN :
            /\ ~SemanticChange(led[u], a)
            /\ led' = [InstallVar(u, a) EXCEPT ![u] = EnvelopeAfter(@, quiet)]
      BY <2>7 DEF AuditKeepsFit
    <3>2. shifted' = shifted
      BY <2>7 DEF AuditKeepsFit
    <3>3. InstallVar(u, a) \in [Vars -> VarNethra] /\ InstallVar(u, a)[u] \in VarNethra
      BY <2>0, InstallVarType
    <3>4. led'[u].src = InstallVar(u, a)[u].src
      BY <2>0, <3>1, <3>3, EnvelopeAfterFit
    <3>5. led'[u].src = led[u].src
      BY <2>0, <3>1, <3>4, InstallVarFit DEF SemanticChange, SourceChange
    <3>6. QED
      BY <1>1, <3>2, <3>5
  <2>8. AuditConfirmsFailure(u)
    BY <1>1, <2>1, <2>2, <2>3, <2>4, <2>5, <2>6, <2>7 DEF Next, StepAt, AuditPass
  <2>9. PICK L \in [Vars -> VarNethra] :
          /\ led' = Invalidate(L, {u})
          /\ \A p \in Vars : RouteOK(L[p])
          /\ ClosureDescendants(L, {u}) \subseteq live'
    BY <1>1, <2>0, <2>8, ConfirmedFailure
  <2>10. d \in Reached(Beliefs(L), {u})
    BY <2>9, InvalidateKeepsBeliefs DEF Descendants
  <2>11. ~Authoritative(led'[d])
    BY <2>0, <2>9, <2>10, CascadeRevokesAuthority
  <2>12. d \in live'
    BY <2>9, <2>10, CascadeFollowsBeliefs DEF ClosureDescendants
  <2>13. QED
    BY <2>11, <2>12
<1>2. IInv /\ [Next]_vars =>
        \A u \in failed :
            /\ phase = "audit" /\ Current(u)
            /\ \/ led'[u].src # led[u].src
               \/ led'[u].func # led[u].func /\ ~shifted /\ shifted'
            => \A d \in Descendants(led', u) : ~Authoritative(led'[d]) /\ d \in live'
  BY <1>1
<1>3. QED
  BY <1>2, Invariance, PTL DEF Spec, CascadeComplete

-----------------------------------------------------------------------------
(* Recursions, and lists walked through                                     *)

\* Induction over the naturals, for a set of them.
LEMMA SetInduction ==
  ASSUME NEW S, 0 \in S, \A n \in Nat : n \in S => n + 1 \in S
  PROVE  Nat \subseteq S
<1> SUFFICES ASSUME Nat \ S # {} PROVE FALSE
  OBVIOUS
<1> DEFINE R == OpToRel(<, Nat)
           T == Nat \ S
<1>1. IsWellFoundedOn(R, Nat)
  BY NatLessThanWellFounded
<1>2. T \subseteq Nat /\ T # {}
  OBVIOUS
<1>3. \E x \in T : \A y \in T : ~(<<y, x>> \in R)
  <2> HIDE DEF R, T
  <2> QED
    BY <1>1, <1>2, WFMin
<1>4. \A x, y \in Nat : <<x, y>> \in R <=> x < y
  BY DEF OpToRel
<1>5. PICK x \in T : \A y \in T : ~(y < x)
  BY <1>3, <1>4
<1>6. x # 0 /\ x \in Nat /\ x - 1 \in Nat /\ x - 1 < x
  BY <1>5
<1>7. x - 1 \in S
  BY <1>5, <1>6
<1>8. (x - 1) + 1 \in S /\ (x - 1) + 1 = x
  BY <1>6, <1>7
<1> QED
  BY <1>5, <1>8

\* g is the recursion from a whose i-th step is F[i, -].
Recursion(F, a, N, g) ==
    \A i \in 0 .. N : g[i] = IF i = 0 THEN a ELSE F[<<i, g[i - 1]>>]

RecursionOver(F, a, N, T, g) == g \in [0 .. N -> T] /\ Recursion(F, a, N, g)

LEMMA RecursionExists ==
    ASSUME NEW T, NEW a \in T, NEW N \in Nat, NEW F \in [(1 .. N) \X T -> T]
    PROVE  \E g : RecursionOver(F, a, N, T, g)
<1> DEFINE Good == {n \in Nat : n <= N => \E g : RecursionOver(F, a, n, T, g)}
<1>1. 0 \in Good
  <2>1. RecursionOver(F, a, 0, T, [i \in 0 .. 0 |-> a])
    BY DEF Recursion, RecursionOver
  <2> QED
    BY <2>1
<1>2. ASSUME NEW n \in Nat, n \in Good
      PROVE  n + 1 \in Good
  <2> SUFFICES ASSUME n + 1 <= N PROVE \E g : RecursionOver(F, a, n + 1, T, g)
    OBVIOUS
  <2>1. PICK g : RecursionOver(F, a, n, T, g)
    BY <1>2
  <2> DEFINE h == [i \in 0 .. (n + 1) |-> IF i = n + 1 THEN F[<<n + 1, g[n]>>] ELSE g[i]]
  <2>2. g \in [0 .. n -> T] /\ \A i \in 0 .. n : g[i] = IF i = 0 THEN a ELSE F[<<i, g[i - 1]>>]
    BY <2>1 DEF Recursion, RecursionOver
  <2>3. g[n] \in T /\ n + 1 \in 1 .. N
    BY <2>2
  <2>4. F[<<n + 1, g[n]>>] \in T
    BY <2>3
  <2>5. ASSUME NEW i \in 0 .. (n + 1)
        PROVE  h[i] \in T /\ h[i] = IF i = 0 THEN a ELSE F[<<i, h[i - 1]>>]
    <3>1. CASE i = n + 1
      <4>1. i # 0 /\ i - 1 = n /\ n \in 0 .. (n + 1) /\ n # n + 1
        BY <3>1
      <4>2. h[i] = F[<<i, g[n]>>] /\ h[i - 1] = g[n]
        BY <3>1, <4>1
      <4> QED
        BY <2>4, <3>1, <4>1, <4>2
    <3>2. CASE i # n + 1
      <4>1. i \in 0 .. n /\ (i # 0 => i - 1 \in 0 .. n /\ i - 1 \in 0 .. (n + 1) /\ i - 1 # n + 1)
        BY <3>2
      <4>2. h[i] = g[i] /\ (i # 0 => h[i - 1] = g[i - 1])
        BY <3>2, <4>1
      <4> QED
        BY <2>2, <4>1, <4>2
    <3> QED
      BY <3>1, <3>2
  <2>6. h \in [0 .. (n + 1) -> T]
    BY <2>5
  <2> HIDE DEF h
  <2>7. RecursionOver(F, a, n + 1, T, h)
    BY <2>5, <2>6 DEF Recursion, RecursionOver
  <2> QED
    BY <2>7
<1> HIDE DEF Good
<1>3. Nat \subseteq Good
  BY <1>1, <1>2, SetInduction
<1>4. N \in Good
  BY <1>3
<1> QED
  BY <1>4 DEF Good

\* What the loop of Through computes: a run of states from st, each the one
\* before with the call on the next element of s.
Runs(f, st, s, T, g) ==
    /\ g \in [0 .. Len(s) -> T] /\ g[0] = st
    /\ \A i \in 1 .. Len(s) : g[i] = f[<<g[i - 1], s[i]>>]
    /\ Through(f, st, s) = g[Len(s)]

LEMMA ThroughRuns ==
    ASSUME NEW T, NEW E, NEW st \in T, NEW s \in Seq(E), NEW f \in [T \X E -> T]
    PROVE  \E g : Runs(f, st, s, T, g)
<1> DEFINE N == Len(s)
           F == [x \in (1 .. N) \X T |-> f[<<x[2], s[x[1]]>>]]
           Loop(g) == g = [i \in 0 .. Len(s) |-> IF i = 0 THEN st ELSE f[<<g[i - 1], s[i]>>]]
           g == CHOOSE g : Loop(g)
<1>1. N \in Nat /\ \A i \in 1 .. N : s[i] \in E
  BY LenProperties, ElementOfSeq
<1>2. \A i \in 1 .. N, x \in T : F[<<i, x>>] = f[<<x, s[i]>>] /\ f[<<x, s[i]>>] \in T
  BY <1>1
<1>3. F \in [(1 .. N) \X T -> T]
  BY <1>1
<1> HIDE DEF F
<1>4. PICK h : RecursionOver(F, st, N, T, h)
  BY <1>1, <1>3, RecursionExists
<1>5. h \in [0 .. N -> T] /\ \A i \in 0 .. N : h[i] = IF i = 0 THEN st ELSE F[<<i, h[i - 1]>>]
  BY <1>4 DEF Recursion, RecursionOver
<1>6. ASSUME NEW i \in 0 .. N
      PROVE  h[i] = IF i = 0 THEN st ELSE f[<<h[i - 1], s[i]>>]
  <2>1. CASE i = 0
    BY <1>5, <2>1
  <2>2. CASE i # 0
    <3>1. i \in 1 .. N /\ i - 1 \in 0 .. N
      BY <1>1, <2>2
    <3> QED
      BY <1>2, <1>5, <2>2, <3>1
  <2> QED
    BY <2>1, <2>2
<1>7. Loop(h)
  BY <1>5, <1>6
<1>8. Loop(g)
  BY <1>7
<1>9. Through(f, st, s) = g[Len(s)]
  BY DEF Through
<1> HIDE DEF g
<1>10. \A i \in 0 .. N : g[i] = IF i = 0 THEN st ELSE f[<<g[i - 1], s[i]>>]
  BY <1>8
<1>11. g[0] = st /\ \A i \in 1 .. N : g[i] = f[<<g[i - 1], s[i]>>]
  <2>1. 0 \in 0 .. N /\ \A i \in 1 .. N : i \in 0 .. N /\ i # 0
    BY <1>1
  <2> QED
    BY <1>10, <2>1
<1> DEFINE Good == {n \in Nat : n <= N => g[n] \in T}
<1>12. 0 \in Good
  BY <1>11
<1>13. ASSUME NEW n \in Nat, n \in Good PROVE n + 1 \in Good
  <2> SUFFICES ASSUME n + 1 <= N PROVE g[n + 1] \in T
    OBVIOUS
  <2>1. g[n] \in T /\ n + 1 \in 1 .. N /\ (n + 1) - 1 = n
    BY <1>1, <1>13
  <2> QED
    BY <1>2, <1>11, <2>1
<1> HIDE DEF Good
<1>14. Nat \subseteq Good
  BY <1>12, <1>13, SetInduction
<1>15. \A i \in 0 .. N : g[i] \in T
  BY <1>1, <1>14 DEF Good
<1>16. g \in [0 .. N -> T]
  BY <1>8, <1>15
<1> QED
  BY <1>9, <1>11, <1>16 DEF Runs

\* What holds before the loop and is carried over each call holds after it.
LEMMA ThroughCarries ==
    ASSUME NEW T, NEW E, NEW st \in T, NEW s \in Seq(E), NEW f \in [T \X E -> T],
           NEW J, st \in J[0],
           \A i \in 1 .. Len(s) : \A x \in T : x \in J[i - 1] => f[<<x, s[i]>>] \in J[i]
    PROVE  Through(f, st, s) \in T /\ Through(f, st, s) \in J[Len(s)]
<1>1. PICK g : Runs(f, st, s, T, g)
  BY ThroughRuns
<1>2. Len(s) \in Nat
  BY LenProperties
<1> DEFINE Good == {n \in Nat : n <= Len(s) => g[n] \in J[n]}
<1>3. 0 \in Good
  BY <1>1 DEF Runs
<1>4. ASSUME NEW n \in Nat, n \in Good PROVE n + 1 \in Good
  <2> SUFFICES ASSUME n + 1 <= Len(s) PROVE g[n + 1] \in J[n + 1]
    OBVIOUS
  <2>1. g[n] \in J[n] /\ n + 1 \in 1 .. Len(s) /\ (n + 1) - 1 = n /\ n \in 0 .. Len(s)
    BY <1>2, <1>4
  <2>2. g[n] \in T /\ g[n + 1] = f[<<g[n], s[n + 1]>>]
    BY <1>1, <2>1 DEF Runs
  <2> QED
    BY <2>1, <2>2
<1> HIDE DEF Good
<1>5. Nat \subseteq Good
  BY <1>3, <1>4, SetInduction
<1>6. Len(s) \in Good /\ Len(s) \in 0 .. Len(s)
  BY <1>2, <1>5
<1> QED
  BY <1>1, <1>2, <1>6 DEF Good, Runs

-----------------------------------------------------------------------------
(* The belief graph                                                        *)

\* The types of the state, of every reachable one as OrderInvariance states.
OrderTypeOK ==
    /\ sources \in [Vars -> Seq(Vars)]
    /\ routes \in [Vars -> SUBSET Vars]
    /\ visibleCount \in 1 .. NVars

\* The variables whose fit leans on v, directly or not.
Follows(v) == Reached(Beliefs(Graph), {v})

LEMMA VarsFinite ==
    /\ IsFiniteSet(Vars) /\ Cardinality(Vars) = NVars /\ NVars \in Nat
    /\ \A S \in SUBSET Vars : /\ IsFiniteSet(S) /\ Cardinality(S) \in Nat
                              /\ Cardinality(S) <= NVars
<1>1. NVars \in Nat \ {0}
  BY LedgerAssumption DEF LedgerAssumption
<1>2. 0 \in Int /\ NVars - 1 \in Int
  BY <1>1
<1>3. /\ IsFiniteSet(0 .. NVars - 1)
      /\ Cardinality(0 .. NVars - 1) = IF 0 > NVars - 1 THEN 0 ELSE NVars - 1 - 0 + 1
  BY <1>2, FS_Interval
<1>4. IsFiniteSet(Vars) /\ Cardinality(Vars) = NVars
  BY <1>1, <1>3 DEF Vars
<1>5. ASSUME NEW S \in SUBSET Vars
      PROVE  IsFiniteSet(S) /\ Cardinality(S) \in Nat /\ Cardinality(S) <= NVars
  BY <1>4, <1>5, FS_Subset, FS_CardinalityType
<1> QED
  BY <1>1, <1>4, <1>5

LEMMA VisibleVars ==
    ASSUME OrderTypeOK
    PROVE  /\ Visible \subseteq Vars
           /\ \A v \in Vars : v \in Visible <=> v < visibleCount
<1>1. NVars \in Nat /\ visibleCount \in 1 .. NVars
  BY VarsFinite DEF OrderTypeOK
<1> QED
  BY <1>1 DEF Visible, Vars

LEMMA ListOf ==
    ASSUME NEW S, NEW s \in Seq(S)
    PROVE  /\ ToSet(s) = {s[i] : i \in 1 .. Len(s)} /\ ToSet(s) \subseteq S
           /\ Len(s) \in Nat /\ \A i \in 1 .. Len(s) : s[i] \in S /\ s[i] \in ToSet(s)
<1>1. DOMAIN s = 1 .. Len(s) /\ Len(s) \in Nat /\ \A i \in 1 .. Len(s) : s[i] \in S
  BY LenProperties, ElementOfSeq
<1>2. ToSet(s) = {s[i] : i \in 1 .. Len(s)}
  BY <1>1 DEF ToSet
<1> QED
  BY <1>1, <1>2

\* A list and the sets of its elements with one more at the end.
LEMMA ListWith ==
    ASSUME NEW S, NEW s \in Seq(S), NEW x \in S
    PROVE  /\ Append(s, x) \in Seq(S) /\ Len(Append(s, x)) = Len(s) + 1
           /\ \A i \in 1 .. Len(s) : Append(s, x)[i] = s[i]
           /\ Append(s, x)[Len(s) + 1] = x
           /\ ToSet(Append(s, x)) = ToSet(s) \cup {x}
<1> DEFINE t == Append(s, x)
<1>1. /\ t \in Seq(S) /\ Len(t) = Len(s) + 1
      /\ \A i \in 1 .. Len(s) : t[i] = s[i]
      /\ t[Len(s) + 1] = x
  BY AppendProperties
<1>2. ToSet(s) = {s[i] : i \in 1 .. Len(s)} /\ Len(s) \in Nat
  BY ListOf
<1>3. ToSet(t) = {t[i] : i \in 1 .. Len(t)}
  BY <1>1, ListOf
<1> HIDE DEF t
<1>4. 1 .. Len(t) = (1 .. Len(s)) \cup {Len(s) + 1}
  BY <1>1, <1>2
<1>5. ToSet(t) = ToSet(s) \cup {x}
  <2>1. \A y : y \in ToSet(t) <=> \E i \in 1 .. Len(t) : t[i] = y
    BY <1>3
  <2>2. \A y : y \in ToSet(s) <=> \E i \in 1 .. Len(s) : s[i] = y
    BY <1>2
  <2>3. \A y : (\E i \in 1 .. Len(t) : t[i] = y) <=> ((\E i \in 1 .. Len(s) : t[i] = y) \/ t[Len(s) + 1] = y)
    BY <1>4
  <2> QED
    BY <1>1, <2>1, <2>2, <2>3
<1> QED
  BY <1>1, <1>5 DEF t

\* The fields of the graph that the state gives.
LEMMA GraphFields ==
    ASSUME OrderTypeOK
    PROVE  \A v \in Vars : /\ Graph[v].src = ToSet(sources[v])
                           /\ Graph[v].route = routes[v]
                           /\ sources[v] \in Seq(Vars)
                           /\ ToSet(sources[v]) \subseteq Vars
<1> SUFFICES ASSUME NEW v \in Vars
             PROVE  /\ Graph[v].src = ToSet(sources[v]) /\ Graph[v].route = routes[v]
                    /\ sources[v] \in Seq(Vars) /\ ToSet(sources[v]) \subseteq Vars
  OBVIOUS
<1>1. sources[v] \in Seq(Vars)
  BY DEF OrderTypeOK
<1>2. Graph[v] = [FreshVar EXCEPT !.src = ToSet(sources[v]), !.route = routes[v]]
  BY DEF Graph
<1>3. Graph[v].src = ToSet(sources[v]) /\ Graph[v].route = routes[v]
  BY <1>2 DEF FreshVar
<1> QED
  BY <1>1, <1>3, ListOf

LEMMA ReachedFrom ==
    ASSUME NEW edges, NEW S \in SUBSET Vars
    PROVE  /\ S \subseteq Reached(edges, S) /\ Reached(edges, S) \subseteq Vars
           /\ \A e \in edges : e[1] \in Reached(edges, S) /\ e[2] \in Vars
                                => e[2] \in Reached(edges, S)
BY DEF Reached

\* Whatever holds S and is closed under the edges holds what S reaches.
LEMMA ReachedWithin ==
    ASSUME NEW edges, NEW S \in SUBSET Vars, NEW C \in SUBSET Vars, S \subseteq C,
           \A e \in edges : e[1] \in C => e[2] \in C
    PROVE  Reached(edges, S) \subseteq C
BY DEF Reached

\* A fit that leans on p is followed by what follows it.
LEMMA SourceFollowed ==
    ASSUME OrderTypeOK, NEW v \in Vars, NEW p \in Vars, p \in ToSet(sources[v])
    PROVE  v \in Follows(p) /\ Follows(v) \subseteq Follows(p)
<1>1. Graph[v].src = ToSet(sources[v])
  BY GraphFields
<1>2. <<p, v>> \in Beliefs(Graph)
  BY <1>1 DEF Beliefs
<1>3. /\ p \in Follows(p) /\ Follows(p) \subseteq Vars
      /\ \A e \in Beliefs(Graph) : e[1] \in Follows(p) /\ e[2] \in Vars => e[2] \in Follows(p)
  BY ReachedFrom DEF Follows
<1>4. v \in Follows(p)
  BY <1>2, <1>3
<1>5. \A e \in Beliefs(Graph) : e[2] \in Vars
  BY DEF Beliefs
<1>6. Follows(v) \subseteq Follows(p)
  <2> DEFINE C == Follows(p)
  <2>1. C \in SUBSET Vars /\ {v} \in SUBSET Vars /\ {v} \subseteq C
        /\ \A e \in Beliefs(Graph) : e[1] \in C => e[2] \in C
    BY <1>3, <1>4, <1>5
  <2> HIDE DEF C
  <2>2. Reached(Beliefs(Graph), {v}) \subseteq C
    BY <2>1, ReachedWithin
  <2> QED
    BY <2>2 DEF C, Follows
<1> QED
  BY <1>4, <1>6

LEMMA FollowsSelf ==
    ASSUME NEW v \in Vars
    PROVE  v \in Follows(v) /\ Follows(v) \subseteq Vars
BY ReachedFrom DEF Follows

-----------------------------------------------------------------------------
(* The closure of a cascade                                                *)

\* What a round of closure_descendants may hold.
Rounds == [out : SUBSET Vars, frontier : SUBSET Vars]

\* What the round n has: only what S reaches, everything one edge away but from
\* the frontier, and a variable more than there were rounds unless it is over.
RoundOK(L, S, n, r) ==
    /\ S \subseteq r.out /\ r.out \subseteq ClosureDescendants(L, S)
    /\ r.frontier \subseteq r.out
    /\ \A e \in CascadeEdges(L) : e[1] \in r.out \ r.frontier => e[2] \in r.out
    /\ r.frontier = {} \/ Cardinality(r.out) >= n + 1

NextRound(L, r) ==
    [out |-> r.out \cup Expand(L, r.out, r.frontier),
     frontier |-> Expand(L, r.out, r.frontier)]

LEMMA NextRoundType ==
    ASSUME NEW L, NEW r \in Rounds
    PROVE  NextRound(L, r) \in Rounds
BY DEF NextRound, Rounds, Expand

LEMMA NextRoundOK ==
    ASSUME NEW L, NEW S \in SUBSET Vars, NEW n \in Nat, NEW r \in Rounds, RoundOK(L, S, n, r)
    PROVE  RoundOK(L, S, n + 1, NextRound(L, r))
<1> DEFINE out == r.out
           front == r.frontier
           new == Expand(L, out, front)
           next == out \cup new
           E == CascadeEdges(L)
<1>1. /\ out \in SUBSET Vars /\ front \in SUBSET Vars
      /\ S \subseteq out /\ out \subseteq ClosureDescendants(L, S) /\ front \subseteq out
      /\ \A e \in E : e[1] \in out \ front => e[2] \in out
      /\ front = {} \/ Cardinality(out) >= n + 1
  BY DEF Rounds, RoundOK
<1>2. new \subseteq Vars \ out
  BY DEF Expand
<1>3. \A e \in E : e[1] \in front => e[2] \in next
  BY DEF Expand, VariableDependents, CascadeEdges
<1>4. \A d \in new : \E e \in E : e[1] \in front /\ e[2] = d
  <2> SUFFICES ASSUME NEW d \in new PROVE \E e \in E : e[1] \in front /\ e[2] = d
    OBVIOUS
  <2>1. d \in Vars /\ \E v \in front : v \in L[d].src /\ v \notin L[d].route
    BY DEF Expand, VariableDependents
  <2>2. PICK v \in front : v \in L[d].src /\ v \notin L[d].route
    BY <2>1
  <2>3. <<v, d>> \in E
    BY <1>1, <2>1, <2>2 DEF CascadeEdges
  <2> QED
    BY <2>2, <2>3
<1>5. NextRound(L, r) = [out |-> next, frontier |-> new]
  BY DEF NextRound
<1> HIDE DEF out, front, new
<1>6. next \subseteq ClosureDescendants(L, S)
  <2>1. \A e \in E : e[1] \in ClosureDescendants(L, S) /\ e[2] \in Vars
                        => e[2] \in ClosureDescendants(L, S)
    BY ReachedFrom DEF ClosureDescendants
  <2> HIDE DEF E
  <2> QED
    BY <1>1, <1>2, <1>4, <2>1
<1>7. \A e \in E : e[1] \in next \ new => e[2] \in next
  <2> HIDE DEF E
  <2> QED
    BY <1>1, <1>2, <1>3
<1>8. new = {} \/ Cardinality(next) >= (n + 1) + 1
  <2> SUFFICES ASSUME new # {} PROVE Cardinality(next) >= (n + 1) + 1
    OBVIOUS
  <2>1. front # {}
    <3> HIDE DEF E
    <3> QED
      BY <1>4
  <2>2. Cardinality(out) >= n + 1
    BY <1>1, <2>1
  <2>3. next \in SUBSET Vars /\ next # out /\ out \in SUBSET next
    BY <1>1, <1>2
  <2> HIDE DEF next
  <2>4. /\ IsFiniteSet(next) /\ Cardinality(next) \in Nat /\ Cardinality(out) \in Nat
        /\ Cardinality(out) <= Cardinality(next)
        /\ Cardinality(next) = Cardinality(out) => next = out
    BY <1>1, <2>3, VarsFinite, FS_Subset
  <2> QED
    BY <2>2, <2>3, <2>4
<1>9. S \subseteq next /\ new \subseteq next
  BY <1>1
<1> HIDE DEF next, E
<1>10. /\ NextRound(L, r).out = next /\ NextRound(L, r).frontier = new
  BY <1>5
<1> QED
  BY <1>6, <1>7, <1>8, <1>9, <1>10 DEF RoundOK, E

LEMMA ClosureExactOf ==
    ASSUME NEW L, NEW S \in SUBSET Vars
    PROVE  ClosureFrom(L, S) = ClosureDescendants(L, S)
<1> DEFINE first == [out |-> S, frontier |-> S]
           F == [x \in (1 .. NVars) \X Rounds |-> NextRound(L, x[2])]
           Loop(g) == g = [n \in 0 .. NVars |->
                             IF n = 0 THEN [out |-> S, frontier |-> S]
                             ELSE [out |-> g[n - 1].out \cup Expand(L, g[n - 1].out, g[n - 1].frontier),
                                   frontier |-> Expand(L, g[n - 1].out, g[n - 1].frontier)]]
           g == CHOOSE g : Loop(g)
<1>1. NVars \in Nat /\ first \in Rounds
  BY VarsFinite DEF Rounds
<1>2. F \in [(1 .. NVars) \X Rounds -> Rounds]
  BY NextRoundType
<1>3. \A n \in 1 .. NVars, r \in Rounds : F[<<n, r>>] = NextRound(L, r)
  OBVIOUS
<1> HIDE DEF F
<1>4. PICK h : RecursionOver(F, first, NVars, Rounds, h)
  <2> HIDE DEF first
  <2> QED
    BY <1>1, <1>2, RecursionExists
<1>5. h \in [0 .. NVars -> Rounds]
      /\ \A n \in 0 .. NVars : h[n] = IF n = 0 THEN first ELSE F[<<n, h[n - 1]>>]
  BY <1>4 DEF Recursion, RecursionOver
<1>6. ASSUME NEW n \in 0 .. NVars
      PROVE  h[n] = IF n = 0 THEN first ELSE NextRound(L, h[n - 1])
  <2>1. CASE n = 0
    BY <1>5, <2>1
  <2>2. CASE n # 0
    <3>1. n \in 1 .. NVars /\ n - 1 \in 0 .. NVars
      BY <1>1, <2>2
    <3>2. h[n - 1] \in Rounds /\ h[n] = F[<<n, h[n - 1]>>]
      BY <1>5, <2>2, <3>1
    <3> QED
      BY <1>3, <2>2, <3>1, <3>2
  <2> QED
    BY <2>1, <2>2
<1>7. Loop(h)
  BY <1>5, <1>6 DEF NextRound
<1>8. Loop(g)
  BY <1>7
<1>9. ClosureFrom(L, S) = g[NVars].out
  BY DEF ClosureFrom
<1> HIDE DEF g
<1>10. \A n \in 0 .. NVars : g[n] = IF n = 0 THEN first ELSE NextRound(L, g[n - 1])
  BY <1>8 DEF NextRound
<1> DEFINE Good == {n \in Nat : n <= NVars => g[n] \in Rounds /\ RoundOK(L, S, n, g[n])}
<1>11. 0 \in Good
  <2>1. g[0] = first /\ first.out = S /\ first.frontier = S
    BY <1>1, <1>10
  <2>2. S \subseteq ClosureDescendants(L, S)
    BY ReachedFrom DEF ClosureDescendants
  <2>3. S = {} \/ Cardinality(S) >= 0 + 1
    <3>1. IsFiniteSet(S) /\ Cardinality(S) \in Nat /\ (Cardinality(S) = 0 <=> S = {})
      BY VarsFinite, FS_EmptySet
    <3> QED
      BY <3>1
  <2> HIDE DEF first
  <2>4. RoundOK(L, S, 0, first)
    BY <2>1, <2>2, <2>3 DEF RoundOK
  <2> QED
    BY <1>1, <2>1, <2>4
<1>12. ASSUME NEW n \in Nat, n \in Good PROVE n + 1 \in Good
  <2> SUFFICES ASSUME n + 1 <= NVars
               PROVE  g[n + 1] \in Rounds /\ RoundOK(L, S, n + 1, g[n + 1])
    OBVIOUS
  <2>1. n + 1 \in 0 .. NVars /\ n + 1 # 0 /\ (n + 1) - 1 = n /\ n <= NVars
    BY <1>1
  <2>2. g[n] \in Rounds /\ RoundOK(L, S, n, g[n])
    BY <1>12, <2>1
  <2>3. g[n + 1] = NextRound(L, g[n])
    BY <1>10, <2>1
  <2>4. NextRound(L, g[n]) \in Rounds /\ RoundOK(L, S, n + 1, NextRound(L, g[n]))
    BY <2>2, NextRoundType, NextRoundOK
  <2> QED
    BY <2>3, <2>4
<1> HIDE DEF Good
<1>13. Nat \subseteq Good
  BY <1>11, <1>12, SetInduction
<1> DEFINE r == g[NVars]
<1>14. r \in Rounds /\ RoundOK(L, S, NVars, r)
  BY <1>1, <1>13 DEF Good
<1> HIDE DEF r
<1>15. r.frontier = {}
  <2>1. r.out \in SUBSET Vars
    BY <1>14 DEF Rounds
  <2>2. Cardinality(r.out) \in Nat /\ Cardinality(r.out) <= NVars
    BY <2>1, VarsFinite
  <2> QED
    BY <1>1, <1>14, <2>2 DEF RoundOK
<1>16. /\ S \subseteq r.out /\ r.out \subseteq ClosureDescendants(L, S) /\ r.out \in SUBSET Vars
       /\ \A e \in CascadeEdges(L) : e[1] \in r.out => e[2] \in r.out
  BY <1>14, <1>15 DEF RoundOK, Rounds
<1>17. ClosureDescendants(L, S) \subseteq r.out
  BY <1>16, ReachedWithin DEF ClosureDescendants
<1>18. ClosureFrom(L, S) = r.out
  BY <1>9 DEF r
<1> QED
  BY <1>16, <1>17, <1>18

LEMMA ClosureHolds == OrderTypeOK => ClosureExact
<1> SUFFICES ASSUME OrderTypeOK, NEW S \in SUBSET Visible
             PROVE  ClosureFrom(Graph, S) = ClosureDescendants(Graph, S)
  BY DEF ClosureExact
<1>1. S \in SUBSET Vars
  BY VisibleVars
<1> QED
  BY <1>1, ClosureExactOf

-----------------------------------------------------------------------------
(* The ancestor test                                                       *)

\* A chain of sources leads from v to t.
Leads(v, t) == \E d \in VariableDependents(Graph, v) : t \in Follows(d)

\* Of what was newly visited, v is no source, and all sources are visited.
Cleared(v, old, new) ==
    /\ old \subseteq new
    /\ \A x \in new \ old : v \notin ToSet(sources[x]) /\ ToSet(sources[x]) \subseteq new

\* What a search for v from t answers, given what was visited before.
Answers(v, t, old, r) ==
    /\ r \in Walks
    /\ r.found => Leads(v, t)
    /\ ~r.found => /\ Cleared(v, old, r.visited)
                   /\ v \notin ToSet(sources[t]) /\ ToSet(sources[t]) \subseteq r.visited

\* What a call of the loop's body on the source p answers, nothing found yet.
AsksWell(v, st, p, r) ==
    /\ r \in Walks
    /\ r.found => Leads(v, p)
    /\ ~r.found => Cleared(v, st.visited, r.visited) /\ p \in r.visited

\* Calls that have at most depth variables left to visit.
AskOK(v, depth, f) ==
    /\ f \in [Walks \X Vars -> Walks]
    /\ \A st \in Walks, p \in Vars :
          IF st.found THEN f[<<st, p>>] = st
          ELSE Cardinality(Vars \ st.visited) <= depth => AsksWell(v, st, p, f[<<st, p>>])

LEMMA LeadsOn ==
    ASSUME OrderTypeOK, NEW v \in Vars, NEW t \in Vars, NEW p \in ToSet(sources[t])
    PROVE  p \in Vars /\ (Leads(v, p) => Leads(v, t))
<1>1. p \in Vars
  BY GraphFields
<1>2. t \in Follows(p) /\ Follows(t) \subseteq Follows(p)
  BY <1>1, SourceFollowed
<1>3. ASSUME NEW d \in VariableDependents(Graph, v), p \in Follows(d)
      PROVE  t \in Follows(d)
  <2>1. d \in Vars
    BY DEF VariableDependents
  <2>2. /\ {d} \in SUBSET Vars
        /\ \A e \in Beliefs(Graph) : e[1] \in Follows(d) /\ e[2] \in Vars => e[2] \in Follows(d)
    BY <2>1, ReachedFrom DEF Follows
  <2>3. <<p, t>> \in Beliefs(Graph)
    BY <1>1, GraphFields DEF Beliefs
  <2> QED
    BY <1>3, <2>2, <2>3
<1> QED
  BY <1>1, <1>3 DEF Leads

LEMMA LeadsHere ==
    ASSUME OrderTypeOK, NEW v \in Vars, NEW t \in Vars, v \in ToSet(sources[t])
    PROVE  Leads(v, t)
<1>1. t \in VariableDependents(Graph, v)
  BY GraphFields DEF VariableDependents
<1> QED
  BY <1>1, FollowsSelf DEF Leads

\* The search of the sources of t, whose calls have depth variables left.
LEMMA SearchAnswers ==
    ASSUME OrderTypeOK, NEW v \in Vars, NEW t \in Vars, NEW depth \in Nat, NEW f,
           AskOK(v, depth, f), NEW old \in SUBSET Vars, Cardinality(Vars \ old) <= depth
    PROVE  Answers(v, t, old, SearchFrom(f, v, t, old))
<1> DEFINE s == sources[t]
           st == [found |-> FALSE, visited |-> old]
           Carried(i, x) ==
               /\ x.found => Leads(v, t)
               /\ ~x.found => /\ Cleared(v, old, x.visited)
                              /\ \A k \in 1 .. i : s[k] \in x.visited
           J == [i \in 0 .. Len(s) |-> {x \in Walks : Carried(i, x)}]
<1>1. s \in Seq(Vars) /\ ToSet(s) = {s[i] : i \in 1 .. Len(s)} /\ Len(s) \in Nat
      /\ \A i \in 1 .. Len(s) : s[i] \in Vars /\ s[i] \in ToSet(s)
  BY GraphFields, ListOf
<1>2. CASE v \in ToSet(s)
  <2>1. SearchFrom(f, v, t, old) = [found |-> TRUE, visited |-> old]
    BY <1>2 DEF SearchFrom
  <2>2. Leads(v, t)
    BY <1>2, LeadsHere
  <2> QED
    BY <2>1, <2>2 DEF Answers, Walks
<1>3. CASE v \notin ToSet(s)
  <2>1. SearchFrom(f, v, t, old) = Through(f, st, s)
    BY <1>3 DEF SearchFrom
  <2>2. st \in Walks
    BY DEF Walks
  <2>3. st \in J[0]
    <3>1. ~st.found /\ st.visited = old
      OBVIOUS
    <3>2. Cleared(v, old, old)
      BY DEF Cleared
    <3>3. Carried(0, st)
      BY <3>1, <3>2
    <3> HIDE DEF st, Carried
    <3> QED
      BY <1>1, <2>2, <3>3
  <2> HIDE DEF st, s
  <2>4. ASSUME NEW i \in 1 .. Len(s), NEW x \in Walks, x \in J[i - 1]
        PROVE  f[<<x, s[i]>>] \in J[i]
    <3> DEFINE y == f[<<x, s[i]>>]
    <3>1. i - 1 \in 0 .. Len(s) /\ i \in 0 .. Len(s) /\ i \in Nat
      BY <1>1
    <3>2. Carried(i - 1, x)
      <4> HIDE DEF Carried
      <4> QED
        BY <2>4, <3>1
    <3>3. s[i] \in Vars /\ s[i] \in ToSet(s)
      BY <1>1
    <3>4. Leads(v, s[i]) => Leads(v, t)
      BY <3>3, LeadsOn DEF s
    <3>5. y \in Walks
      BY <3>3 DEF AskOK
    <3>6. Carried(i, y)
      <4>1. CASE x.found
        <5>1. Leads(v, t)
          BY <3>2, <4>1
        <5>2. y.found
          <6>1. f[<<x, s[i]>>] = x
            BY <3>3, <4>1 DEF AskOK
          <6> QED
            BY <4>1, <6>1
        <5> QED
          BY <5>1, <5>2
      <4>2. CASE ~x.found
        <5>1. old \subseteq x.visited /\ x.visited \in SUBSET Vars /\ Cleared(v, old, x.visited)
          BY <3>2, <4>2 DEF Cleared, Walks
        <5>2. Cardinality(Vars \ x.visited) <= depth
          <6> DEFINE A == Vars \ x.visited
                     B == Vars \ old
          <6>1. A \in SUBSET B /\ B \in SUBSET Vars /\ A \in SUBSET Vars
            BY <5>1
          <6>2. B = Vars \ old /\ A = Vars \ x.visited
            OBVIOUS
          <6> HIDE DEF A, B
          <6>3. IsFiniteSet(B) /\ Cardinality(B) \in Nat /\ Cardinality(A) \in Nat
            BY <6>1, VarsFinite
          <6>4. Cardinality(A) <= Cardinality(B)
            BY <6>1, <6>3, FS_Subset
          <6>5. Cardinality(B) <= depth
            BY <6>2
          <6> QED
            BY <6>2, <6>3, <6>4, <6>5
        <5>3. AsksWell(v, x, s[i], y)
          BY <3>3, <4>2, <5>2 DEF AskOK
        <5> HIDE DEF y
        <5>4. y.found => Leads(v, t)
          BY <3>4, <4>2, <5>3 DEF AsksWell
        <5>5. ASSUME ~y.found
              PROVE  Cleared(v, old, y.visited) /\ \A k \in 1 .. i : s[k] \in y.visited
          <6>1. Cleared(v, x.visited, y.visited) /\ s[i] \in y.visited
            BY <5>3, <5>5 DEF AsksWell
          <6>2. Cleared(v, old, y.visited)
            BY <5>1, <6>1 DEF Cleared
          <6>3. \A k \in 1 .. i : k = i \/ k \in 1 .. (i - 1)
            BY <3>1
          <6>4. \A k \in 1 .. (i - 1) : s[k] \in x.visited
            BY <3>2, <4>2
          <6> QED
            BY <6>1, <6>2, <6>3, <6>4 DEF Cleared
        <5> QED
          BY <5>4, <5>5
      <4> QED
        BY <4>1, <4>2
    <3> HIDE DEF y, Carried
    <3>7. y \in J[i]
      BY <3>1, <3>5, <3>6
    <3> QED
      BY <3>7 DEF y
  <2> HIDE DEF J
  <2>5. f \in [Walks \X Vars -> Walks]
    BY DEF AskOK
  <2>6. Through(f, st, s) \in Walks /\ Through(f, st, s) \in J[Len(s)]
    BY <1>1, <2>2, <2>3, <2>4, <2>5, ThroughCarries
  <2> DEFINE r == Through(f, st, s)
  <2>7. r \in Walks /\ Carried(Len(s), r)
    <3> HIDE DEF Carried, r
    <3>1. r \in J[Len(s)]
      BY <2>6 DEF r
    <3>2. Len(s) \in 0 .. Len(s)
      BY <1>1
    <3> QED
      BY <3>1, <3>2 DEF J
  <2> HIDE DEF r
  <2>8. ~r.found => ToSet(s) \subseteq r.visited
    BY <1>1, <2>7
  <2>9. Answers(v, t, old, r)
    BY <1>3, <2>7, <2>8 DEF Answers, s
  <2> QED
    BY <2>1, <2>9 DEF r
<1> QED
  BY <1>2, <1>3

LEMMA AskType ==
    ASSUME OrderTypeOK, NEW v \in Vars, NEW f \in [Walks \X Vars -> Walks]
    PROVE  /\ Ask(f, v) \in [Walks \X Vars -> Walks]
           /\ \A st \in Walks, p \in Vars :
                 Ask(f, v)[<<st, p>>] = IF st.found \/ p \in st.visited THEN st
                                        ELSE SearchFrom(f, v, p, st.visited \cup {p})
<1> DEFINE g == Ask(f, v)
           G(st, p) == IF st.found \/ p \in st.visited THEN st
                       ELSE SearchFrom(f, v, p, st.visited \cup {p})
<1>1. g = [c \in Walks \X Vars |-> G(c[1], c[2])]
  BY DEF Ask
<1>2. ASSUME NEW st \in Walks, NEW p \in Vars
      PROVE  G(st, p) \in Walks
  <2> DEFINE old == st.visited \cup {p}
             from == [found |-> FALSE, visited |-> old]
  <2>1. from \in Walks /\ [found |-> TRUE, visited |-> old] \in Walks
    BY DEF Walks
  <2>2. sources[p] \in Seq(Vars)
    BY GraphFields
  <2>3. PICK h : Runs(f, from, sources[p], Walks, h)
    <3> HIDE DEF from
    <3> QED
      BY <2>1, <2>2, ThroughRuns
  <2>4. Len(sources[p]) \in Nat
    BY <2>2, LenProperties
  <2>5. Through(f, from, sources[p]) \in Walks
    BY <2>3, <2>4 DEF Runs
  <2>6. SearchFrom(f, v, p, old) \in Walks
    BY <2>1, <2>5 DEF SearchFrom
  <2> QED
    BY <2>6
<1> HIDE DEF g, G
<1>3. \A c \in Walks \X Vars : c[1] \in Walks /\ c[2] \in Vars
  OBVIOUS
<1>4. g \in [Walks \X Vars -> Walks]
  BY <1>1, <1>2, <1>3
<1>5. \A st \in Walks, p \in Vars : g[<<st, p>>] = G(st, p)
  BY <1>1
<1> QED
  BY <1>4, <1>5 DEF g, G

\* The body of the loop, with calls that have depth variables left.
LEMMA AskWell ==
    ASSUME OrderTypeOK, NEW v \in Vars, NEW depth \in Nat, NEW f, AskOK(v, depth, f)
    PROVE  AskOK(v, depth + 1, Ask(f, v))
<1> DEFINE g == Ask(f, v)
<1>1. /\ g \in [Walks \X Vars -> Walks]
      /\ \A st \in Walks, p \in Vars :
            g[<<st, p>>] = IF st.found \/ p \in st.visited THEN st
                           ELSE SearchFrom(f, v, p, st.visited \cup {p})
  BY AskType DEF AskOK
<1> HIDE DEF g
<1>2. ASSUME NEW st \in Walks, NEW p \in Vars, ~st.found,
             Cardinality(Vars \ st.visited) <= depth + 1
      PROVE  AsksWell(v, st, p, g[<<st, p>>])
  <2>1. CASE p \in st.visited
    <3>1. g[<<st, p>>] = st
      BY <1>1, <2>1
    <3> QED
      BY <1>2, <2>1, <3>1 DEF AsksWell, Cleared
  <2>2. CASE p \notin st.visited
    <3> DEFINE old == st.visited \cup {p}
               r == SearchFrom(f, v, p, old)
    <3>1. g[<<st, p>>] = r
      BY <1>1, <1>2, <2>2
    <3>2. st.visited \in SUBSET Vars
      BY DEF Walks
    <3>3. old \in SUBSET Vars /\ Cardinality(Vars \ old) <= depth
      <4> DEFINE A == Vars \ st.visited
      <4>1. Vars \ old = A \ {p} /\ p \in A /\ A \in SUBSET Vars
        BY <2>2
      <4>2. Cardinality(A) <= depth + 1
        BY <1>2
      <4> HIDE DEF A
      <4>3. IsFiniteSet(A) /\ Cardinality(A) \in Nat
        BY <4>1, VarsFinite
      <4>4. Cardinality(A \ {p}) = Cardinality(A) - 1
        BY <4>1, <4>3, FS_RemoveElement
      <4>5. Cardinality(A \ {p}) <= depth
        BY <4>2, <4>3, <4>4
      <4> QED
        BY <3>2, <4>1, <4>5
    <3> HIDE DEF old
    <3>4. Answers(v, p, old, r)
      BY <3>3, SearchAnswers
    <3> HIDE DEF r
    <3>5. ASSUME ~r.found
          PROVE  Cleared(v, st.visited, r.visited) /\ p \in r.visited
      <4>1. /\ Cleared(v, old, r.visited)
            /\ v \notin ToSet(sources[p]) /\ ToSet(sources[p]) \subseteq r.visited
        BY <3>4, <3>5 DEF Answers
      <4> QED
        BY <4>1 DEF Cleared, old
    <3> QED
      BY <3>1, <3>4, <3>5 DEF AsksWell, Answers
  <2> QED
    BY <2>1, <2>2
<1>3. \A st \in Walks, p \in Vars :
         IF st.found THEN g[<<st, p>>] = st
         ELSE Cardinality(Vars \ st.visited) <= depth + 1 => AsksWell(v, st, p, g[<<st, p>>])
  BY <1>1, <1>2
<1>4. AskOK(v, depth + 1, g)
  BY <1>1, <1>3 DEF AskOK
<1> QED
  BY <1>4 DEF g

\* Nothing is left to visit: the call returns at once.
LEMMA AskNothing ==
    ASSUME OrderTypeOK, NEW v \in Vars
    PROVE  AskOK(v, 0, [call \in Walks \X Vars |-> call[1]])
<1> DEFINE f == [call \in Walks \X Vars |-> call[1]]
<1>1. f \in [Walks \X Vars -> Walks] /\ \A st \in Walks, p \in Vars : f[<<st, p>>] = st
  OBVIOUS
<1> HIDE DEF f
<1>2. ASSUME NEW st \in Walks, NEW p \in Vars, ~st.found, Cardinality(Vars \ st.visited) <= 0
      PROVE  AsksWell(v, st, p, f[<<st, p>>])
  <2>1. Vars \ st.visited \in SUBSET Vars
    OBVIOUS
  <2> DEFINE A == Vars \ st.visited
  <2>2. Cardinality(A) <= 0
    BY <1>2
  <2> HIDE DEF A
  <2>3. A \in SUBSET Vars
    BY DEF A
  <2>4. IsFiniteSet(A) /\ Cardinality(A) \in Nat
    BY <2>3, VarsFinite
  <2>5. Cardinality(A) = 0
    BY <2>2, <2>4
  <2>6. A = {}
    BY <2>4, <2>5, FS_EmptySet
  <2>7. p \in st.visited
    BY <2>6 DEF A
  <2> QED
    BY <1>1, <1>2, <2>7 DEF AsksWell, Cleared
<1>3. AskOK(v, 0, f)
  BY <1>1, <1>2 DEF AskOK
<1> QED
  BY <1>3 DEF f

LEMMA AskAllOK ==
    ASSUME OrderTypeOK, NEW v \in Vars
    PROVE  AskOK(v, NVars, AskAll(v))
<1> DEFINE T == [Walks \X Vars -> Walks]
           first == [call \in Walks \X Vars |-> call[1]]
           F == [x \in (1 .. NVars) \X T |-> Ask(x[2], v)]
           Loop(g) == g = [n \in 0 .. NVars |-> IF n = 0 THEN first ELSE Ask(g[n - 1], v)]
           g == CHOOSE g : Loop(g)
<1>1. NVars \in Nat
  BY VarsFinite
<1>2. first \in T
  OBVIOUS
<1>3. AskOK(v, 0, first)
  BY AskNothing
<1>4. AskAll(v) = g[NVars]
  BY DEF AskAll
<1> HIDE DEF first
<1>5. \A f \in T : Ask(f, v) \in T
  BY AskType
<1> HIDE DEF T
<1>6. F \in [(1 .. NVars) \X T -> T]
  BY <1>5
<1>7. \A n \in 1 .. NVars, f \in T : F[<<n, f>>] = Ask(f, v)
  OBVIOUS
<1> HIDE DEF F
<1>8. PICK h : RecursionOver(F, first, NVars, T, h)
  BY <1>1, <1>2, <1>6, RecursionExists
<1>9. h \in [0 .. NVars -> T]
      /\ \A n \in 0 .. NVars : h[n] = IF n = 0 THEN first ELSE F[<<n, h[n - 1]>>]
  BY <1>8 DEF Recursion, RecursionOver
<1>10. ASSUME NEW n \in 0 .. NVars
       PROVE  h[n] = IF n = 0 THEN first ELSE Ask(h[n - 1], v)
  <2>1. CASE n = 0
    BY <1>9, <2>1
  <2>2. CASE n # 0
    <3>1. n \in 1 .. NVars /\ n - 1 \in 0 .. NVars
      BY <1>1, <2>2
    <3>2. h[n - 1] \in T /\ h[n] = F[<<n, h[n - 1]>>]
      BY <1>9, <2>2, <3>1
    <3> QED
      BY <1>7, <2>2, <3>1, <3>2
  <2> QED
    BY <2>1, <2>2
<1>11. Loop(h)
  BY <1>9, <1>10
<1>12. Loop(g)
  BY <1>11
<1> HIDE DEF g
<1>13. \A n \in 0 .. NVars : g[n] = IF n = 0 THEN first ELSE Ask(g[n - 1], v)
  BY <1>12
<1> DEFINE Good == {n \in Nat : n <= NVars => AskOK(v, n, g[n])}
<1>14. 0 \in Good
  BY <1>1, <1>3, <1>13
<1>15. ASSUME NEW n \in Nat, n \in Good PROVE n + 1 \in Good
  <2> SUFFICES ASSUME n + 1 <= NVars PROVE AskOK(v, n + 1, g[n + 1])
    OBVIOUS
  <2>1. n + 1 \in 0 .. NVars /\ n + 1 # 0 /\ (n + 1) - 1 = n /\ n <= NVars
    BY <1>1
  <2>2. AskOK(v, n, g[n])
    BY <1>15, <2>1
  <2>3. g[n + 1] = Ask(g[n], v)
    BY <1>13, <2>1
  <2>4. AskOK(v, n + 1, Ask(g[n], v))
    BY <2>2, AskWell
  <2> QED
    BY <2>3, <2>4
<1> HIDE DEF Good
<1>16. Nat \subseteq Good
  BY <1>14, <1>15, SetInduction
<1> QED
  BY <1>1, <1>4, <1>16 DEF Good

\* What was searched and not found: nothing that v leads to.
LEMMA NotLed ==
    ASSUME OrderTypeOK, NEW v \in Vars, NEW t \in Vars, NEW C \in SUBSET Vars, t \in C,
           \A x \in C : v \notin ToSet(sources[x]) /\ ToSet(sources[x]) \subseteq C
    PROVE  ~Leads(v, t)
<1> SUFFICES ASSUME NEW d \in VariableDependents(Graph, v), t \in Follows(d) PROVE FALSE
  BY DEF Leads
<1> DEFINE D == Vars \ C
<1>1. d \in Vars /\ v \in ToSet(sources[d])
  BY GraphFields DEF VariableDependents
<1>2. {d} \in SUBSET Vars /\ D \in SUBSET Vars /\ {d} \subseteq D
  BY <1>1
<1>3. \A e \in Beliefs(Graph) : e[1] \in D => e[2] \in D
  <2> SUFFICES ASSUME NEW e \in Beliefs(Graph), e[1] \in D PROVE e[2] \in D
    OBVIOUS
  <2>1. e[2] \in Vars /\ e[1] \in Graph[e[2]].src
    BY DEF Beliefs
  <2>2. e[1] \in ToSet(sources[e[2]])
    BY <2>1, GraphFields
  <2> QED
    BY <2>1, <2>2
<1> HIDE DEF D
<1>4. Follows(d) \subseteq D
  BY <1>2, <1>3, ReachedWithin DEF Follows
<1> QED
  BY <1>4 DEF D

LEMMA AncestorHolds == OrderTypeOK => AncestorExact
<1> SUFFICES ASSUME OrderTypeOK, NEW v \in Visible, NEW target \in Visible
             PROVE  IsAncestor(v, target) <=> Leads(v, target)
  BY DEF AncestorExact, Leads, Follows
<1> DEFINE r == SearchFrom(AskAll(v), v, target, {})
<1>1. v \in Vars /\ target \in Vars
  BY VisibleVars
<1>2. AskOK(v, NVars, AskAll(v))
  BY <1>1, AskAllOK
<1>3. NVars \in Nat /\ Cardinality(Vars \ {}) <= NVars /\ {} \in SUBSET Vars
  <2>1. Vars \ {} = Vars
    OBVIOUS
  <2> QED
    BY <2>1, VarsFinite
<1>4. Answers(v, target, {}, r)
  BY <1>1, <1>2, <1>3, SearchAnswers
<1>5. IsAncestor(v, target) = r.found
  BY DEF IsAncestor
<1> HIDE DEF r
<1>6. ASSUME ~r.found PROVE ~Leads(v, target)
  <2> DEFINE C == r.visited \cup {target}
  <2>1. /\ Cleared(v, {}, r.visited) /\ r.visited \in SUBSET Vars
        /\ v \notin ToSet(sources[target]) /\ ToSet(sources[target]) \subseteq r.visited
    BY <1>4, <1>6 DEF Answers, Walks
  <2>2. C \in SUBSET Vars /\ target \in C
    BY <1>1, <2>1
  <2>3. \A x \in C : v \notin ToSet(sources[x]) /\ ToSet(sources[x]) \subseteq C
    BY <2>1 DEF Cleared
  <2> HIDE DEF C
  <2> QED
    BY <1>1, <2>2, <2>3, NotLed
<1>7. r.found \in BOOLEAN /\ (r.found => Leads(v, target))
  BY <1>4 DEF Answers, Walks
<1> QED
  BY <1>5, <1>6, <1>7

-----------------------------------------------------------------------------
(* The topological order                                                   *)

\* No variable is listed twice.
Apart(o) == \A i, j \in 1 .. Len(o) : o[i] = o[j] => i = j

\* A visible source comes before its dependents, except along a cycle.
SourceFirst(o, i, p) == (\E j \in 1 .. i - 1 : o[j] = p) \/ p \in Follows(o[i])

SourcesFirst(o) ==
    \A i \in 1 .. Len(o) : \A p \in ToSet(sources[o[i]]) : p \in Visible => SourceFirst(o, i, p)

\* The states of a search in which G is in progress.
Searching(G) ==
    {st \in Searches :
        /\ st.inProgress = G /\ Apart(st.result) /\ SourcesFirst(st.result)
        /\ ToSet(st.result) \subseteq Visible /\ ToSet(st.result) \cap G = {}}

\* What a visit of v does: it lists v unless it is in progress, and keeps what
\* was listed.
Visits(st, v, new) ==
    /\ new \in Searching(st.inProgress)
    /\ ToSet(st.result) \subseteq ToSet(new.result)
    /\ v \in Visible => v \in ToSet(new.result) \cup st.inProgress

\* Visits with at most depth variables left to be in progress; those that are
\* lean on the variable visited.
VisitOK(depth, f) ==
    /\ f \in [Searches \X Vars -> Searches]
    /\ \A G \in SUBSET Vars, v \in Vars :
          (\A g \in G : g \in Follows(v)) /\ Cardinality(Vars \ G) <= depth
            => \A st \in Searching(G) : Visits(st, v, f[<<st, v>>])

LEMMA SearchingFields ==
    ASSUME NEW G, NEW st
    PROVE  st \in Searching(G) <=>
              /\ st \in Searches /\ st.inProgress = G
              /\ Apart(st.result) /\ SourcesFirst(st.result)
              /\ ToSet(st.result) \subseteq Visible /\ ToSet(st.result) \cap G = {}
BY DEF Searching

LEMMA VisitType ==
    ASSUME OrderTypeOK, NEW f \in [Searches \X Vars -> Searches]
    PROVE  /\ Visit(f) \in [Searches \X Vars -> Searches]
           /\ \A st \in Searches, v \in Vars :
                Visit(f)[<<st, v>>] =
                  IF v >= visibleCount \/ v \in ToSet(st.result) \cup st.inProgress THEN st
                  ELSE LET below == Through(f, [st EXCEPT !.inProgress = @ \cup {v}], sources[v])
                       IN  [result |-> Append(below.result, v), inProgress |-> below.inProgress \ {v}]
<1> DEFINE g == Visit(f)
           entered(st, v) == [st EXCEPT !.inProgress = @ \cup {v}]
           below(st, v) == Through(f, entered(st, v), sources[v])
           G(st, v) == IF v >= visibleCount \/ v \in ToSet(st.result) \cup st.inProgress THEN st
                       ELSE [result |-> Append(below(st, v).result, v),
                             inProgress |-> below(st, v).inProgress \ {v}]
<1>1. g = [c \in Searches \X Vars |-> G(c[1], c[2])]
  BY DEF Visit
<1>2. ASSUME NEW st \in Searches, NEW v \in Vars
      PROVE  G(st, v) \in Searches
  <2>1. entered(st, v) \in Searches
    BY DEF Searches
  <2>2. sources[v] \in Seq(Vars)
    BY GraphFields
  <2>3. PICK h : Runs(f, entered(st, v), sources[v], Searches, h)
    <3> HIDE DEF entered
    <3> QED
      BY <2>1, <2>2, ThroughRuns
  <2>4. Len(sources[v]) \in Nat
    BY <2>2, LenProperties
  <2>5. below(st, v) \in Searches
    <3> HIDE DEF entered
    <3> QED
      BY <2>3, <2>4 DEF Runs
  <2> HIDE DEF below
  <2>6. Append(below(st, v).result, v) \in Seq(Vars)
    BY <2>5, AppendProperties DEF Searches
  <2>7. [result |-> Append(below(st, v).result, v),
         inProgress |-> below(st, v).inProgress \ {v}] \in Searches
    BY <2>5, <2>6 DEF Searches
  <2> QED
    BY <2>7
<1> HIDE DEF g, G
<1>3. \A c \in Searches \X Vars : c[1] \in Searches /\ c[2] \in Vars
  OBVIOUS
<1>4. g \in [Searches \X Vars -> Searches]
  BY <1>1, <1>2, <1>3
<1>5. \A st \in Searches, v \in Vars : g[<<st, v>>] = G(st, v)
  BY <1>1
<1> QED
  BY <1>4, <1>5 DEF g, G

\* With v appended, what held of a list holds of it.
LEMMA AppendKeeps ==
    ASSUME OrderTypeOK, NEW o \in Seq(Vars), NEW v \in Vars, Apart(o), SourcesFirst(o),
           v \notin ToSet(o),
           \A p \in ToSet(sources[v]) : p \in Visible => p \in ToSet(o) \/ p \in Follows(v)
    PROVE  Apart(Append(o, v)) /\ SourcesFirst(Append(o, v))
<1> DEFINE n == Append(o, v)
<1>1. /\ n \in Seq(Vars) /\ Len(n) = Len(o) + 1
      /\ \A i \in 1 .. Len(o) : n[i] = o[i]
      /\ n[Len(o) + 1] = v
  BY ListWith
<1>2. /\ ToSet(o) = {o[i] : i \in 1 .. Len(o)} /\ Len(o) \in Nat
      /\ \A i \in 1 .. Len(o) : o[i] \in ToSet(o)
  BY ListOf
<1> HIDE DEF n
<1>3. \A i \in 1 .. Len(n) : i \in 1 .. Len(o) \/ i = Len(o) + 1
  BY <1>1, <1>2
<1>4. Apart(n)
  <2>1. \A i \in 1 .. Len(o) : n[i] # v
    BY <1>1, <1>2
  <2> QED
    BY <1>1, <1>3, <2>1 DEF Apart
<1>5. ASSUME NEW i \in 1 .. Len(n), NEW p \in ToSet(sources[n[i]]), p \in Visible
      PROVE  SourceFirst(n, i, p)
  <2>1. CASE i \in 1 .. Len(o)
    <3>1. n[i] = o[i] /\ \A j \in 1 .. i - 1 : j \in 1 .. Len(o) /\ n[j] = o[j]
      BY <1>1, <1>2, <2>1
    <3>2. SourceFirst(o, i, p)
      BY <1>5, <2>1, <3>1 DEF SourcesFirst
    <3>3. CASE p \in Follows(o[i])
      BY <3>1, <3>3 DEF SourceFirst
    <3>4. CASE \E j \in 1 .. i - 1 : o[j] = p
      BY <3>1, <3>4 DEF SourceFirst
    <3> QED
      BY <3>2, <3>3, <3>4 DEF SourceFirst
  <2>2. CASE i = Len(o) + 1
    <3>1. n[i] = v /\ i - 1 = Len(o)
      BY <1>1, <1>2, <2>2
    <3>2. p \in ToSet(o) \/ p \in Follows(v)
      BY <1>5, <3>1
    <3>3. CASE p \in ToSet(o)
      <4>1. PICK j \in 1 .. Len(o) : o[j] = p
        BY <1>2, <3>3
      <4>2. n[j] = p /\ j \in 1 .. i - 1
        BY <1>1, <3>1, <4>1
      <4> QED
        BY <4>2 DEF SourceFirst
    <3>4. CASE p \in Follows(v)
      BY <3>1, <3>4 DEF SourceFirst
    <3> QED
      BY <3>2, <3>3, <3>4
  <2> QED
    BY <1>3, <2>1, <2>2
<1>6. SourcesFirst(n)
  BY <1>5 DEF SourcesFirst
<1> QED
  BY <1>4, <1>6 DEF n

\* The body of visit, with visits that have depth variables left.
LEMMA VisitWell ==
    ASSUME OrderTypeOK, NEW depth \in Nat, NEW f, VisitOK(depth, f)
    PROVE  VisitOK(depth + 1, Visit(f))
<1> DEFINE vf == Visit(f)
<1>1. /\ vf \in [Searches \X Vars -> Searches]
      /\ \A st \in Searches, v \in Vars :
           vf[<<st, v>>] =
             IF v >= visibleCount \/ v \in ToSet(st.result) \cup st.inProgress THEN st
             ELSE LET below == Through(f, [st EXCEPT !.inProgress = @ \cup {v}], sources[v])
                  IN  [result |-> Append(below.result, v), inProgress |-> below.inProgress \ {v}]
  BY VisitType DEF VisitOK
<1> HIDE DEF vf
<1>2. ASSUME NEW G \in SUBSET Vars, NEW v \in Vars, \A g \in G : g \in Follows(v),
             Cardinality(Vars \ G) <= depth + 1, NEW st \in Searching(G)
      PROVE  Visits(st, v, vf[<<st, v>>])
  <2>1. /\ st \in Searches /\ st.inProgress = G /\ Apart(st.result) /\ SourcesFirst(st.result)
        /\ ToSet(st.result) \subseteq Visible /\ ToSet(st.result) \cap G = {}
    BY SearchingFields
  <2>2. CASE v >= visibleCount \/ v \in ToSet(st.result) \cup st.inProgress
    <3>1. vf[<<st, v>>] = st
      BY <1>1, <2>1, <2>2
    <3>2. v \in Visible => v \in ToSet(st.result) \cup st.inProgress
      <4>1. visibleCount \in Nat /\ v \in Nat
        BY VarsFinite DEF OrderTypeOK, Vars
      <4>2. v \in Visible => ~(v >= visibleCount)
        BY <4>1, VisibleVars
      <4> QED
        BY <2>2, <4>2
    <3> QED
      BY <2>1, <3>1, <3>2 DEF Visits
  <2>3. CASE ~(v >= visibleCount \/ v \in ToSet(st.result) \cup st.inProgress)
    <3> DEFINE s == sources[v]
               Gv == G \cup {v}
               entered == [st EXCEPT !.inProgress = @ \cup {v}]
               below == Through(f, entered, s)
               new == [result |-> Append(below.result, v), inProgress |-> below.inProgress \ {v}]
               Listed(i, x) == \A k \in 1 .. i : s[k] \in Visible => s[k] \in ToSet(x.result) \cup Gv
               Carried(i, x) == x \in Searching(Gv) /\ ToSet(st.result) \subseteq ToSet(x.result) /\ Listed(i, x)
               J == [i \in 0 .. Len(s) |-> {x \in Searches : Carried(i, x)}]
    <3>1. vf[<<st, v>>] = new
      BY <1>1, <2>1, <2>3
    <3>2. v \notin G /\ v \notin ToSet(st.result) /\ v \in Visible
      <4>1. visibleCount \in Nat /\ v \in Nat
        BY VarsFinite DEF OrderTypeOK, Vars
      <4>2. v < visibleCount
        BY <2>3, <4>1
      <4> QED
        BY <2>1, <2>3, <4>2, VisibleVars
    <3>3. /\ s \in Seq(Vars) /\ ToSet(s) = {s[i] : i \in 1 .. Len(s)} /\ Len(s) \in Nat
          /\ \A i \in 1 .. Len(s) : s[i] \in Vars /\ s[i] \in ToSet(s)
      BY GraphFields, ListOf
    <3>4. /\ entered \in Searches /\ entered.result = st.result /\ entered.inProgress = Gv
      BY <2>1 DEF Searches
    <3>5. Gv \in SUBSET Vars /\ Cardinality(Vars \ Gv) <= depth
      <4> DEFINE A == Vars \ G
      <4>1. Vars \ Gv = A \ {v} /\ v \in A /\ A \in SUBSET Vars
        BY <3>2
      <4>2. Cardinality(A) <= depth + 1
        BY <1>2
      <4> HIDE DEF A
      <4>3. IsFiniteSet(A) /\ Cardinality(A) \in Nat
        BY <4>1, VarsFinite
      <4>4. Cardinality(A \ {v}) = Cardinality(A) - 1
        BY <4>1, <4>3, FS_RemoveElement
      <4>5. Cardinality(A \ {v}) <= depth
        BY <4>2, <4>3, <4>4
      <4> QED
        BY <4>1, <4>5
    <3>6. ToSet(st.result) \cap Gv = {}
      BY <2>1, <3>2
    <3> HIDE DEF entered, s
    <3>7. entered \in Searching(Gv)
      BY <2>1, <3>4, <3>6, SearchingFields
    <3>8. \A i \in 1 .. Len(s) : \A g \in Gv : g \in Follows(s[i])
      <4> SUFFICES ASSUME NEW i \in 1 .. Len(s), NEW g \in Gv PROVE g \in Follows(s[i])
        OBVIOUS
      <4>1. s[i] \in Vars /\ s[i] \in ToSet(sources[v])
        BY <3>3 DEF s
      <4>2. v \in Follows(s[i]) /\ Follows(v) \subseteq Follows(s[i])
        BY <4>1, SourceFollowed
      <4> QED
        BY <1>2, <4>2
    <3> HIDE DEF Gv
    <3>9. entered \in J[0]
      <4>1. 0 \in 0 .. Len(s) /\ Listed(0, entered)
        BY <3>3
      <4> HIDE DEF Listed
      <4> QED
        BY <3>4, <3>7, <4>1
    <3>10. ASSUME NEW i \in 1 .. Len(s), NEW x \in Searches, x \in J[i - 1]
           PROVE  f[<<x, s[i]>>] \in J[i]
      <4> DEFINE y == f[<<x, s[i]>>]
      <4>1. i - 1 \in 0 .. Len(s) /\ i \in 0 .. Len(s) /\ i \in Nat
        BY <3>3
      <4>2. Carried(i - 1, x)
        <5> HIDE DEF Carried
        <5> QED
          BY <3>10, <4>1
      <4>3. s[i] \in Vars /\ \A g \in Gv : g \in Follows(s[i])
        BY <3>3, <3>8
      <4>4. Visits(x, s[i], y)
        BY <3>5, <4>2, <4>3 DEF VisitOK
      <4>5. y \in Searches
        BY <4>3 DEF VisitOK
      <4> HIDE DEF y, Listed
      <4>6. x.inProgress = Gv
        BY <4>2, SearchingFields
      <4>7. /\ y \in Searching(Gv) /\ ToSet(x.result) \subseteq ToSet(y.result)
            /\ s[i] \in Visible => s[i] \in ToSet(y.result) \cup Gv
        BY <4>4, <4>6 DEF Visits
      <4>8. Listed(i, y)
        <5>1. \A k \in 1 .. i : k = i \/ k \in 1 .. (i - 1)
          BY <4>1
        <5>2. \A k \in 1 .. (i - 1) : s[k] \in Visible => s[k] \in ToSet(x.result) \cup Gv
          BY <4>2 DEF Listed
        <5> QED
          BY <4>7, <5>1, <5>2 DEF Listed
      <4>9. Carried(i, y)
        BY <4>2, <4>7, <4>8
      <4> HIDE DEF Carried
      <4>10. y \in J[i]
        BY <4>1, <4>5, <4>9
      <4> QED
        BY <4>10 DEF y
    <3> HIDE DEF J
    <3>11. f \in [Searches \X Vars -> Searches]
      BY DEF VisitOK
    <3>12. below \in Searches /\ below \in J[Len(s)]
      BY <3>3, <3>4, <3>9, <3>10, <3>11, ThroughCarries
    <3> HIDE DEF below
    <3>13. Carried(Len(s), below)
      <4> HIDE DEF Carried
      <4>1. Len(s) \in 0 .. Len(s)
        BY <3>3
      <4> QED
        BY <3>12, <4>1 DEF J
    <3>14. /\ below.inProgress = Gv /\ Apart(below.result) /\ SourcesFirst(below.result)
           /\ ToSet(below.result) \subseteq Visible /\ ToSet(below.result) \cap Gv = {}
           /\ ToSet(st.result) \subseteq ToSet(below.result)
           /\ below.result \in Seq(Vars)
      <4> HIDE DEF Listed
      <4> QED
        BY <3>12, <3>13, SearchingFields DEF Searches
    <3>15. \A p \in ToSet(s) : p \in Visible => p \in ToSet(below.result) \cup Gv
      <4>1. \A k \in 1 .. Len(s) : s[k] \in Visible => s[k] \in ToSet(below.result) \cup Gv
        BY <3>13
      <4> QED
        BY <3>3, <4>1
    <3>16. \A p \in Gv : p \in Follows(v)
      BY <1>2, FollowsSelf DEF Gv
    <3>17. v \notin ToSet(below.result)
      BY <3>14 DEF Gv
    <3>18. \A p \in ToSet(sources[v]) : p \in Visible => p \in ToSet(below.result) \/ p \in Follows(v)
      BY <3>15, <3>16 DEF s
    <3> DEFINE o == below.result
               n == Append(below.result, v)
    <3>19. Apart(n) /\ SourcesFirst(n)
      <4> HIDE DEF o
      <4>1. o = below.result
        BY DEF o
      <4>2. Apart(Append(o, v)) /\ SourcesFirst(Append(o, v))
        BY <3>14, <3>17, <3>18, <4>1, AppendKeeps
      <4> QED
        BY <4>1, <4>2
    <3>20. n \in Seq(Vars) /\ ToSet(n) = ToSet(below.result) \cup {v}
      BY <3>14, ListWith
    <3> HIDE DEF n
    <3>21. new = [result |-> n, inProgress |-> G]
      <4>1. Gv \ {v} = G
        BY <3>2 DEF Gv
      <4> QED
        BY <3>14, <4>1 DEF n
    <3> HIDE DEF new
    <3>22. new \in Searches /\ new.result = n /\ new.inProgress = G
      BY <3>20, <3>21 DEF Searches
    <3>23. ToSet(n) \subseteq Visible /\ ToSet(n) \cap G = {}
      BY <3>2, <3>14, <3>20 DEF Gv
    <3>24. new \in Searching(G)
      BY <3>19, <3>21, <3>22, <3>23, SearchingFields
    <3> QED
      BY <2>1, <3>1, <3>14, <3>20, <3>21, <3>24 DEF Visits
  <2> QED
    BY <2>2, <2>3
<1>3. VisitOK(depth + 1, vf)
  BY <1>1, <1>2 DEF VisitOK
<1> QED
  BY <1>3 DEF vf

\* Every variable is in progress: the visit returns at once.
LEMMA VisitNothing ==
    ASSUME OrderTypeOK
    PROVE  VisitOK(0, [call \in Searches \X Vars |-> call[1]])
<1> DEFINE f == [call \in Searches \X Vars |-> call[1]]
<1>1. f \in [Searches \X Vars -> Searches] /\ \A st \in Searches, v \in Vars : f[<<st, v>>] = st
  OBVIOUS
<1> HIDE DEF f
<1>2. ASSUME NEW G \in SUBSET Vars, NEW v \in Vars, Cardinality(Vars \ G) <= 0,
             NEW st \in Searching(G)
      PROVE  Visits(st, v, f[<<st, v>>])
  <2> DEFINE A == Vars \ G
  <2>1. Cardinality(A) <= 0
    BY <1>2
  <2> HIDE DEF A
  <2>2. A \in SUBSET Vars
    BY DEF A
  <2>3. IsFiniteSet(A) /\ Cardinality(A) \in Nat
    BY <2>2, VarsFinite
  <2>4. Cardinality(A) = 0
    BY <2>1, <2>3
  <2>5. A = {}
    BY <2>3, <2>4, FS_EmptySet
  <2>6. v \in G
    BY <2>5 DEF A
  <2>7. st \in Searches /\ st.inProgress = G
    BY SearchingFields
  <2> QED
    BY <1>1, <2>6, <2>7 DEF Visits
<1>3. VisitOK(0, f)
  BY <1>1, <1>2 DEF VisitOK
<1> QED
  BY <1>3 DEF f

LEMMA VisitAllOK ==
    ASSUME OrderTypeOK
    PROVE  VisitOK(NVars, VisitAll)
<1> DEFINE T == [Searches \X Vars -> Searches]
           first == [call \in Searches \X Vars |-> call[1]]
           F == [x \in (1 .. NVars) \X T |-> Visit(x[2])]
           Loop(g) == g = [n \in 0 .. NVars |-> IF n = 0 THEN first ELSE Visit(g[n - 1])]
           g == CHOOSE g : Loop(g)
<1>1. NVars \in Nat
  BY VarsFinite
<1>2. first \in T
  OBVIOUS
<1>3. VisitOK(0, first)
  BY VisitNothing
<1>4. VisitAll = g[NVars]
  BY DEF VisitAll
<1> HIDE DEF first
<1>5. \A f \in T : Visit(f) \in T
  BY VisitType
<1> HIDE DEF T
<1>6. F \in [(1 .. NVars) \X T -> T]
  BY <1>5
<1>7. \A n \in 1 .. NVars, f \in T : F[<<n, f>>] = Visit(f)
  OBVIOUS
<1> HIDE DEF F
<1>8. PICK h : RecursionOver(F, first, NVars, T, h)
  BY <1>1, <1>2, <1>6, RecursionExists
<1>9. h \in [0 .. NVars -> T]
      /\ \A n \in 0 .. NVars : h[n] = IF n = 0 THEN first ELSE F[<<n, h[n - 1]>>]
  BY <1>8 DEF Recursion, RecursionOver
<1>10. ASSUME NEW n \in 0 .. NVars
       PROVE  h[n] = IF n = 0 THEN first ELSE Visit(h[n - 1])
  <2>1. CASE n = 0
    BY <1>9, <2>1
  <2>2. CASE n # 0
    <3>1. n \in 1 .. NVars /\ n - 1 \in 0 .. NVars
      BY <1>1, <2>2
    <3>2. h[n - 1] \in T /\ h[n] = F[<<n, h[n - 1]>>]
      BY <1>9, <2>2, <3>1
    <3> QED
      BY <1>7, <2>2, <3>1, <3>2
  <2> QED
    BY <2>1, <2>2
<1>11. Loop(h)
  BY <1>9, <1>10
<1>12. Loop(g)
  BY <1>11
<1> HIDE DEF g
<1>13. \A n \in 0 .. NVars : g[n] = IF n = 0 THEN first ELSE Visit(g[n - 1])
  BY <1>12
<1> DEFINE Good == {n \in Nat : n <= NVars => VisitOK(n, g[n])}
<1>14. 0 \in Good
  BY <1>1, <1>3, <1>13
<1>15. ASSUME NEW n \in Nat, n \in Good PROVE n + 1 \in Good
  <2> SUFFICES ASSUME n + 1 <= NVars PROVE VisitOK(n + 1, g[n + 1])
    OBVIOUS
  <2>1. n + 1 \in 0 .. NVars /\ n + 1 # 0 /\ (n + 1) - 1 = n /\ n <= NVars
    BY <1>1
  <2>2. VisitOK(n, g[n])
    BY <1>15, <2>1
  <2>3. g[n + 1] = Visit(g[n])
    BY <1>13, <2>1
  <2>4. VisitOK(n + 1, Visit(g[n]))
    BY <2>2, VisitWell
  <2> QED
    BY <2>3, <2>4
<1> HIDE DEF Good
<1>16. Nat \subseteq Good
  BY <1>14, <1>15, SetInduction
<1> QED
  BY <1>1, <1>4, <1>16 DEF Good

\* The topological order lists each visible variable once, sources first.
LEMMA TopoOrderSound ==
    ASSUME OrderTypeOK
    PROVE  /\ TopoOrder \in Seq(Vars) /\ Len(TopoOrder) = visibleCount
           /\ ToSet(TopoOrder) = Visible /\ Topological(Graph, TopoOrder)
<1> DEFINE s == [i \in 1 .. visibleCount |-> i - 1]
           st == [result |-> <<>>, inProgress |-> {}]
           Carried(i, x) == x \in Searching({}) /\ \A k \in 1 .. i : s[k] \in ToSet(x.result)
           J == [i \in 0 .. Len(s) |-> {x \in Searches : Carried(i, x)}]
<1>1. visibleCount \in Nat /\ visibleCount <= NVars /\ NVars \in Nat
  BY VarsFinite DEF OrderTypeOK
<1>2. /\ \A k \in 1 .. visibleCount : k - 1 \in Vars /\ k - 1 \in Visible
      /\ \A v \in Visible : v + 1 \in 1 .. visibleCount /\ v \in Int
  BY <1>1 DEF Vars, Visible
<1>3. /\ s \in Seq(Vars) /\ Len(s) = visibleCount
      /\ \A k \in 1 .. visibleCount : s[k] = k - 1 /\ s[k] \in Visible /\ s[k] \in Vars
  <2>1. s \in [1 .. visibleCount -> Vars]
    BY <1>2
  <2>2. s \in Seq(Vars)
    BY <1>1, <2>1, SeqDef
  <2>3. DOMAIN s = 1 .. visibleCount
    OBVIOUS
  <2>4. DOMAIN s = 1 .. Len(s) /\ Len(s) \in Nat
    BY <2>2, LenProperties
  <2> HIDE DEF s
  <2>5. Len(s) = visibleCount
    BY <1>1, <2>3, <2>4
  <2>6. \A k \in 1 .. visibleCount : s[k] = k - 1
    BY DEF s
  <2> QED
    BY <1>2, <2>2, <2>5, <2>6
<1>4. TopoOrder = Through(VisitAll, st, s).result
  BY DEF TopoOrder
<1>5. st \in Searches /\ st \in Searching({})
  <2>1. <<>> \in Seq(Vars) /\ Len(<<>>) = 0 /\ ToSet(<<>>) = {}
    BY EmptySeq DEF ToSet
  <2>2. st \in Searches /\ st.result = <<>> /\ st.inProgress = {}
    BY <2>1 DEF Searches
  <2>3. Apart(<<>>) /\ SourcesFirst(<<>>)
    BY <2>1 DEF Apart, SourcesFirst
  <2> HIDE DEF st
  <2>4. Apart(st.result) /\ SourcesFirst(st.result) /\ ToSet(st.result) = {}
    BY <2>1, <2>2, <2>3
  <2>5. ToSet(st.result) \subseteq Visible /\ ToSet(st.result) \cap {} = {}
    BY <2>4
  <2> QED
    BY <2>2, <2>4, <2>5, SearchingFields
<1> HIDE DEF st, s
<1>6. VisitOK(NVars, VisitAll)
  BY VisitAllOK
<1>7. /\ VisitAll \in [Searches \X Vars -> Searches]
      /\ \A v \in Vars, x \in Searching({}) : Visits(x, v, VisitAll[<<x, v>>])
  <2>1. Vars \ {} = Vars /\ {} \in SUBSET Vars
    OBVIOUS
  <2>2. Cardinality(Vars \ {}) <= NVars
    BY <1>1, <2>1, VarsFinite
  <2> QED
    BY <1>6, <2>1, <2>2 DEF VisitOK
<1>8. st \in J[0]
  <2>1. 0 \in 0 .. Len(s) /\ \A k \in 1 .. 0 : s[k] \in ToSet(st.result)
    BY <1>1, <1>3
  <2> QED
    BY <1>5, <2>1
<1>9. ASSUME NEW i \in 1 .. Len(s), NEW x \in Searches, x \in J[i - 1]
      PROVE  VisitAll[<<x, s[i]>>] \in J[i]
  <2> DEFINE y == VisitAll[<<x, s[i]>>]
  <2>1. i - 1 \in 0 .. Len(s) /\ i \in 0 .. Len(s) /\ i \in Nat
    BY <1>1, <1>3
  <2>2. Carried(i - 1, x)
    <3> HIDE DEF Carried
    <3> QED
      BY <1>9, <2>1
  <2>3. s[i] \in Vars /\ s[i] \in Visible
    BY <1>3
  <2>4. Visits(x, s[i], y) /\ y \in Searches
    BY <1>7, <2>2, <2>3
  <2> HIDE DEF y
  <2>5. x.inProgress = {}
    BY <2>2, SearchingFields
  <2>6. y \in Searching({}) /\ ToSet(x.result) \subseteq ToSet(y.result) /\ s[i] \in ToSet(y.result)
    BY <2>3, <2>4, <2>5 DEF Visits
  <2>7. \A k \in 1 .. i : k = i \/ k \in 1 .. (i - 1)
    BY <2>1
  <2>8. Carried(i, y)
    BY <2>2, <2>6, <2>7
  <2> HIDE DEF Carried
  <2>9. y \in J[i]
    BY <2>1, <2>4, <2>8
  <2> QED
    BY <2>9 DEF y
<1> HIDE DEF J
<1> DEFINE r == Through(VisitAll, st, s)
<1>10. r \in Searches /\ r \in J[Len(s)]
  BY <1>3, <1>5, <1>7, <1>8, <1>9, ThroughCarries
<1> HIDE DEF r
<1>11. Carried(Len(s), r)
  <2> HIDE DEF Carried
  <2>1. Len(s) \in 0 .. Len(s)
    BY <1>1, <1>3
  <2> QED
    BY <1>10, <2>1 DEF J
<1> DEFINE o == r.result
<1>12. /\ o \in Seq(Vars) /\ Apart(o) /\ SourcesFirst(o) /\ ToSet(o) \subseteq Visible
  BY <1>10, <1>11, SearchingFields DEF Searches
<1>13. TopoOrder = o
  BY <1>4 DEF r
<1>14. Visible \subseteq ToSet(o)
  <2> SUFFICES ASSUME NEW v \in Visible PROVE v \in ToSet(o)
    OBVIOUS
  <2>1. v + 1 \in 1 .. Len(s) /\ (v + 1) - 1 = v
    BY <1>2, <1>3
  <2>2. s[v + 1] = v
    BY <1>3, <2>1
  <2> QED
    BY <1>11, <2>1, <2>2
<1> HIDE DEF o, Carried
<1>15. /\ ToSet(o) = {o[i] : i \in 1 .. Len(o)} /\ Len(o) \in Nat
       /\ DOMAIN o = 1 .. Len(o) /\ \A i \in 1 .. Len(o) : o[i] \in ToSet(o)
  BY <1>12, ListOf, LenProperties
<1>16. Len(o) = visibleCount
  <2> DEFINE D == 1 .. Len(o)
  <2>1. o \in [D -> Visible]
    BY <1>12, <1>15, LenProperties
  <2>2. \A v \in Visible : \E i \in D : o[i] = v
    BY <1>14, <1>15
  <2>3. \A i, j \in D : o[i] = o[j] => i = j
    BY <1>12 DEF Apart
  <2>4. o \in Bijection(D, Visible)
    BY <2>1, <2>2, <2>3 DEF Bijection, Injection, Surjection, IsInjective
  <2>5. ExistsBijection(D, Visible)
    BY <2>4 DEF ExistsBijection
  <2>6. 1 \in Int /\ Len(o) \in Int /\ 0 \in Int /\ visibleCount - 1 \in Int
    BY <1>1, <1>15
  <2>7. IsFiniteSet(D) /\ Cardinality(D) = IF 1 > Len(o) THEN 0 ELSE Len(o) - 1 + 1
    BY <2>6, FS_Interval
  <2>8. Cardinality(Visible) = IF 0 > visibleCount - 1 THEN 0 ELSE visibleCount - 1 - 0 + 1
    BY <2>6, FS_Interval DEF Visible
  <2> HIDE DEF D
  <2>9. Cardinality(Visible) = Cardinality(D)
    BY <2>5, <2>7, FS_Bijection
  <2>10. Cardinality(D) = Len(o)
    BY <1>15, <2>7
  <2>11. Cardinality(Visible) = visibleCount
    BY <1>1, <2>8
  <2> QED
    BY <2>9, <2>10, <2>11
<1>17. Topological(Graph, o)
  <2> SUFFICES ASSUME NEW i \in 1 .. Len(o), NEW j \in 1 .. Len(o),
                      o[j] \in Graph[o[i]].src, i < j
               PROVE  o[j] \in Follows(o[i])
    BY <1>15 DEF Topological, Follows
  <2>1. o[i] \in Vars /\ o[j] \in Visible
    BY <1>2, <1>12, <1>15, VisibleVars
  <2>2. o[j] \in ToSet(sources[o[i]])
    BY <2>1, GraphFields
  <2>3. SourceFirst(o, i, o[j])
    BY <1>12, <2>1, <2>2 DEF SourcesFirst
  <2>4. ASSUME NEW k \in 1 .. i - 1, o[k] = o[j] PROVE FALSE
    <3>1. i \in 1 .. Len(o) /\ j \in 1 .. Len(o) /\ i < j /\ k \in 1 .. i - 1 /\ Len(o) \in Nat
      BY <1>15
    <3>2. k \in 1 .. Len(o) /\ k # j
      BY <3>1
    <3> QED
      BY <1>12, <2>4, <3>2 DEF Apart
  <2> QED
    BY <2>3, <2>4 DEF SourceFirst
<1> QED
  BY <1>12, <1>13, <1>14, <1>16, <1>17

-----------------------------------------------------------------------------
(* The graph as it changes                                                 *)

\* The inductive invariant: a cached order is dropped whenever what it was
\* computed from changes, so that it stays the order of the graph as it is.
GraphKept == OrderTypeOK /\ OrderTopological

\* The order is a matter of the sources alone.
LEMMA TopologicalOf ==
    ASSUME NEW L, NEW M, \A v \in Vars : L[v].src = M[v].src,
           NEW o, ToSet(o) \subseteq Vars, Topological(L, o)
    PROVE  Topological(M, o)
<1>1. Beliefs(L) = Beliefs(M)
  BY DEF Beliefs
<1>2. \A i \in DOMAIN o : o[i] \in Vars
  BY DEF ToSet
<1> QED
  BY <1>1, <1>2 DEF Topological

LEMMA OrderInitKept == OrderInit => GraphKept
<1> SUFFICES ASSUME OrderInit PROVE GraphKept
  OBVIOUS
<1>1. 1 \in 1 .. NVars
  BY VarsFinite, LedgerAssumption DEF LedgerAssumption
<1>2. <<>> \in Seq(Vars)
  BY EmptySeq
<1>3. OrderTypeOK
  BY <1>1, <1>2 DEF OrderInit, OrderTypeOK
<1> QED
  BY <1>3 DEF OrderInit, GraphKept, OrderTopological

LEMMA OrderNextKept == GraphKept /\ [OrderNext]_orderVars => GraphKept'
<1> SUFFICES ASSUME GraphKept, [OrderNext]_orderVars PROVE GraphKept'
  OBVIOUS
<1>1. OrderTypeOK /\ OrderTopological /\ Visible \subseteq Vars
  BY VisibleVars DEF GraphKept
<1>2. NVars \in Nat /\ visibleCount \in 1 .. NVars
  BY <1>1, VarsFinite DEF OrderTypeOK
<1>3. CASE InstallSome
  <2>1. PICK v \in Visible : \E src \in Sources[v] :
           ToSet(src) \subseteq Visible \ ({v} \cup routes[v]) /\ Install(v, src)
    BY <1>3 DEF InstallSome
  <2>2. PICK src \in Sources[v] : Install(v, src)
    BY <2>1
  <2>3. v \in Vars /\ src \in Seq(Vars)
    BY <1>1, SourcesAssumption DEF SourcesAssumption
  <2>4. /\ sources' = [sources EXCEPT ![v] = src]
        /\ cache' = IF sources[v] # src THEN NoCache ELSE cache
        /\ routes' = routes /\ visibleCount' = visibleCount
    BY <2>2 DEF Install
  <2>5. OrderTypeOK'
    BY <1>1, <2>3, <2>4 DEF OrderTypeOK
  <2>6. OrderTopological'
    <3>1. CASE sources[v] # src
      BY <2>4, <3>1 DEF OrderTopological, NoCache
    <3>2. CASE sources[v] = src
      <4>1. sources' = sources /\ cache' = cache
        BY <1>1, <2>3, <2>4, <3>2 DEF OrderTypeOK
      <4>2. Graph' = Graph /\ Visible' = Visible
        BY <2>4, <4>1 DEF Graph, Visible
      <4> QED
        BY <1>1, <2>4, <4>1, <4>2 DEF OrderTopological, NoCache
    <3> QED
      BY <3>1, <3>2
  <2> QED
    BY <2>5, <2>6 DEF GraphKept
<1>4. CASE CertifyRoute
  <2>1. PICK v \in Visible : \E p \in Visible : routes' = [routes EXCEPT ![v] = @ \cup {p}]
    BY <1>4 DEF CertifyRoute
  <2>2. PICK p \in Visible : routes' = [routes EXCEPT ![v] = @ \cup {p}]
    BY <2>1
  <2>3. sources' = sources /\ visibleCount' = visibleCount /\ cache' = cache
    BY <1>4 DEF CertifyRoute
  <2>4. v \in Vars /\ p \in Vars
    BY <1>1
  <2>5. routes' \in [Vars -> SUBSET Vars]
    BY <1>1, <2>2, <2>4 DEF OrderTypeOK
  <2>6. OrderTypeOK'
    BY <1>1, <2>3, <2>5 DEF OrderTypeOK
  <2>7. \A x \in Vars : Graph[x].src = Graph'[x].src
    <3>1. \A x \in Vars : Graph[x].src = ToSet(sources[x])
      BY <1>1, GraphFields
    <3>2. \A x \in Vars : Graph'[x].src = ToSet(sources'[x])
      BY DEF Graph, FreshVar
    <3> QED
      BY <2>3, <3>1, <3>2
  <2>8. OrderTopological'
    <3> SUFFICES ASSUME cache # NoCache, cache.count = visibleCount
                 PROVE  /\ Len(cache.order) = visibleCount /\ ToSet(cache.order) = Visible
                        /\ Topological(Graph', cache.order)
      BY <2>3 DEF OrderTopological, NoCache, Visible
    <3>1. /\ Len(cache.order) = visibleCount /\ ToSet(cache.order) = Visible
          /\ Topological(Graph, cache.order)
      BY <1>1 DEF OrderTopological
    <3>2. ToSet(cache.order) \subseteq Vars
      BY <1>1, <3>1
    <3> DEFINE L == Graph
               M == Graph'
               o == cache.order
    <3>3. /\ \A x \in Vars : L[x].src = M[x].src
          /\ ToSet(o) \subseteq Vars /\ Topological(L, o)
      BY <2>7, <3>1, <3>2
    <3> HIDE DEF L, M, o
    <3>4. Topological(M, o)
      BY <3>3, TopologicalOf
    <3> QED
      BY <3>1, <3>4 DEF M, o
  <2> QED
    BY <2>6, <2>8 DEF GraphKept
<1>5. CASE RevealOne
  <2>1. visibleCount' \in 1 .. NVars /\ sources' = sources /\ routes' = routes /\ cache' = NoCache
    BY <1>2, <1>5 DEF RevealOne
  <2> QED
    BY <1>1, <2>1 DEF GraphKept, OrderTypeOK, OrderTopological, NoCache
<1>6. CASE Order
  <2>1. sources' = sources /\ routes' = routes /\ visibleCount' = visibleCount
    BY <1>6 DEF Order
  <2>2. Graph' = Graph /\ Visible' = Visible
    BY <2>1 DEF Graph, Visible
  <2>3. OrderTypeOK'
    BY <1>1, <2>1 DEF OrderTypeOK
  <2>4. CASE cache # NoCache /\ cache.count = visibleCount
    <3>1. cache' = cache
      BY <1>6, <2>4 DEF Order
    <3> QED
      BY <1>1, <2>1, <2>2, <2>3, <3>1 DEF GraphKept, OrderTopological, NoCache
  <2>5. CASE ~(cache # NoCache /\ cache.count = visibleCount)
    <3>1. cache' = [order |-> TopoOrder, count |-> visibleCount]
      BY <1>6, <2>5 DEF Order
    <3>2. /\ Len(TopoOrder) = visibleCount /\ ToSet(TopoOrder) = Visible
          /\ Topological(Graph, TopoOrder)
      BY <1>1, TopoOrderSound
    <3>3. cache'.order = TopoOrder
      BY <3>1
    <3>4. OrderTopological'
      BY <2>1, <2>2, <3>2, <3>3 DEF OrderTopological
    <3> QED
      BY <2>3, <3>4 DEF GraphKept
  <2> QED
    BY <2>4, <2>5
<1>7. CASE UNCHANGED orderVars
  <2>1. sources' = sources /\ routes' = routes /\ visibleCount' = visibleCount /\ cache' = cache
    BY <1>7 DEF orderVars
  <2>2. Graph' = Graph /\ Visible' = Visible
    BY <2>1 DEF Graph, Visible
  <2> QED
    BY <1>1, <2>1, <2>2 DEF GraphKept, OrderTypeOK, OrderTopological, NoCache
<1> QED
  BY <1>3, <1>4, <1>5, <1>6, <1>7 DEF OrderNext

\* Whatever fits the audits install, cycles of beliefs among them, the order a
\* cycle is given (_topological_order, cached or computed) lists each visible
\* variable once and its sources first, but along a cycle.
THEOREM TopoOrderFresh == OrderSpec => []OrderTopological
<1>1. GraphKept => OrderTopological
  BY DEF GraphKept
<1> QED
  BY <1>1, OrderInitKept, OrderNextKept, PTL DEF OrderSpec

\* In every reachable graph the cascade's closure (closure_descendants) is
\* exactly what the unpruned edges reach: nothing stale keeps its authority, and
\* nothing is demoted without reason.
THEOREM ClosureAlwaysExact == OrderSpec => []ClosureExact
<1>1. GraphKept => ClosureExact
  BY ClosureHolds DEF GraphKept
<1> QED
  BY <1>1, OrderInitKept, OrderNextKept, PTL DEF OrderSpec

\* In every reachable graph _is_ancestor answers exactly whether a chain of
\* sources leads from one variable to the other.
THEOREM AncestorAlwaysExact == OrderSpec => []AncestorExact
<1>1. GraphKept => AncestorExact
  BY AncestorHolds DEF GraphKept
<1> QED
  BY <1>1, OrderInitKept, OrderNextKept, PTL DEF OrderSpec
=============================================================================
