----------------------- MODULE AuthorityControl_proofs -----------------------
(***************************************************************************)
(* Proofs about AuthorityControl, for any number of variables, any fits,   *)
(* evidence and settings, and any budgets: what the three classifiers make *)
(* of the same evidence, and what the controller remembers of a context.   *)
(***************************************************************************)
EXTENDS AuthorityControl, FiniteSetTheorems, WellFoundedInduction, TLAPS

-----------------------------------------------------------------------------
(* The classifiers                                                         *)

LEMMA StrongHasNothingAgainst ==
    ASSUME NEW e \in EvidenceRecord, Strength(e) = "strong"
    PROVE  /\ Contradictions(e) = {} /\ e.strong >= 3 /\ e.sentinels
           /\ ~LowMargin(e)
BY DEF Strength

LEMMA ContradictionMarks ==
    ASSUME NEW e \in EvidenceRecord, Contradictions(e) = {}
    PROVE  /\ Fitted(e) /\ ~e.near /\ ~Ties(e) /\ ~e.novelty /\ ~e.churn
           /\ ~(e.revoked > 0) /\ ~e.failing /\ ~e.alternatives
<1> DEFINE f == [fit_margin_missing |-> ~Fitted(e), low_fit_margin |-> LowMargin(e),
                 near_ties |-> e.near, tied_frontier |-> Ties(e),
                 open_novelty |-> e.novelty, repeated_fit_churn |-> e.churn,
                 recent_revocations |-> e.revoked > 0, sentinel_failures |-> e.failing,
                 passive_stress |-> e.stress, dormant_alternatives |-> e.alternatives,
                 regime_sentinel_failure |-> e.regimeFailed]
<1>1. \A k \in DOMAIN f : ~f[k]
  BY DEF Contradictions, Marked
<1>2. /\ f["fit_margin_missing"] = ~Fitted(e) /\ f["near_ties"] = e.near
      /\ f["tied_frontier"] = Ties(e) /\ f["open_novelty"] = e.novelty
      /\ f["repeated_fit_churn"] = e.churn /\ f["recent_revocations"] = (e.revoked > 0)
      /\ f["sentinel_failures"] = e.failing /\ f["dormant_alternatives"] = e.alternatives
  OBVIOUS
<1>3. {"fit_margin_missing", "near_ties", "tied_frontier", "open_novelty", "repeated_fit_churn",
       "recent_revocations", "sentinel_failures", "dormant_alternatives"} \subseteq DOMAIN f
  OBVIOUS
<1> HIDE DEF f
<1> QED
  BY <1>1, <1>2, <1>3

LEMMA StrongSupported ==
    ASSUME NEW e \in EvidenceRecord, e.moved => e.churn,
           Strength(e) = "strong", e.drift < 2
    PROVE  /\ ~Throttled(e, TRUE)
           /\ Governance(e) = "continue_best_available"
<1>1. /\ e.strong \in 0..3 /\ e.revoked \in 0..2 /\ e.margin \in 0..3 /\ e.drift \in 0..2
      /\ e.tied \in BOOLEAN /\ e.frontier \in BOOLEAN
  BY DEF EvidenceRecord
<1>2. /\ e.strong >= 3 /\ e.sentinels /\ ~LowMargin(e)
      /\ Fitted(e) /\ ~e.near /\ ~Ties(e) /\ ~e.novelty /\ ~e.churn /\ ~e.moved
      /\ ~(e.revoked > 0) /\ ~e.failing /\ ~e.alternatives
  BY StrongHasNothingAgainst, ContradictionMarks
<1>3. ~e.tied /\ ~e.frontier
  BY <1>2 DEF Ties
<1>4. ~(e.margin = 0) /\ ~(e.revoked >= 2) /\ ~(e.drift >= 2) /\ ~(e.strong = 0)
  BY <1>1, <1>2 DEF LowMargin
<1>5. ~Contradicted(e) /\ ~LowEvidence(e) /\ ~Rivalled(e)
  BY <1>2, <1>3, <1>4 DEF Contradicted, LowEvidence, Rivalled
<1>6. ~Throttled(e, TRUE)
  BY <1>5 DEF Throttled, EvidenceClass
<1>7. Governance(e) = "continue_best_available"
  BY <1>2, <1>3, <1>4 DEF Governance, NoMargin
<1> QED
  BY <1>6, <1>7

LEMMA ProposedRange == 
    ASSUME NEW e
    PROVE  Proposed(e) \in Settled \cup Bad
BY DEF Proposed, Strength, Settled, Bad

-----------------------------------------------------------------------------
(* What the controller remembers of one context                            *)

\* A debt depends on what was known of its own context alone.
LEMMA DebtLocal ==
    ASSUME NEW ds, NEW es, NEW k, NEW e,
           k \in DOMAIN ds <=> k \in DOMAIN es, k \in DOMAIN ds => ds[k] = es[k]
    PROVE  Debt(ds, k, e) = Debt(es, k, e)
<1>1. (Known(ds, k) <=> Known(es, k)) /\ (Changed(ds, k) <=> Changed(es, k))
  BY DEF Known, Changed
<1>2. Persistence(ds, k, e) = Persistence(es, k, e)
  <2>1. CASE k \in DOMAIN ds
    BY <1>1, <2>1 DEF Persistence
  <2>2. CASE k \notin DOMAIN ds
    <3>1. ~Known(ds, k) /\ ~Known(es, k) /\ Changed(ds, k) /\ Changed(es, k)
      BY <2>2 DEF Known, Changed
    <3> QED
      BY <3>1 DEF Persistence
  <2> QED
    BY <2>1, <2>2
<1>3. \A p : NextState(ds, k, e, p) = NextState(es, k, e, p)
  BY <1>1 DEF NextState, Known
<1>4. \A s, p : Required(ds, k, e, s, p) = Required(es, k, e, s, p)
  BY <1>1 DEF Required, Asks, Known
<1>5. \A s, r : Paid(ds, k, e, s, r) = Paid(es, k, e, s, r)
  BY <1>1 DEF Paid, Known
<1>6. (IF Known(ds, k) THEN ds[k].age ELSE Cooldown) = (IF Known(es, k) THEN es[k].age ELSE Cooldown)
  BY <1>1 DEF Known
<1> QED
  BY <1>1, <1>2, <1>3, <1>4, <1>5, <1>6 DEF Debt

DebtOK(d) == d \in DebtType /\ d.paid <= d.required

\* What the policy of the run forbids in a state is remembered with the debt.
Cleared(d) ==
    /\ setting.policy = "quarantine_persistent" /\ d.state = "quarantined_for_derivation"
         => ~d.allowed
    /\ setting.policy = "quarantine_repair_only" /\ d.state = "repair_candidate" => ~d.allowed

\* The count of a debt is backed by epochs that were judged bad; a bad state
\* says that the last epoch was.
Earned(d, h) ==
    /\ h.epochs \in 0..2 /\ h.now \in BOOLEAN
    /\ Least(2, d.persistence) <= h.epochs
    /\ d.state \in Bad => h.now
    /\ d.state = "quarantined_for_derivation" => h.epochs = 2

LEMMA PersistenceType ==
    ASSUME NEW ds, NEW k, NEW e, k \in DOMAIN ds => ds[k].persistence \in Nat
    PROVE  Persistence(ds, k, e) \in Nat
<1>1. CASE k \in DOMAIN ds
  BY <1>1 DEF Persistence
<1>2. CASE k \notin DOMAIN ds
  <2>1. ~Known(ds, k) /\ Changed(ds, k)
    BY <1>2 DEF Known, Changed
  <2> QED
    BY <2>1 DEF Persistence
<1> QED
  BY <1>1, <1>2

\* The state of a debt is what the evidence proposes, quarantine of what is
\* contested and persists, or a settled one.
LEMMA NextStateRange ==
    ASSUME NEW ds, NEW k, NEW e, NEW p
    PROVE  \/ NextState(ds, k, e, p) = Proposed(e)
           \/ NextState(ds, k, e, p) = "usable"
           \/ /\ NextState(ds, k, e, p) = "quarantined_for_derivation"
              /\ p >= 2 /\ Proposed(e) = "contested_best_available"
BY DEF NextState

LEMMA DebtShape ==
    ASSUME NEW ds, NEW k, NEW e
    PROVE  LET d == Debt(ds, k, e)
               p == Persistence(ds, k, e) IN
           /\ d.persistence = p /\ d.judged = TRUE
           /\ d.allowed = DerivationAllowed(d.state, Reasons(e))
           /\ d.age = IF Known(ds, k) THEN ds[k].age ELSE Cooldown
           /\ \/ d.state = Proposed(e)
              \/ d.state \in Settled
              \/ /\ d.state = "quarantined_for_derivation"
                 /\ p >= 2 /\ Proposed(e) = "contested_best_available"
<1> DEFINE p == Persistence(ds, k, e)
           d == Debt(ds, k, e)
<1>1. /\ d.persistence = p /\ d.judged = TRUE
      /\ d.allowed = DerivationAllowed(d.state, Reasons(e))
      /\ d.age = IF Known(ds, k) THEN ds[k].age ELSE Cooldown
  BY DEF Debt
<1>2. d.state \in {"strong", "usable", NextState(ds, k, e, p)}
  BY DEF Debt
<1> QED
  BY <1>1, <1>2, NextStateRange DEF Settled

\* _next_state and the count agree with the epochs.
LEMMA DebtEarned ==
    ASSUME NEW k, NEW e,
           k \in DOMAIN debts <=> k \in DOMAIN heard,
           k \in DOMAIN debts => debts[k].persistence \in Nat /\ Earned(debts[k], heard[k])
    PROVE  Earned(Debt(debts, k, e), Heard(k, e))
<1> DEFINE p == Persistence(debts, k, e)
           d == Debt(debts, k, e)
           h == Heard(k, e)
<1>1. /\ d.persistence = p
      /\ d.state \in Bad => Proposed(e) \in Bad
      /\ d.state = "quarantined_for_derivation" => p >= 2
  BY DebtShape, ProposedRange DEF Bad, Settled
<1>2. p \in Nat
  BY PersistenceType
<1>3. h.epochs \in 0..2 /\ h.now \in BOOLEAN /\ (Proposed(e) \in Bad => h.now)
      /\ Least(2, p) <= h.epochs
  <2>1. CASE k \notin DOMAIN debts
    <3>1. ~Known(debts, k) /\ ~Known(heard, k) /\ Changed(debts, k)
      BY <2>1 DEF Known, Changed
    <3>2. p = IF Proposed(e) \in Bad THEN 1 ELSE 0
      BY <3>1 DEF Persistence
    <3>3. h = IF Proposed(e) \in Bad THEN [epochs |-> 1, now |-> TRUE]
              ELSE [epochs |-> 0, now |-> FALSE]
      BY <3>1 DEF Heard, Least
    <3> QED
      BY <3>2, <3>3 DEF Least
  <2>2. CASE k \in DOMAIN debts /\ Changed(debts, k)
    <3>1. Known(debts, k) /\ Known(heard, k)
      BY <2>2 DEF Known
    <3> DEFINE n == IF heard[k].now THEN heard[k].epochs ELSE 0
    <3>2. n \in 0..2 /\ (debts[k].state \in Bad => Least(2, debts[k].persistence) <= n)
      BY <2>2 DEF Earned
    <3>3. h = IF Proposed(e) \in Bad THEN [epochs |-> Least(2, n + 1), now |-> TRUE]
              ELSE [epochs |-> n, now |-> FALSE]
      BY <2>2, <3>1 DEF Heard
    <3>4. p = IF debts[k].state = Proposed(e) /\ Proposed(e) \in Bad THEN debts[k].persistence + 1
              ELSE IF Proposed(e) \in Bad THEN 1 ELSE 0
      BY <2>2, <3>1 DEF Persistence
    <3>5. debts[k].persistence \in Nat
      BY <2>2
    <3> HIDE DEF n
    <3>6. CASE Proposed(e) \notin Bad
      <4>1. p = 0 /\ h.epochs = n /\ h.now = FALSE
        BY <3>3, <3>4, <3>6
      <4> HIDE DEF p, h
      <4>2. h.now \in BOOLEAN /\ (Proposed(e) \in Bad => h.now)
        BY <3>6, <4>1, Zenon
      <4>3. h.epochs \in 0..2 /\ Least(2, p) <= h.epochs
        BY <3>2, <4>1 DEF Least
      <4> QED
        BY <4>2, <4>3, Zenon
    <3>7. CASE Proposed(e) \in Bad
      <4>1. h.epochs = Least(2, n + 1) /\ h.now = TRUE
        BY <3>3, <3>7
      <4>2. p = 1 \/ (p = debts[k].persistence + 1 /\ Least(2, debts[k].persistence) <= n)
        BY <3>2, <3>4, <3>7
      <4>3. Least(2, p) <= Least(2, n + 1) /\ Least(2, n + 1) \in 0..2
        BY <3>2, <3>5, <4>2 DEF Least
      <4> QED
        BY <4>1, <4>3
    <3> QED
      BY <3>6, <3>7
  <2>3. CASE k \in DOMAIN debts /\ ~Changed(debts, k)
    <3>1. Known(debts, k) /\ Known(heard, k)
      BY <2>3 DEF Known
    <3>2. p = debts[k].persistence
      BY <2>3 DEF Persistence
    <3>3. heard[k].epochs \in 0..2 /\ heard[k].now \in BOOLEAN
          /\ Least(2, debts[k].persistence) <= heard[k].epochs
      BY <2>3 DEF Earned
    <3>4. h = IF Proposed(e) \in Bad /\ ~heard[k].now
              THEN [epochs |-> Least(2, heard[k].epochs + 1), now |-> TRUE] ELSE heard[k]
      BY <2>3, <3>1 DEF Heard
    <3>5. CASE Proposed(e) \in Bad /\ ~heard[k].now
      <4>1. h.epochs = Least(2, heard[k].epochs + 1) /\ h.now = TRUE
        BY <3>4, <3>5
      <4>2. Least(2, heard[k].epochs + 1) \in 0..2
            /\ heard[k].epochs <= Least(2, heard[k].epochs + 1)
        BY <3>3 DEF Least
      <4>3. Least(2, p) \in Int
        BY <1>2 DEF Least
      <4>4. Least(2, p) <= heard[k].epochs
        BY <3>2, <3>3
      <4> HIDE DEF p, h
      <4>5. h.now \in BOOLEAN /\ (Proposed(e) \in Bad => h.now)
        BY <4>1, Zenon
      <4>6. h.epochs \in 0..2 /\ Least(2, p) <= h.epochs
        BY <3>3, <4>1, <4>2, <4>3, <4>4
      <4> QED
        BY <4>5, <4>6, Zenon
    <3>6. CASE ~(Proposed(e) \in Bad /\ ~heard[k].now)
      BY <3>2, <3>3, <3>4, <3>6
    <3> QED
      BY <3>5, <3>6
  <2> QED
    BY <2>1, <2>2, <2>3
<1>4. p >= 2 => h.epochs = 2
  BY <1>2, <1>3 DEF Least
<1> HIDE DEF p, d, h
<1> QED
  BY <1>1, <1>3, <1>4 DEF Earned, d, h

LEMMA FutureCount == ASSUME NEW e PROVE Cardinality(Future(e)) \in Nat
<1> DEFINE Names == {"sentinel_coverage", "more_stable_observations", "larger_fit_margin",
                     "separating_evidence", "stability_after_uncertainty"}
<1>1. IsFiniteSet(Names)
  <2> DEFINE A == {"sentinel_coverage"}
             B == A \cup {"more_stable_observations"}
             C == B \cup {"larger_fit_margin"}
             D == C \cup {"separating_evidence"}
             E == D \cup {"stability_after_uncertainty"}
  <2>1. IsFiniteSet(A)
    BY FS_Singleton
  <2>2. IsFiniteSet(B)
    BY <2>1, FS_AddElement
  <2>3. IsFiniteSet(C)
    BY <2>2, FS_AddElement
  <2>4. IsFiniteSet(D)
    BY <2>3, FS_AddElement
  <2>5. IsFiniteSet(E)
    BY <2>4, FS_AddElement
  <2>6. E = Names
    OBVIOUS
  <2> QED
    BY <2>5, <2>6
<1>2. Future(e) \subseteq Names
  BY DEF Future, Marked
<1> QED
  BY <1>1, <1>2, FS_Subset, FS_CardinalityType

LEMMA DebtTypeIntro ==
    ASSUME NEW s \in Settled \cup Bad \cup {"quarantined_for_derivation"},
           NEW p \in Nat, NEW r \in Nat, NEW paid \in Nat,
           NEW allowed \in BOOLEAN, NEW age \in 0..Cooldown
    PROVE  [state |-> s, persistence |-> p, required |-> r, paid |-> paid,
            judged |-> TRUE, allowed |-> allowed, age |-> age] \in DebtType
BY DEF DebtType

\* Types of a debt, and that no more is paid than it asks for.
LEMMA DebtTyped ==
    ASSUME NEW ds, NEW k, NEW e, k \in DOMAIN ds => DebtOK(ds[k])
    PROVE  DebtOK(Debt(ds, k, e))
<1> DEFINE p == Persistence(ds, k, e)
           next == NextState(ds, k, e, p)
           required == Required(ds, k, e, next, p)
           paid == Paid(ds, k, e, next, required)
           d == Debt(ds, k, e)
<1>1. /\ d = [state |-> d.state, persistence |-> p, required |-> required, paid |-> paid,
              judged |-> TRUE, allowed |-> DerivationAllowed(d.state, Reasons(e)),
              age |-> IF Known(ds, k) THEN ds[k].age ELSE Cooldown]
      /\ d.required = required /\ d.paid = paid
  BY DEF Debt
<1>2. p \in Nat
  BY PersistenceType DEF DebtOK, DebtType
<1>3. d.state \in Settled \cup Bad \cup {"quarantined_for_derivation"}
  BY DebtShape, ProposedRange
<1>4. DerivationAllowed(d.state, Reasons(e)) \in BOOLEAN
  BY DEF DerivationAllowed
<1>5. (IF Known(ds, k) THEN ds[k].age ELSE Cooldown) \in 0..Cooldown
  BY AuthorityAssumption DEF AuthorityAssumption, Known, DebtOK, DebtType
<1>6. required \in Nat /\ (k \in DOMAIN ds => ds[k].required <= required)
  <2>1. CASE k \in DOMAIN ds
    BY <2>1 DEF Required, Known, DebtOK, DebtType
  <2>2. CASE k \notin DOMAIN ds
    BY <2>2, FutureCount DEF Required, Known
  <2> QED
    BY <2>1, <2>2
<1>7. paid \in Nat /\ paid <= required
  <2>1. CASE k \notin DOMAIN ds
    BY <1>6, <2>1 DEF Paid, Known
  <2>2. CASE k \in DOMAIN ds
    <3>1. ds[k].paid \in Nat /\ ds[k].required \in Nat /\ ds[k].paid <= ds[k].required
      BY <2>2 DEF DebtOK, DebtType
    <3>2. Due(e) \in Nat
      BY DEF Due
    <3>3. paid = ds[k].paid \/ paid = Least(required, ds[k].paid + Due(e))
      BY <2>2 DEF Paid, Known
    <3> HIDE DEF required, paid
    <3> QED
      BY <1>6, <2>2, <3>1, <3>2, <3>3 DEF Least
  <2> QED
    BY <2>1, <2>2
<1> HIDE DEF p, next, required, paid, d
<1>8. d \in DebtType
  <2> DEFINE allowed == DerivationAllowed(d.state, Reasons(e))
             age == IF Known(ds, k) THEN ds[k].age ELSE Cooldown
  <2>1. allowed \in BOOLEAN /\ age \in 0..Cooldown
    BY <1>4, <1>5
  <2>2. d = [state |-> d.state, persistence |-> p, required |-> required, paid |-> paid,
             judged |-> TRUE, allowed |-> allowed, age |-> age]
    BY <1>1
  <2> HIDE DEF allowed, age
  <2> QED
    BY <1>2, <1>3, <1>6, <1>7, <2>1, <2>2, DebtTypeIntro
<1>9. d.paid <= d.required
  BY <1>1, <1>7
<1> QED
  BY <1>8, <1>9 DEF DebtOK, d

LEMMA DebtCleared ==
    ASSUME NEW ds, NEW k, NEW e
    PROVE  Cleared(Debt(ds, k, e))
<1> DEFINE d == Debt(ds, k, e)
<1>1. d.allowed = DerivationAllowed(d.state, Reasons(e))
  BY DebtShape
<1> HIDE DEF d
<1> QED
  BY <1>1 DEF Cleared, DerivationAllowed, WouldBlock, d

-----------------------------------------------------------------------------
(* One pass of the controller                                              *)

\* Induction over the naturals, for a set of them.
LEMMA SetInduction ==
  ASSUME NEW S, 0 \in S, \A n \in Nat : n \in S => n + 1 \in S
  PROVE  Nat \subseteq S
<1> SUFFICES ASSUME Nat \ S # {} PROVE FALSE
  OBVIOUS
<1> DEFINE R == OpToRel(<, Nat)
           T == Nat \ S
<1>1. IsWellFoundedOn(R, Nat)
  BY NatLessThanWellFounded
<1>2. T \subseteq Nat /\ T # {}
  OBVIOUS
<1>3. \E x \in T : \A y \in T : ~(<<y, x>> \in R)
  <2> HIDE DEF R, T
  <2> QED
    BY <1>1, <1>2, WFMin
<1>4. \A x, y \in Nat : <<x, y>> \in R <=> x < y
  BY DEF OpToRel
<1>5. PICK x \in T : \A y \in T : ~(y < x)
  BY <1>3, <1>4
<1>6. x # 0 /\ x \in Nat /\ x - 1 \in Nat /\ x - 1 < x
  BY <1>5
<1>7. x - 1 \in S
  BY <1>5, <1>6
<1>8. (x - 1) + 1 \in S /\ (x - 1) + 1 = x
  BY <1>6, <1>7
<1> QED
  BY <1>5, <1>8

\* What is handed out keeps within the budgets.
Within(out) ==
    /\ IsFiniteSet(out.bonus) /\ Cardinality(out.bonus) <= MonitoringBudget
    /\ IsFiniteSet(out.repair) /\ Cardinality(out.repair) <= RepairBudget
    /\ IsFiniteSet(out.preserve) /\ Cardinality(out.preserve) <= PreserveBudget

\* The debt a pass leaves for v differs from Debt only in its age.
Judged(v, d) ==
    \E age \in 0..Cooldown : d = [Debt(debts, Key(v), evidence[v]) EXCEPT !.age = age]

LEMMA OneMore ==
    ASSUME NEW S, IsFiniteSet(S), NEW b \in Nat, Cardinality(S) <= b, NEW x, NEW T,
           T = S \/ (Cardinality(S) < b /\ T = S \cup {x})
    PROVE  IsFiniteSet(T) /\ Cardinality(T) <= b
<1>1. Cardinality(S) \in Nat
  BY FS_CardinalityType
<1>2. IsFiniteSet(S \cup {x})
      /\ (Cardinality(S \cup {x}) = Cardinality(S) \/ Cardinality(S \cup {x}) = Cardinality(S) + 1)
  BY FS_AddElement
<1> QED
  BY <1>1, <1>2

LEMMA AttendWithin ==
    ASSUME NEW out, NEW v, NEW d, Within(out)
    PROVE  Within(Attend(out, v, d))
<1> DEFINE new == Attend(out, v, d)
<1>1. /\ new.bonus = out.bonus \/ (Cardinality(out.bonus) < MonitoringBudget /\ new.bonus = out.bonus \cup {v})
      /\ new.repair = out.repair \/ (Cardinality(out.repair) < RepairBudget /\ new.repair = out.repair \cup {v})
      /\ new.preserve = out.preserve \/ (Cardinality(out.preserve) < PreserveBudget /\ new.preserve = out.preserve \cup {v})
  BY DEF Attend
<1>2. MonitoringBudget \in Nat /\ RepairBudget \in Nat /\ PreserveBudget \in Nat
  BY AuthorityAssumption DEF AuthorityAssumption
<1> HIDE DEF new
<1>3. IsFiniteSet(new.bonus) /\ Cardinality(new.bonus) <= MonitoringBudget
  BY <1>1, <1>2, OneMore DEF Within
<1>4. IsFiniteSet(new.repair) /\ Cardinality(new.repair) <= RepairBudget
  BY <1>1, <1>2, OneMore DEF Within
<1>5. IsFiniteSet(new.preserve) /\ Cardinality(new.preserve) <= PreserveBudget
  BY <1>1, <1>2, OneMore DEF Within
<1> QED
  BY <1>3, <1>4, <1>5 DEF Within, new

LEMMA AttendDebts ==
    ASSUME NEW out, NEW v, NEW d, d \in DebtType
    PROVE  /\ DOMAIN Attend(out, v, d).debts = DOMAIN out.debts \cup {Key(v)}
           /\ \A x \in DOMAIN out.debts : x # Key(v) => Attend(out, v, d).debts[x] = out.debts[x]
           /\ \E age \in 0..Cooldown : Attend(out, v, d).debts[Key(v)] = [d EXCEPT !.age = age]
<1> DEFINE new == Attend(out, v, d)
<1>0. 0 \in 0..Cooldown /\ d.age \in 0..Cooldown
  BY AuthorityAssumption DEF AuthorityAssumption, DebtType
<1>1. \E age \in {0, d.age} :
        new.debts = [x \in DOMAIN out.debts \cup {Key(v)} |->
                       IF x = Key(v) THEN [d EXCEPT !.age = age] ELSE out.debts[x]]
  BY DEF Attend
<1> HIDE DEF new
<1>2. PICK age \in 0..Cooldown :
        new.debts = [x \in DOMAIN out.debts \cup {Key(v)} |->
                       IF x = Key(v) THEN [d EXCEPT !.age = age] ELSE out.debts[x]]
  BY <1>0, <1>1
<1>3. /\ DOMAIN new.debts = DOMAIN out.debts \cup {Key(v)}
      /\ \A x \in DOMAIN out.debts : x # Key(v) => new.debts[x] = out.debts[x]
      /\ new.debts[Key(v)] = [d EXCEPT !.age = age]
  BY <1>2
<1> QED
  BY <1>3 DEF new

\* g is process over the first n of the variables.
Passes(n, g) ==
    g = [k \in 0..n |-> IF k = 0 THEN [debts |-> debts, bonus |-> {}, repair |-> {}, preserve |-> {}]
                        ELSE Judge(g[k - 1], k - 1)]

LEMMA PassesExists == \A n \in Nat : \E g : Passes(n, g)
<1> DEFINE first == [debts |-> debts, bonus |-> {}, repair |-> {}, preserve |-> {}]
           Good == {n \in Nat : \E g : Passes(n, g)}
<1>1. 0 \in Good
  <2>1. Passes(0, [k \in 0..0 |-> first])
    BY DEF Passes
  <2> QED
    BY <2>1
<1>2. ASSUME NEW n \in Nat, n \in Good
      PROVE  n + 1 \in Good
  <2>1. PICK g : Passes(n, g)
    BY <1>2
  <2> DEFINE h == [k \in 0..(n + 1) |-> IF k = n + 1 THEN Judge(g[n], n) ELSE g[k]]
  <2>2. \A k \in 0..n : g[k] = IF k = 0 THEN first ELSE Judge(g[k - 1], k - 1)
    BY <2>1 DEF Passes
  <2>3. ASSUME NEW k \in 0..(n + 1)
        PROVE  h[k] = IF k = 0 THEN first ELSE Judge(h[k - 1], k - 1)
    <3> HIDE DEF first
    <3>1. CASE k = n + 1
      <4>1. k # 0 /\ k - 1 = n /\ n \in 0..(n + 1) /\ n # n + 1
        BY <3>1
      <4>2. h[k] = Judge(g[n], n) /\ h[k - 1] = g[n]
        BY <3>1, <4>1
      <4> QED
        BY <4>1, <4>2
    <3>2. CASE k # n + 1
      <4>1. k \in 0..n /\ (k # 0 => k - 1 \in 0..n /\ k - 1 \in 0..(n + 1) /\ k - 1 # n + 1)
        BY <3>2
      <4>2. h[k] = g[k] /\ (k # 0 => h[k - 1] = g[k - 1])
        BY <3>2, <4>1
      <4> QED
        BY <4>1, <4>2, <2>2
    <3> QED
      BY <3>1, <3>2
  <2>4. Passes(n + 1, h)
    <3>1. h = [k \in 0..(n + 1) |-> h[k]]
      OBVIOUS
    <3> HIDE DEF h
    <3> QED
      BY <2>3, <3>1 DEF Passes
  <2> QED
    BY <2>4
<1> HIDE DEF Good
<1>3. Nat \subseteq Good
  BY <1>1, <1>2, SetInduction
<1> QED
  BY <1>3 DEF Good

\* The debts a pass may have touched when it has judged the first n variables.
Touched(n) == {Key(v) : v \in 0..(n - 1)}

\* What holds of the pass once it has judged the first n variables.
PassOK(n, out) ==
    /\ Within(out)
    /\ DOMAIN out.debts = DOMAIN debts \cup Touched(n)
    /\ \A v \in 0..(n - 1) : Judged(v, out.debts[Key(v)])
    /\ \A x \in DOMAIN debts : x \notin Touched(n) => out.debts[x] = debts[x]

LEMMA JudgeKeepsPass ==
    ASSUME \A k \in DOMAIN debts : DebtOK(debts[k]),
           NEW n \in Nat, NEW out, PassOK(n, out)
    PROVE  PassOK(n + 1, Judge(out, n))
<1> DEFINE k == Key(n)
           d == Debt(out.debts, k, evidence[n])
           new == Judge(out, n)
<1>1. \A v \in 0..(n - 1) : Key(v) # k
  BY DEF Key
<1>2. k \notin Touched(n) /\ Touched(n + 1) = Touched(n) \cup {k}
  <2>1. k \notin Touched(n)
    BY <1>1 DEF Touched
  <2>2. \A v : v \in 0..((n + 1) - 1) <=> v \in 0..(n - 1) \/ v = n
    OBVIOUS
  <2>3. Touched(n + 1) = Touched(n) \cup {k}
    BY <2>2 DEF Touched
  <2> QED
    BY <2>1, <2>3
<1>3. (k \in DOMAIN out.debts <=> k \in DOMAIN debts) /\ (k \in DOMAIN debts => out.debts[k] = debts[k])
  BY <1>2 DEF PassOK
<1>4. d = Debt(debts, k, evidence[n])
  BY <1>3, DebtLocal
<1>5. d \in DebtType
  BY <1>4, DebtTyped DEF DebtOK
<1>6. new = Attend(out, n, d)
  BY DEF Judge
<1> HIDE DEF d
<1>7. /\ Within(new) /\ DOMAIN new.debts = DOMAIN out.debts \cup {k}
      /\ \A x \in DOMAIN out.debts : x # k => new.debts[x] = out.debts[x]
      /\ \E age \in 0..Cooldown : new.debts[k] = [d EXCEPT !.age = age]
  BY <1>5, <1>6, AttendWithin, AttendDebts DEF PassOK
<1> HIDE DEF new
<1>8. Judged(n, new.debts[k])
  BY <1>4, <1>7 DEF Judged
<1>9. ASSUME NEW v \in 0..(n - 1) PROVE Judged(v, new.debts[Key(v)])
  <2>1. Key(v) \in DOMAIN out.debts /\ Key(v) # k
    BY <1>1 DEF PassOK, Touched
  <2> QED
    BY <1>7, <2>1 DEF PassOK
<1>10. \A v \in 0..((n + 1) - 1) : Judged(v, new.debts[Key(v)])
  <2>1. \A v \in 0..((n + 1) - 1) : v \in 0..(n - 1) \/ v = n
    OBVIOUS
  <2> QED
    BY <1>8, <1>9, <2>1
<1>11. \A x \in DOMAIN debts : x \notin Touched(n + 1) => new.debts[x] = debts[x]
  BY <1>2, <1>7 DEF PassOK
<1>12. PassOK(n + 1, new)
  BY <1>2, <1>7, <1>10, <1>11 DEF PassOK
<1> QED
  BY <1>12 DEF new

LEMMA ProcessedSound ==
    ASSUME visible \in Nat, \A k \in DOMAIN debts : DebtOK(debts[k])
    PROVE  PassOK(visible, Processed)
<1> DEFINE first == [debts |-> debts, bonus |-> {}, repair |-> {}, preserve |-> {}]
           g == CHOOSE f : Passes(visible, f)
           Good == {n \in Nat : n <= visible => PassOK(n, g[n])}
<1>1. Passes(visible, g)
  BY PassesExists
<1>2. Processed = g[visible]
  BY DEF Processed, Passes
<1> HIDE DEF g
<1>3. \A k \in 0..visible : g[k] = IF k = 0 THEN first ELSE Judge(g[k - 1], k - 1)
  BY <1>1 DEF Passes
<1>4. 0 \in Good
  <2>0. 0 \in 0..visible
    OBVIOUS
  <2>1. g[0] = first
    <3> HIDE DEF first
    <3> QED
      BY <1>3, <2>0
  <2>2. Touched(0) = {} /\ 0..(0 - 1) = {}
    BY DEF Touched
  <2>3. Within(first)
    BY FS_EmptySet, AuthorityAssumption DEF Within, AuthorityAssumption
  <2>4. PassOK(0, first)
    BY <2>2, <2>3 DEF PassOK
  <2> QED
    BY <2>1, <2>4
<1>5. ASSUME NEW n \in Nat, n \in Good
      PROVE  n + 1 \in Good
  <2> SUFFICES ASSUME n + 1 <= visible PROVE PassOK(n + 1, g[n + 1])
    OBVIOUS
  <2>1. PassOK(n, g[n])
    BY <1>5
  <2>2. n + 1 \in 0..visible /\ n + 1 # 0 /\ (n + 1) - 1 = n
    OBVIOUS
  <2>3. g[n + 1] = Judge(g[n], n)
    BY <1>3, <2>2
  <2> QED
    BY <2>1, <2>3, JudgeKeepsPass
<1>6. Nat \subseteq Good
  <2> HIDE DEF Good
  <2> QED
    BY <1>4, <1>5, SetInduction
<1> QED
  BY <1>2, <1>6

-----------------------------------------------------------------------------
(* The inductive invariant                                                 *)

\* A context is left behind when a variable is revealed, and never entered again.
ContextOK(k) == k[1] < k[2]

DebtsOK == \A k \in DOMAIN debts : ContextOK(k) /\ Cleared(debts[k]) /\ Earned(debts[k], heard[k])

EvidenceOK == \A v \in Vars : evidence[v].moved => evidence[v].churn

SurfacesOK == DOMAIN surfaces = {"bonus", "preserve", "remaining", "repair"}

IInv == TypeOK /\ DebtsOK /\ EvidenceOK /\ SurfacesOK

LEMMA InitHolds == Init => IInv
<1> SUFFICES ASSUME Init PROVE IInv
  OBVIOUS
<1>1. /\ setting \in Settings /\ phase \in {"judge", "pass"} /\ visible \in 1..NVars
      /\ fit \in [Vars -> Fits] /\ DOMAIN debts = {} /\ DOMAIN heard = {}
  BY AuthorityAssumption DEF Init, AuthorityAssumption
<1>2. \A v \in Vars : evidence[v] \in EvidenceRecord /\ (evidence[v].moved => evidence[v].churn)
  BY AuthorityAssumption DEF Init, AuthorityAssumption
<1>3. evidence = [v \in Vars |-> evidence[v]]
  BY DEF Init
<1>4. evidence \in [Vars -> EvidenceRecord]
  BY <1>2, <1>3
<1>5. audits \in [Vars -> Nat]
  BY <1>2 DEF Init, EvidenceRecord
<1>6. /\ surfaces.remaining \in 0..3 /\ SurfacesOK
      /\ surfaces.bonus = {} /\ surfaces.repair = {} /\ surfaces.preserve = {}
  BY DEF Init, NoSurfaces, SurfacesOK
<1>7. Cardinality({}) = 0
  BY FS_EmptySet
<1>8. TypeOK
  BY <1>1, <1>4, <1>5, <1>6, <1>7, AuthorityAssumption DEF TypeOK, AuthorityAssumption
<1> QED
  BY <1>1, <1>2, <1>6, <1>8 DEF IInv, DebtsOK, EvidenceOK

\* Neither its age nor whether it was judged bears on what a debt promises.
LEMMA DebtTouched ==
    ASSUME NEW d, DebtOK(d), Cleared(d), NEW h, Earned(d, h), NEW c,
           \/ c = [d EXCEPT !.judged = FALSE]
           \/ \E age \in 0..Cooldown : c = [d EXCEPT !.age = age]
    PROVE  DebtOK(c) /\ Cleared(c) /\ Earned(c, h)
<1>1. /\ c \in DebtType /\ c.state = d.state /\ c.persistence = d.persistence
      /\ c.required = d.required /\ c.paid = d.paid /\ c.allowed = d.allowed
  <2>1. CASE c = [d EXCEPT !.judged = FALSE]
    BY <2>1 DEF DebtOK, DebtType
  <2>2. ASSUME NEW age \in 0..Cooldown, c = [d EXCEPT !.age = age]
        PROVE  /\ c \in DebtType /\ c.state = d.state /\ c.persistence = d.persistence
               /\ c.required = d.required /\ c.paid = d.paid /\ c.allowed = d.allowed
    BY <2>2 DEF DebtOK, DebtType
  <2> QED
    BY <2>1, <2>2
<1> QED
  BY <1>1 DEF DebtOK, Cleared, Earned

LEMMA TypedDebts == ASSUME TypeOK PROVE \A k \in DOMAIN debts : DebtOK(debts[k])
BY DEF TypeOK, DebtOK

\* What a pass leaves of one context is what the epochs back.
LEMMA RunDebts ==
    ASSUME IInv, NEW out, PassOK(visible, out), UNCHANGED <<setting, visible>>,
           debts' = out.debts,
           heard' = [k \in DOMAIN heard \cup {Key(v) : v \in 0..(visible - 1)} |->
                        IF k = Key(k[1]) THEN Heard(k, evidence[k[1]]) ELSE heard[k]]
    PROVE  /\ DOMAIN debts' \subseteq Keys /\ DOMAIN heard' = DOMAIN debts'
           /\ \A k \in DOMAIN debts' : DebtOK(debts'[k])
           /\ DebtsOK'
<1> USE DEF IInv
<1>1. visible \in 1..NVars /\ NVars \in Nat /\ fit \in [Vars -> Fits]
      /\ DOMAIN debts \subseteq Keys /\ DOMAIN heard = DOMAIN debts
  BY AuthorityAssumption DEF TypeOK, AuthorityAssumption
<1>2. \A v \in 0..(visible - 1) : v \in Vars /\ Key(v) \in Keys /\ Key(v)[1] = v /\ Key(v)[2] = visible
                                  /\ ContextOK(Key(v))
  BY <1>1 DEF Vars, Keys, Key, ContextOK
<1>3. DOMAIN debts' = DOMAIN debts \cup Touched(visible) /\ DOMAIN heard' = DOMAIN debts'
  BY <1>1 DEF PassOK, Touched
<1>4. DOMAIN debts' \subseteq Keys
  BY <1>1, <1>2, <1>3 DEF Touched
<1>5. ASSUME NEW k \in Touched(visible)
      PROVE  ContextOK(k) /\ DebtOK(debts'[k]) /\ Cleared(debts'[k]) /\ Earned(debts'[k], heard'[k])
  <2>1. PICK v \in 0..(visible - 1) : k = Key(v)
    BY DEF Touched
  <2>2. k[1] = v /\ ContextOK(k) /\ k \in DOMAIN heard'
    BY <1>2, <1>3, <2>1
  <2>3. heard'[k] = Heard(k, evidence[v])
    BY <2>1, <2>2
  <2> DEFINE d == Debt(debts, k, evidence[v])
  <2>4. PICK age \in 0..Cooldown : debts'[k] = [d EXCEPT !.age = age]
    BY <2>1 DEF PassOK, Judged
  <2>5. DebtOK(d) /\ Cleared(d)
    BY TypedDebts, DebtTyped, DebtCleared
  <2>6. Earned(d, heard'[k])
    <3>1. k \in DOMAIN debts => debts[k].persistence \in Nat /\ Earned(debts[k], heard[k])
      BY TypedDebts DEF DebtOK, DebtType, DebtsOK
    <3> QED
      BY <1>1, <2>3, <3>1, DebtEarned
  <2> HIDE DEF d
  <2> QED
    BY <2>2, <2>4, <2>5, <2>6, DebtTouched
<1>6. ASSUME NEW k \in DOMAIN debts, k \notin Touched(visible)
      PROVE  ContextOK(k) /\ DebtOK(debts'[k]) /\ Cleared(debts'[k]) /\ Earned(debts'[k], heard'[k])
  <2>1. debts'[k] = debts[k]
    BY <1>6 DEF PassOK
  <2>2. k # Key(k[1])
    <3> SUFFICES ASSUME k = Key(k[1]) PROVE FALSE
      OBVIOUS
    <3>1. k[1] \in Vars /\ ContextOK(k)
      BY <1>1 DEF Keys, DebtsOK
    <3>2. k[2] = visible
      BY DEF Key
    <3>3. k[1] \in 0..(visible - 1)
      BY <1>1, <3>1, <3>2 DEF ContextOK, Vars
    <3> QED
      BY <1>6, <3>3 DEF Touched
  <2>3. heard'[k] = heard[k]
    BY <1>1, <2>2
  <2> QED
    BY <2>1, <2>3, TypedDebts DEF DebtsOK
<1>7. ASSUME NEW k \in DOMAIN debts'
      PROVE  ContextOK(k) /\ DebtOK(debts'[k]) /\ Cleared(debts'[k]) /\ Earned(debts'[k], heard'[k])
  BY <1>3, <1>5, <1>6
<1>8. DebtsOK'
  <2>1. \A k : ContextOK(k)' <=> ContextOK(k)
    BY DEF ContextOK
  <2> QED
    BY <1>7 DEF DebtsOK, Cleared, Earned, ContextOK
<1> QED
  BY <1>3, <1>4, <1>7, <1>8

-----------------------------------------------------------------------------
(* The steps                                                               *)

LEMMA RunKeeps == ASSUME IInv, RunAuthorityStrength PROVE IInv'
<1> USE DEF IInv
<1>1. PICK out \in {Processed} :
        /\ surfaces' =
            IF Stateful
            THEN [bonus |-> out.bonus, preserve |-> out.preserve,
                  remaining |-> IF out.preserve # {} THEN 3 ELSE 0, repair |-> out.repair]
            ELSE IF setting.mode = "assist"
            THEN [bonus |-> Pressed({"weak", "contested"}), preserve |-> Pressed({"contested"}),
                  remaining |-> 3, repair |-> Pressed({"contested"})]
            ELSE NoSurfaces
        /\ debts' = IF Stateful THEN out.debts ELSE debts
  BY DEF RunAuthorityStrength
<1>2. /\ phase' = "pass" /\ UNCHANGED <<setting, visible, evidence, fit, audits>>
      /\ heard' = IF Stateful
                  THEN [k \in DOMAIN heard \cup {Key(v) : v \in 0..(visible - 1)} |->
                          IF k = Key(k[1]) THEN Heard(k, evidence[k[1]]) ELSE heard[k]]
                  ELSE heard
  BY DEF RunAuthorityStrength, world
<1>3. PassOK(visible, out)
  BY ProcessedSound, TypedDebts DEF TypeOK
<1>4. EvidenceOK'
  BY <1>2 DEF EvidenceOK
<1>5. /\ DOMAIN debts' \subseteq Keys /\ DOMAIN heard' = DOMAIN debts'
      /\ \A k \in DOMAIN debts' : DebtOK(debts'[k])
      /\ DebtsOK'
  <2>1. CASE Stateful
    <3>1. debts' = out.debts
      BY <1>1, <2>1
    <3> QED
      BY <1>2, <1>3, <2>1, <3>1, RunDebts
  <2>2. CASE ~Stateful
    <3>1. debts' = debts /\ heard' = heard
      BY <1>1, <1>2, <2>2
    <3>2. DebtsOK'
      BY <1>2, <3>1 DEF DebtsOK, Cleared, Earned, ContextOK
    <3> QED
      BY <3>1, <3>2, TypedDebts DEF TypeOK
  <2> QED
    BY <2>1, <2>2
<1>6. SurfacesOK' /\ surfaces'.remaining \in 0..3
  BY <1>1 DEF SurfacesOK, NoSurfaces
<1>7. setting.controller = "state" =>
         /\ Cardinality(surfaces'.bonus) <= MonitoringBudget
         /\ Cardinality(surfaces'.repair) <= RepairBudget
         /\ Cardinality(surfaces'.preserve) <= PreserveBudget
  <2>1. CASE Stateful
    <3>1. surfaces'.bonus = out.bonus /\ surfaces'.repair = out.repair
          /\ surfaces'.preserve = out.preserve
      BY <1>1, <2>1
    <3> QED
      BY <1>3, <3>1 DEF PassOK, Within
  <2>2. CASE ~Stateful /\ setting.controller = "state"
    <3>1. surfaces' = NoSurfaces
      BY <1>1, <2>2 DEF Stateful
    <3> QED
      BY <3>1, FS_EmptySet, AuthorityAssumption DEF NoSurfaces, AuthorityAssumption
  <2> QED
    BY <2>1, <2>2
<1>8. TypeOK'
  BY <1>2, <1>5, <1>6, <1>7 DEF TypeOK, DebtOK
<1> QED
  BY <1>4, <1>5, <1>6, <1>8

\* A step that leaves the controller and its surfaces alone.
LEMMA WorldKeeps ==
    ASSUME IInv, UNCHANGED <<setting, debts, heard, surfaces>>,
           phase' \in {"judge", "pass"}, visible' \in 1..NVars,
           evidence' \in [Vars -> EvidenceRecord], EvidenceOK',
           fit' \in [Vars -> Fits], audits' \in [Vars -> Nat]
    PROVE  IInv'
<1>1. DebtsOK' /\ SurfacesOK'
  BY DEF IInv, DebtsOK, Cleared, Earned, ContextOK, SurfacesOK
<1>2. TypeOK'
  BY DEF IInv, TypeOK, DebtType, Keys
<1> QED
  BY <1>1, <1>2 DEF IInv

\* Evidence that may come to be seen.
LEMMA SeenEvidence ==
    ASSUME NEW v \in Vars, NEW e \in Evidence[v]
    PROVE  e \in EvidenceRecord /\ (e.moved => e.churn)
BY AuthorityAssumption DEF AuthorityAssumption

LEMMA ObserveKeeps == ASSUME IInv, NEW v \in Vars, Observe(v) PROVE IInv'
<1>1. PICK e \in Evidence[v] : evidence' = [evidence EXCEPT ![v] = e]
  BY DEF Observe
<1>2. UNCHANGED <<setting, phase, visible, fit, audits, debts, surfaces, heard>>
  BY DEF Observe
<1>3. evidence' \in [Vars -> EvidenceRecord] /\ EvidenceOK'
  BY <1>1, SeenEvidence DEF IInv, TypeOK, EvidenceOK
<1> QED
  BY <1>2, <1>3, WorldKeeps DEF IInv, TypeOK

LEMMA DeriveKeeps ==
    ASSUME IInv, NEW own \in BOOLEAN, NEW v \in Vars, NEW S \in SUBSET Vars, Derive(own, v, S)
    PROVE  IInv'
<1>1. UNCHANGED <<setting, phase, visible, evidence, fit, audits, debts, surfaces, heard>>
  BY DEF Derive, world
<1>2. EvidenceOK'
  BY <1>1 DEF IInv, EvidenceOK
<1> QED
  BY <1>1, <1>2, WorldKeeps DEF IInv, TypeOK

\* A new fit: the debts of the variable are no longer judged.
LEMMA AuditedKeeps ==
    ASSUME IInv, NEW v \in Vars, NEW e \in Evidence[v], NEW sources \in Fits, Audited(v, e, sources),
           UNCHANGED <<setting, phase, heard>>, visible' \in 1..NVars
    PROVE  IInv'
<1> USE DEF IInv
<1>1. /\ evidence' = [evidence EXCEPT ![v] =
                        IF Archives(v, e) THEN [e EXCEPT !.alternatives = TRUE] ELSE e]
      /\ fit' = [fit EXCEPT ![v] = sources] /\ audits' = [audits EXCEPT ![v] = @ + 1]
      /\ debts' = [k \in DOMAIN debts |-> IF k[1] = v THEN [debts[k] EXCEPT !.judged = FALSE]
                                          ELSE debts[k]]
  BY DEF Audited
<1>2. PICK left \in 0..3 : surfaces' = [surfaces EXCEPT !.remaining = left]
  <2>1. surfaces.remaining \in 0..3
    BY DEF TypeOK
  <2>2. PICK left \in (IF Archives(v, e) THEN 0..(surfaces.remaining - 1)
                       ELSE {surfaces.remaining}) :
                surfaces' = [surfaces EXCEPT !.remaining = left]
    BY DEF Audited
  <2>3. left \in 0..3
    BY <2>1, <2>2
  <2> QED
    BY <2>2, <2>3
<1>3. e \in EvidenceRecord /\ (e.moved => e.churn)
  BY SeenEvidence
<1>4. [e EXCEPT !.alternatives = TRUE] \in EvidenceRecord
      /\ [e EXCEPT !.alternatives = TRUE].moved = e.moved
      /\ [e EXCEPT !.alternatives = TRUE].churn = e.churn
  BY <1>3 DEF EvidenceRecord
<1>5. evidence' \in [Vars -> EvidenceRecord] /\ EvidenceOK'
  BY <1>1, <1>3, <1>4 DEF TypeOK, EvidenceOK
<1>6. fit' \in [Vars -> Fits] /\ audits' \in [Vars -> Nat]
  BY <1>1 DEF TypeOK
<1>7. SurfacesOK' /\ surfaces'.remaining \in 0..3 /\ surfaces'.bonus = surfaces.bonus
      /\ surfaces'.repair = surfaces.repair /\ surfaces'.preserve = surfaces.preserve
  BY <1>2 DEF SurfacesOK
<1>8. ASSUME NEW k \in DOMAIN debts
      PROVE  ContextOK(k) /\ DebtOK(debts'[k]) /\ Cleared(debts'[k]) /\ Earned(debts'[k], heard[k])
  <2>1. ContextOK(k) /\ DebtOK(debts[k]) /\ Cleared(debts[k]) /\ Earned(debts[k], heard[k])
    BY TypedDebts DEF DebtsOK
  <2>2. debts'[k] = debts[k] \/ debts'[k] = [debts[k] EXCEPT !.judged = FALSE]
    BY <1>1
  <2> QED
    BY <2>1, <2>2, DebtTouched
<1>9. DOMAIN debts' = DOMAIN debts
  BY <1>1
<1>10. DebtsOK'
  BY <1>8, <1>9 DEF DebtsOK, Cleared, Earned, ContextOK
<1>11. TypeOK'
  BY <1>5, <1>6, <1>7, <1>8, <1>9 DEF TypeOK, DebtOK
<1> QED
  BY <1>5, <1>7, <1>10, <1>11

LEMMA EndCycleKeeps == ASSUME IInv, EndCycle PROVE IInv'
<1> USE DEF IInv
<1>1. /\ phase' = "judge" /\ UNCHANGED <<setting, visible, evidence, fit, audits, surfaces, heard>>
      /\ debts' = [k \in DOMAIN debts |-> [debts[k] EXCEPT !.age = Least(Cooldown, @ + 1)]]
  BY DEF EndCycle, world
<1>2. ASSUME NEW k \in DOMAIN debts
      PROVE  ContextOK(k) /\ DebtOK(debts'[k]) /\ Cleared(debts'[k]) /\ Earned(debts'[k], heard[k])
  <2>1. ContextOK(k) /\ DebtOK(debts[k]) /\ Cleared(debts[k]) /\ Earned(debts[k], heard[k])
    BY TypedDebts DEF DebtsOK
  <2>2. debts'[k] = [debts[k] EXCEPT !.age = Least(Cooldown, debts[k].age + 1)]
    BY <1>1
  <2>3. Least(Cooldown, debts[k].age + 1) \in 0..Cooldown
    BY <2>1, AuthorityAssumption DEF AuthorityAssumption, DebtOK, DebtType, Least
  <2> QED
    BY <2>1, <2>2, <2>3, DebtTouched
<1>3. DOMAIN debts' = DOMAIN debts
  BY <1>1
<1>4. DebtsOK' /\ EvidenceOK' /\ SurfacesOK'
  BY <1>1, <1>2, <1>3 DEF DebtsOK, Cleared, Earned, ContextOK, EvidenceOK, SurfacesOK
<1>5. TypeOK'
  BY <1>1, <1>2, <1>3 DEF TypeOK, DebtOK
<1> QED
  BY <1>4, <1>5

LEMMA NextKeeps == IInv /\ [Next]_vars => IInv'
<1> SUFFICES ASSUME IInv, [Next]_vars PROVE IInv'
  OBVIOUS
<1>1. CASE RunAuthorityStrength
  BY <1>1, RunKeeps
<1>2. ASSUME NEW v \in Vars, Observe(v) PROVE IInv'
  BY <1>2, ObserveKeeps
<1>3. ASSUME NEW v \in Vars, Audit(v) PROVE IInv'
  <2>1. PICK e \in Evidence[v], sources \in Fits : Audited(v, e, sources)
    BY <1>3 DEF Audit
  <2>2. UNCHANGED <<setting, phase, heard>> /\ visible' \in 1..NVars
    BY <1>3 DEF Audit, IInv, TypeOK
  <2> QED
    BY <2>1, <2>2, AuditedKeeps
<1>4. ASSUME NEW own \in BOOLEAN, NEW v \in Vars, NEW S \in SUBSET Vars, Derive(own, v, S)
      PROVE  IInv'
  BY <1>4, DeriveKeeps
<1>5. CASE EndCycle
  BY <1>5, EndCycleKeeps
<1>6. CASE Reveal
  <2>1. PICK e \in Evidence[visible], sources \in Fits : Audited(visible, e, sources)
    BY <1>6 DEF Reveal
  <2>2. visible \in 1..NVars /\ visible < NVars /\ NVars \in Nat /\ visible' = visible + 1
    BY <1>6, AuthorityAssumption DEF Reveal, IInv, TypeOK, AuthorityAssumption
  <2>3. visible \in Vars /\ visible' \in 1..NVars
    BY <2>2 DEF Vars
  <2>4. UNCHANGED <<setting, phase, heard>>
    BY <1>6 DEF Reveal
  <2> QED
    BY <2>1, <2>3, <2>4, AuditedKeeps
<1>7. CASE UNCHANGED vars
  <2>1. UNCHANGED <<setting, phase, visible, evidence, fit, audits, debts, surfaces, heard>>
    BY <1>7 DEF vars, world
  <2>2. EvidenceOK'
    BY <2>1 DEF IInv, EvidenceOK
  <2> QED
    BY <2>1, <2>2, WorldKeeps DEF IInv, TypeOK
<1> QED
  BY <1>1, <1>2, <1>3, <1>4, <1>5, <1>6, <1>7 DEF Next

-----------------------------------------------------------------------------
(* The theorems                                                            *)

(* What the debts remember agrees with the epochs heard, and the evidence  *)
(* with the audits behind it, in every cycle of RunAuthorityStrength.      *)
THEOREM AuthorityInvariant == Spec => []IInv
<1> QED
  BY InitHolds, NextKeeps, PTL DEF Spec

(* TypeOK: no debt is paid beyond what it asks for, and in every cycle the *)
(* controller hands out no more attention than its budgets.                *)
THEOREM AuthorityTyped == Spec => []TypeOK
<1>1. IInv => TypeOK
  BY DEF IInv
<1> QED
  BY <1>1, AuthorityInvariant, PTL

(* QuarantineEarned: a debt that process quarantined has seen two evidence *)
(* epochs in a row judged bad.                                             *)
THEOREM QuarantineEarnedHolds == Spec => []QuarantineEarned
<1>1. IInv => QuarantineEarned
  BY DEF IInv, DebtsOK, Earned, QuarantineEarned
<1> QED
  BY <1>1, AuthorityInvariant, PTL

(* StrongIsSupported: _classify, would_throttle_authority and              *)
(* classify_governance_proposal agree on the evidence of the agent.        *)
THEOREM StrongIsSupportedHolds == Spec => []StrongIsSupported
<1>1. IInv => StrongIsSupported
  BY StrongSupported DEF IInv, TypeOK, EvidenceOK, StrongIsSupported
<1> QED
  BY <1>1, AuthorityInvariant, PTL

(* SupportsCleared: what check_derivation_gate lets through leans on no    *)
(* variable whose own context the policy forbids.                          *)
THEOREM SupportsClearedHolds == Spec => SupportsCleared
<1>1. ASSUME IInv, Next, ~UNCHANGED made, NEW u \in made'.with, Stateful, Known(debts, Key(u))
      PROVE  /\ setting.policy = "quarantine_persistent"
                  => debts[Key(u)].state # "quarantined_for_derivation"
             /\ setting.policy = "quarantine_repair_only"
                  => debts[Key(u)].state # "repair_candidate"
  <2>1. made' # Nothing
    BY DEF Nothing
  <2>2. PICK own \in BOOLEAN, v \in Vars, S \in SUBSET Vars : Derive(own, v, S)
    BY <1>1, <2>1 DEF Next, RunAuthorityStrength, Observe, Audit, EndCycle, Reveal
  <2>3. made' = [of |-> v, with |-> S] /\ \A w \in S : Gate(w)
    BY <2>2 DEF Derive
  <2>4. Gate(u)
    BY <1>1, <2>3
  <2>5. Key(u) \in DOMAIN debts /\ Key(u)[1] = u
    BY <1>1 DEF Known, Key
  <2>6. debts[Key(u)].allowed
    BY <1>1, <2>4, <2>5 DEF Gate, Matching
  <2> QED
    BY <1>1, <2>5, <2>6 DEF IInv, DebtsOK, Cleared
<1>2. IInv /\ [Next]_vars =>
        [\A u \in made'.with :
           Stateful /\ Known(debts, Key(u)) =>
             /\ setting.policy = "quarantine_persistent"
                  => debts[Key(u)].state # "quarantined_for_derivation"
             /\ setting.policy = "quarantine_repair_only"
                  => debts[Key(u)].state # "repair_candidate"]_made
  BY <1>1 DEF vars
<1> QED
  BY <1>2, AuthorityInvariant, PTL DEF Spec, SupportsCleared
=============================================================================
