------------------------ MODULE Certificates_proofs -------------------------
(***************************************************************************)
(* Proofs about what the agent has earned beyond the ledger's own rows:    *)
(* the fit of one variable with its frontier, archive and compressions     *)
(* (module FitFrontier), and the joint certificates of pairs and           *)
(* components (module Composites).  The two share no state.                *)
(***************************************************************************)
EXTENDS FitFrontier, Composites, FiniteSetTheorems, TLAPS

-----------------------------------------------------------------------------
(* The fit of a variable.  Two invariants: the first is of the novelty     *)
(* and its two streaks alone, whatever the audits find; the second is of   *)
(* the frontier, the archive and the compressions, and of the history of   *)
(* audits that the frontier's own counters stand for.                      *)

StreakType ==
    /\ weak \in 0 .. WeakStreak /\ steady \in 0 .. WeakStreak
    /\ open \in BOOLEAN /\ trassed \in BOOLEAN

IInv == StreakType /\ OpenIsUnsettled

LEMMA InitHolds == Init => IInv
<1> SUFFICES ASSUME Init PROVE IInv
  OBVIOUS
<1>1. weak = 0 /\ steady = 0 /\ 0 \in 0 .. WeakStreak
  BY FrontierAssumption DEF FrontierAssumption, Init
<1>2. open = FALSE /\ trassed = FALSE
  BY DEF Init
<1> QED
  BY <1>1, <1>2 DEF IInv, StreakType, OpenIsUnsettled

\* The streaks saturate at their cap and never fall by counting.
LEMMA CountBounds ==
    ASSUME NEW cap \in Nat, NEW n \in 0 .. cap
    PROVE  Count(n, cap) \in 0 .. cap /\ (n >= cap => Count(n, cap) = n)
BY DEF Count

\* _maybe_novelty keeps the invariant for any role and any verdict on the fit.
LEMMA NoveltyKeeps ==
    ASSUME IInv, NEW r, NEW swung \in BOOLEAN, Novelty(r, swung)
    PROVE  IInv'
<1>1. WeakStreak \in Nat /\ WeakStreak > 0
  BY FrontierAssumption DEF FrontierAssumption
<1>2. CASE r = "trass" \/ status' = "trass"
  <2>1. /\ weak' = 0 /\ steady' = 0
        /\ trassed' = open /\ open' = open
    BY <1>2 DEF Novelty
  <2>2. weak' \in 0 .. WeakStreak /\ steady' \in 0 .. WeakStreak
    BY <1>1, <2>1
  <2>3. open' \in BOOLEAN /\ trassed' \in BOOLEAN
    BY <2>1 DEF IInv, StreakType
  <2>4. ~(open' /\ ~trassed')
    BY <2>1, <2>3
  <2> QED
    BY <2>2, <2>3, <2>4 DEF IInv, StreakType, OpenIsUnsettled
<1>3. CASE ~(r = "trass" \/ status' = "trass") /\ swung
  <2>1. /\ weak' = Count(weak, WeakStreak) /\ steady' = 0
        /\ open' = Raised(weak')
        /\ trassed' = (trassed /\ weak' < WeakStreak)
    BY <1>3 DEF Novelty
  <2>2. weak' \in 0 .. WeakStreak /\ (weak >= WeakStreak => weak' = weak)
    BY <1>1, <2>1, CountBounds DEF IInv, StreakType
  <2>3. StreakType'
    <3>1. steady' \in 0 .. WeakStreak
      BY <1>1, <2>1
    <3>2. open' \in BOOLEAN /\ trassed' \in BOOLEAN
      BY <2>1 DEF Raised, IInv, StreakType
    <3> QED
      BY <2>2, <3>1, <3>2 DEF StreakType
  <2>4. OpenIsUnsettled'
    BY <1>1, <2>1, <2>2 DEF OpenIsUnsettled, Raised, IInv, StreakType
  <2> QED
    BY <2>3, <2>4 DEF IInv
<1>4. CASE ~(r = "trass" \/ status' = "trass") /\ ~swung
  <2>1. /\ steady' = Count(steady, WeakStreak)
        /\ weak' = IF Resolved(steady') THEN 0 ELSE weak
        /\ open' = (open /\ ~Resolved(steady'))
        /\ trassed' = (trassed /\ ~Resolved(steady'))
    BY <1>4 DEF Novelty
  <2>2. steady' \in 0 .. WeakStreak
    BY <1>1, <2>1, CountBounds DEF IInv, StreakType
  <2>3. StreakType'
    <3>1. weak' \in 0 .. WeakStreak
      BY <1>1, <2>1 DEF IInv, StreakType
    <3>2. open' \in BOOLEAN /\ trassed' \in BOOLEAN
      BY <2>1 DEF IInv, StreakType
    <3> QED
      BY <2>2, <3>1, <3>2 DEF StreakType
  <2>4. OpenIsUnsettled'
    BY <1>1, <2>1, <2>2 DEF OpenIsUnsettled, Resolved, IInv, StreakType
  <2> QED
    BY <2>3, <2>4 DEF IInv
<1> QED
  BY <1>2, <1>3, <1>4

LEMMA Untouched ==
    ASSUME IInv, UNCHANGED <<weak, steady, open, trassed>>
    PROVE  IInv'
BY DEF IInv, StreakType, OpenIsUnsettled

LEMMA StepKeeps == IInv /\ [Next]_vars => IInv'
<1> SUFFICES ASSUME IInv, [Next]_vars PROVE IInv'
  OBVIOUS
<1>1. CASE Audit
  <2>1. PICK a \in Audits : Novelty(role', SemanticChange(a))
    BY <1>1 DEF Audit
  <2>2. SemanticChange(a) \in BOOLEAN
    BY DEF SemanticChange
  <2> QED
    BY <2>1, <2>2, NoveltyKeeps
<1>2. CASE FirstAudit
  BY <1>2, Untouched DEF FirstAudit
<1>3. CASE TryCompressions
  BY <1>3, Untouched DEF TryCompressions
<1>4. CASE SentinelFails
  BY <1>4, Untouched DEF SentinelFails
<1>5. CASE Cascaded
  BY <1>5, Untouched DEF Cascaded
<1>6. CASE RoleLost
  BY <1>6, Untouched DEF RoleLost
<1>7. CASE TrassStrong
  BY <1>7, Untouched DEF TrassStrong
<1>8. CASE NextCycle
  BY <1>8, Untouched DEF NextCycle
<1>9. CASE UNCHANGED vars
  BY <1>9, Untouched DEF vars
<1> QED
  BY <1>1, <1>2, <1>3, <1>4, <1>5, <1>6, <1>7, <1>8, <1>9 DEF Next

\* For any thresholds and hypotheses, an open novelty has its swings on record
\* and is not yet answered, unless its variable was trass while it was open
\* (_maybe_novelty in agent.py).
THEOREM NoveltySound == Spec => []OpenIsUnsettled
<1>1. IInv => OpenIsUnsettled
  BY DEF IInv
<1> QED
  BY InitHolds, StepKeeps, <1>1, PTL DEF Spec

-----------------------------------------------------------------------------
(* The frontier, the archive and the compressions                          *)

Frontiers == [cands : SUBSET Hyps, key : Contexts \cup {NoContext},
              stable : Nat, contexts : Nat]
Dormants == [hyp : Hyps, revived : BOOLEAN]

KeptType == frontier \in Frontiers /\ dormant \subseteq Dormants

\* The count of a frontier says what its audits were: stable is the length of
\* the run.  (The contexts it counts are not those of its own candidates.)
FrontierHistory ==
    /\ run \in 0 .. StableFloor
    /\ None => frontier = NoFrontier
    /\ ~None => run = frontier.stable

KInv == KeptType /\ OfThisFit /\ FrontierHistory

LEMMA NoFrontierType == NoFrontier \in Frontiers /\ NoFrontier.cands = {}
BY DEF NoFrontier, Frontiers

LEMMA KeptInit == Init => KInv
<1> SUFFICES ASSUME Init PROVE KInv
  OBVIOUS
<1>1. KeptType
  BY NoFrontierType DEF Init, KeptType
<1>2. OfThisFit
  <2>1. DOMAIN gates = {}
    BY DEF Init, NoGates
  <2> QED
    BY <2>1 DEF Init, OfThisFit
<1>3. FrontierHistory
  BY NoFrontierType DEF Init, FrontierHistory, None, StableFloor
<1> QED
  BY <1>1, <1>2, <1>3 DEF KInv

\* What every audit is.
LEMMA AuditFacts ==
    ASSUME NEW a \in Audits
    PROVE  /\ a.best \in Hyps /\ a.near \in SUBSET Hyps /\ a.best \in a.near
           /\ a.key \in Contexts /\ a.key # NoContext
           /\ ~SemanticChange(a) => Src[fit] = Src[a.best]
<1>1. /\ a \in [best : Hyps, near : SUBSET Hyps, tied : BOOLEAN, key : Contexts]
      /\ a.near \in NearTies(a.best)
      /\ a.tied => Src[fit] = Src[a.best]
  BY DEF Audits
<1>2. a.best \in a.near
  BY <1>1 DEF NearTies
<1>3. a.key # NoContext
  BY <1>1, FrontierAssumption DEF FrontierAssumption
<1>4. ~SemanticChange(a) => Src[fit] = Src[a.best]
  BY <1>1 DEF SemanticChange
<1> QED
  BY <1>1, <1>2, <1>3, <1>4

\* _update_tied_frontier: the new set of candidates is the near-tie set, and
\* only the same set goes on counting.
LEMMA UpdatedFacts ==
    ASSUME NEW old \in Frontiers, NEW a \in Audits
    PROVE  LET new == UpdatedFrontier(old, a) IN
           /\ new \in Frontiers /\ new.cands = a.near /\ new.key = a.key
           /\ new.stable = IF old.cands # {} /\ a.near = old.cands
                           THEN Count(old.stable, StableFloor) ELSE 1
<1> DEFINE new == UpdatedFrontier(old, a)
<1>1. /\ a.near \in SUBSET Hyps /\ a.key \in Contexts
      /\ old.cands \in SUBSET Hyps /\ old.stable \in Nat /\ old.contexts \in Nat
      /\ old = [cands |-> old.cands, key |-> old.key,
                stable |-> old.stable, contexts |-> old.contexts]
  BY AuditFacts DEF Frontiers
<1>2. /\ Count(old.stable, StableFloor) \in Nat
      /\ Count(old.contexts, ContextFloor) \in Nat
  BY <1>1 DEF Count, StableFloor, ContextFloor
<1>3. CASE old.cands = {}
  <2>1. new = [cands |-> a.near, key |-> a.key, stable |-> 1, contexts |-> 1]
    BY <1>3 DEF UpdatedFrontier, Fresh
  <2> QED
    BY <1>1, <1>3, <2>1 DEF Frontiers, ContextFloor
<1>4. CASE old.cands # {} /\ a.near = old.cands
  <2>1. new = [cands |-> a.near, key |-> a.key,
               stable |-> Count(old.stable, StableFloor),
               contexts |-> IF a.key # old.key THEN Count(old.contexts, ContextFloor)
                            ELSE old.contexts]
    BY <1>1, <1>4 DEF UpdatedFrontier
  <2> QED
    BY <1>1, <1>2, <1>4, <2>1 DEF Frontiers, ContextFloor
<1>5. CASE old.cands # {} /\ a.near # old.cands
  <2>1. new = [cands |-> a.near, key |-> a.key, stable |-> 1,
               contexts |-> IF a.key # old.key THEN 1 ELSE old.contexts]
    BY <1>1, <1>5 DEF UpdatedFrontier, Fresh
  <2> QED
    BY <1>1, <1>5, <2>1 DEF Frontiers, ContextFloor
<1> QED
  BY <1>3, <1>4, <1>5

\* Whatever is discovered or derived under a fit is gated by its sources.
LEMMA CompressionFacts ==
    ASSUME NEW a \in Audits, NEW kept, UNION DOMAIN kept \subseteq Src[a.best], NEW r, NEW c,
           NEW new \in Compressions(kept, a, r, c)
    PROVE  UNION DOMAIN new \subseteq Src[a.best]
<1>1. ASSUME NEW known \in Discovered(kept, a, c)
      PROVE  UNION DOMAIN known \subseteq Src[a.best]
  <2>1. \A S \in SUBSET Src[a.best] : DOMAIN [g \in {{p} : p \in S} |-> 0] = {{p} : p \in S}
    OBVIOUS
  <2>2. known = kept \/ \E S \in SUBSET Src[a.best] : known = [g \in {{p} : p \in S} |-> 0]
    BY <1>1 DEF Discovered
  <2>3. known = kept \/ \E S \in SUBSET Src[a.best] : DOMAIN known = {{p} : p \in S}
    BY <2>1, <2>2
  <2>4. \A S \in SUBSET Src[a.best] : UNION {{p} : p \in S} \subseteq Src[a.best]
    OBVIOUS
  <2>5. CASE known = kept
    BY <2>5
  <2>6. CASE \E S \in SUBSET Src[a.best] : DOMAIN known = {{p} : p \in S}
    BY <2>4, <2>6
  <2> QED
    BY <2>3, <2>5, <2>6
<1>2. CASE new \in Discovered(kept, a, c)
  BY <1>1, <1>2
<1>3. CASE \E known \in Discovered(kept, a, c), derived \in SUBSET (SUBSET Src[a.best] \ {{}}) :
            new = WithNew(known, derived)
  <2>1. PICK known \in Discovered(kept, a, c), derived \in SUBSET (SUBSET Src[a.best] \ {{}}) :
            new = WithNew(known, derived)
    BY <1>3
  <2>2. DOMAIN new = DOMAIN known \cup derived
    BY <2>1 DEF WithNew
  <2> QED
    BY <1>1, <2>2
<1> QED
  BY <1>2, <1>3 DEF Compressions

\* A revival marks alternatives and names none anew; the ones it marks have the
\* sources of the winner.
LEMMA RevivedFacts ==
    ASSUME NEW alts \in SUBSET Dormants, NEW a \in Audits,
           \A d \in alts : d.revived => Src[d.hyp] = Src[a.best]
    PROVE  /\ Revived(alts, a) \in SUBSET Dormants
           /\ {d.hyp : d \in Revived(alts, a)} = {d.hyp : d \in alts}
           /\ \A d \in Revived(alts, a) : d.revived => Src[d.hyp] = Src[a.best]
<1> DEFINE Mark(d) == [d EXCEPT !.revived = @ \/ d.hyp = a.best]
<1>1. Revived(alts, a) = {Mark(d) : d \in alts}
  BY DEF Revived
<1>2. ASSUME NEW d \in alts
      PROVE  /\ Mark(d) \in Dormants /\ Mark(d).hyp = d.hyp
             /\ Mark(d).revived => Src[d.hyp] = Src[a.best]
  <2>1. d = [hyp |-> d.hyp, revived |-> d.revived] /\ d.hyp \in Hyps /\ d.revived \in BOOLEAN
    BY DEF Dormants
  <2>2. Mark(d) = [hyp |-> d.hyp, revived |-> (d.revived \/ d.hyp = a.best)]
    BY <2>1
  <2>3. Mark(d).hyp = d.hyp /\ Mark(d).revived = (d.revived \/ d.hyp = a.best)
    BY <2>2
  <2>4. Mark(d) \in Dormants
    BY <2>1, <2>2 DEF Dormants
  <2> QED
    BY <2>3, <2>4
<1> HIDE DEF Mark
<1>3. {d.hyp : d \in Revived(alts, a)} = {d.hyp : d \in alts}
  BY <1>1, <1>2
<1>4. \A d \in Revived(alts, a) : d.revived => Src[d.hyp] = Src[a.best]
  BY <1>1, <1>2
<1> QED
  BY <1>1, <1>2, <1>3, <1>4

\* What the installation of an audit does to what is kept beside the fit.
LEMMA InstallFacts ==
    ASSUME KInv, NEW a \in Audits, NEW r, InstallVar(a, r)
    PROVE  \E left \in {frontier, NoFrontier}, hit \in BOOLEAN,
              alts \in SUBSET Dormants, gone \in SUBSET Hyps :
             /\ fit' = a.best
             /\ left = IF SemanticChange(a) THEN NoFrontier ELSE frontier
             /\ hit => SemanticChange(a)
             /\ frontier' = IF hit THEN NoFrontier ELSE FrontierAfter(a, r, left)
             /\ gone \in Dropped(a, r, left, alts)
             /\ dormant' = alts \cup Archive(gone)
             /\ {d.hyp : d \in alts} \subseteq {d.hyp : d \in dormant}
             /\ \A d \in alts : d.revived => Src[d.hyp] = Src[a.best]
             /\ UNION DOMAIN gates' \subseteq Src[a.best]
             /\ Remember(a, r, left, frontier' = NoFrontier)
<1> DEFINE left == IF SemanticChange(a) THEN NoFrontier ELSE frontier
           held == IF SemanticChange(a) THEN NoGates ELSE gates
           hit  == failed /\ SemanticChange(a)
           alts0 == ArchiveLeft(a)
           C(attach) == Committed(a, r, attach)
           Alts(c) == IF Promoted(a, r, c) THEN Revived(ArchiveLeft(a), a) ELSE ArchiveLeft(a)
<1>1. PICK attach \in Attachable(a, r) :
        /\ fit' = a.best
        /\ frontier' = IF hit THEN NoFrontier ELSE FrontierAfter(a, r, left)
        /\ gates' \in IF r = "trass" THEN {held} ELSE Compressions(held, a, r, C(attach))
        /\ \E gone \in Dropped(a, r, left, Alts(C(attach))) :
              dormant' = Alts(C(attach)) \cup Archive(gone)
        /\ Remember(a, r, left, frontier' = NoFrontier)
  BY DEF InstallVar
<1> DEFINE alts == Alts(C(attach))
<1>2. PICK gone \in Dropped(a, r, left, alts) : dormant' = alts \cup Archive(gone)
  BY <1>1
<1>3. UNION DOMAIN held \subseteq Src[a.best]
  <2>1. DOMAIN NoGates = {}
    BY DEF NoGates
  <2> QED
    BY <2>1, AuditFacts DEF KInv, OfThisFit
<1>4. UNION DOMAIN gates' \subseteq Src[a.best]
  <2>1. CASE r = "trass"
    BY <1>1, <1>3, <2>1
  <2>2. CASE r # "trass"
    <3>1. gates' \in Compressions(held, a, r, C(attach))
      BY <1>1, <2>2
    <3> HIDE DEF held, C
    <3> QED
      BY <1>3, <3>1, CompressionFacts
  <2> QED
    BY <2>1, <2>2
<1>5. /\ alts0 \in SUBSET Dormants
      /\ {d.hyp : d \in alts0} \subseteq {d.hyp : d \in dormant}
      /\ \A d \in alts0 : d.revived => Src[d.hyp] = Src[a.best]
  BY AuditFacts DEF ArchiveLeft, KInv, KeptType, OfThisFit
<1>6. /\ alts \in SUBSET Dormants
      /\ {d.hyp : d \in alts} \subseteq {d.hyp : d \in dormant}
      /\ \A d \in alts : d.revived => Src[d.hyp] = Src[a.best]
  <2>1. CASE alts = alts0
    BY <1>5, <2>1
  <2>2. CASE alts = Revived(alts0, a)
    <3> HIDE DEF alts0
    <3>1. /\ Revived(alts0, a) \in SUBSET Dormants
          /\ {d.hyp : d \in Revived(alts0, a)} = {d.hyp : d \in alts0}
          /\ \A d \in Revived(alts0, a) : d.revived => Src[d.hyp] = Src[a.best]
      BY <1>5, RevivedFacts
    <3> HIDE DEF alts
    <3> QED
      BY <1>5, <2>2, <3>1
  <2> QED
    BY <2>1, <2>2
<1>7. left \in {frontier, NoFrontier} /\ left.cands \in SUBSET Hyps
  BY NoFrontierType DEF KInv, KeptType, Frontiers
<1>8. gone \in SUBSET Hyps
  <2> HIDE DEF left, alts
  <2> QED
    BY <1>7 DEF Dropped, Collapsed
<1>9. hit \in BOOLEAN /\ (hit => SemanticChange(a))
  <2>1. SemanticChange(a) \in BOOLEAN
    BY DEF SemanticChange
  <2> QED
    BY <2>1
<1> QED
  BY <1>1, <1>2, <1>4, <1>6, <1>7, <1>8, <1>9

\* The history follows a frontier that is updated.
LEMMA UpdateKeepsHistory ==
    ASSUME KInv, NEW a \in Audits, NEW r, NEW left \in {frontier, NoFrontier},
           r # "trass", frontier' = UpdatedFrontier(left, a),
           Remember(a, r, left, FALSE)
    PROVE  FrontierHistory'
<1>1. frontier \in Frontiers /\ (~None => run = frontier.stable)
  BY DEF KInv, KeptType, FrontierHistory
<1>2. left \in Frontiers /\ (left.cands # {} => left = frontier /\ ~None)
  BY <1>1, NoFrontierType DEF None
<1>3. /\ frontier'.cands = a.near
      /\ frontier'.stable = IF left.cands # {} /\ a.near = left.cands
                            THEN Count(left.stable, StableFloor) ELSE 1
  BY <1>2, UpdatedFacts
<1>4. run' = IF a.near = left.cands THEN Count(run, StableFloor) ELSE 1
  BY DEF Remember
<1>5. a.near # {}
  BY AuditFacts
<1>6. ~None'
  BY <1>3, <1>5 DEF None
<1>7. run' = frontier'.stable /\ run' \in 0 .. StableFloor
  <2>1. run \in 0 .. StableFloor /\ StableFloor \in Nat /\ 1 \in 0 .. StableFloor
    BY DEF KInv, FrontierHistory, StableFloor
  <2> QED
    BY <1>1, <1>2, <1>3, <1>4, <1>5, <2>1, CountBounds
<1> QED
  BY <1>6, <1>7 DEF FrontierHistory

\* A frontier that is taken away takes its history along.
LEMMA LostHistory ==
    ASSUME frontier' = NoFrontier, run' = 0
    PROVE  FrontierHistory'
BY NoFrontierType DEF FrontierHistory, None, StableFloor

\* Installing an audit keeps the invariant: the role a variable has afterwards is
\* tareth only if the audit certified or kept it as such.
LEMMA InstallKeeps ==
    ASSUME KInv, NEW a \in Audits, NEW r, InstallVar(a, r),
           role' = "tareth" => r = "tareth"
    PROVE  KInv'
<1>1. PICK left \in {frontier, NoFrontier}, hit \in BOOLEAN,
           alts \in SUBSET Dormants, gone \in SUBSET Hyps :
        /\ fit' = a.best
        /\ left = IF SemanticChange(a) THEN NoFrontier ELSE frontier
        /\ hit => SemanticChange(a)
        /\ frontier' = IF hit THEN NoFrontier ELSE FrontierAfter(a, r, left)
        /\ gone \in Dropped(a, r, left, alts)
        /\ dormant' = alts \cup Archive(gone)
        /\ {d.hyp : d \in alts} \subseteq {d.hyp : d \in dormant}
        /\ \A d \in alts : d.revived => Src[d.hyp] = Src[a.best]
        /\ UNION DOMAIN gates' \subseteq Src[a.best]
        /\ Remember(a, r, left, frontier' = NoFrontier)
  BY InstallFacts
<1>2. dormant' \subseteq Dormants /\ \A d \in dormant' : d.revived => Src[d.hyp] = Src[fit']
  <2>1. \A d \in Archive(gone) : d \in Dormants /\ d.revived = FALSE
    BY DEF Archive, Dormants
  <2> QED
    BY <1>1, <2>1
<1>3. left \in Frontiers /\ frontier \in Frontiers
  BY NoFrontierType DEF KInv, KeptType
<1>4. a.best \in a.near
  BY AuditFacts
<1>5. /\ frontier' \in Frontiers /\ FrontierHistory'
      /\ r # "trass" /\ ~None' => fit' \in frontier'.cands
  <2>1. CASE frontier' = NoFrontier
    <3>1. run' = 0
      BY <1>1, <2>1 DEF Remember
    <3> QED
      BY <2>1, <3>1, LostHistory, NoFrontierType DEF None
  <2>2. CASE frontier' # NoFrontier /\ r = "trass"
    <3>1. frontier' = frontier /\ run' = run
      BY <1>1, <2>2 DEF FrontierAfter, Remember
    <3> QED
      BY <1>3, <2>2, <3>1 DEF KInv, FrontierHistory, None
  <2>3. CASE frontier' # NoFrontier /\ r # "trass"
    <3>1. frontier' = UpdatedFrontier(left, a)
      BY <1>1, <2>3 DEF FrontierAfter
    <3>2. Remember(a, r, left, FALSE)
      BY <1>1, <2>3 DEF Remember
    <3>3. frontier' \in Frontiers /\ frontier'.cands = a.near
      BY <1>3, <3>1, UpdatedFacts
    <3> QED
      BY <1>1, <1>4, <2>3, <3>1, <3>2, <3>3, UpdateKeepsHistory
  <2> QED
    BY <2>1, <2>2, <2>3
<1>6. OfThisFit'
  BY <1>1, <1>2, <1>5 DEF OfThisFit
<1> QED
  BY <1>2, <1>5, <1>6 DEF KInv, KeptType

\* What is left alone stays as sound as it was.
LEMMA KeptAside ==
    ASSUME KInv, UNCHANGED <<fit, frontier, dormant, run>>,
           DOMAIN gates' = DOMAIN gates, role' = "tareth" => role = "tareth"
    PROVE  KInv'
BY DEF KInv, KeptType, OfThisFit, FrontierHistory, None

\* A demotion takes the frontier away and keeps the rest.
LEMMA FrontierTaken ==
    ASSUME KInv, UNCHANGED <<fit, dormant, gates>>,
           frontier' = NoFrontier, run' = 0
    PROVE  KInv'
<1>1. FrontierHistory' /\ None'
  BY LostHistory, NoFrontierType DEF None
<1>2. KeptType'
  BY NoFrontierType DEF KInv, KeptType
<1>3. OfThisFit'
  BY <1>1 DEF KInv, OfThisFit
<1> QED
  BY <1>1, <1>2, <1>3 DEF KInv

LEMMA KeptStep == KInv /\ [Next]_vars => KInv'
<1> SUFFICES ASSUME KInv, [Next]_vars PROVE KInv'
  OBVIOUS
<1>1. CASE FirstAudit
  <2>1. PICK a \in Audits, r \in RoleAfter : InstallVar(a, r) /\ role' = r
    BY <1>1 DEF FirstAudit
  <2> QED
    BY <2>1, InstallKeeps
<1>2. CASE Audit
  <2>1. PICK a \in Audits, r \in RoleAfter :
          InstallVar(a, r) /\ role' \in IF SemanticChange(a) THEN {r} ELSE {r, "noise_floor"}
    BY <1>2 DEF Audit
  <2>2. role' = "tareth" => r = "tareth"
    BY <2>1
  <2> QED
    BY <2>1, <2>2, InstallKeeps
<1>3. CASE TryCompressions
  <2>1. DOMAIN gates' = DOMAIN gates
    BY <1>3 DEF TryCompressions
  <2> QED
    BY <1>3, <2>1, KeptAside DEF TryCompressions, record
<1>4. CASE SentinelFails
  BY <1>4, FrontierTaken DEF SentinelFails
<1>5. CASE Cascaded
  BY <1>5, FrontierTaken DEF Cascaded
<1>6. CASE RoleLost
  BY <1>6, KeptAside DEF RoleLost
<1>7. CASE TrassStrong
  BY <1>7, KeptAside DEF TrassStrong
<1>8. CASE NextCycle
  BY <1>8, KeptAside DEF NextCycle, record
<1>9. CASE UNCHANGED vars
  BY <1>9, KeptAside DEF vars, record
<1> QED
  BY <1>1, <1>2, <1>3, <1>4, <1>5, <1>6, <1>7, <1>8, <1>9 DEF Next

\* For any hypotheses, contexts and thresholds, what a variable keeps beside its
\* fit is about that fit: its frontier, as long as the role is tareth, the gates
\* of its compressions, and the alternatives that were ever revived (update_var,
\* _install_var and revive_dormant_alternative in agent.py and ledger.py).
THEOREM OfThisFitHolds == Spec => []OfThisFit
<1>1. KInv => OfThisFit
  BY DEF KInv
<1> QED
  BY KeptInit, KeptStep, <1>1, PTL DEF Spec

-----------------------------------------------------------------------------
(* What a collapse may archive                                             *)

Earned == Archiving => run = StableFloor

\* A stable count of three is a run of exactly three: the count saturates.
LEMMA ProvenHistory ==
    ASSUME KInv, ~None, Proven(frontier)
    PROVE  run = StableFloor
<1>1. run = frontier.stable /\ run \in 0 .. StableFloor
  BY DEF KInv, FrontierHistory
<1> QED
  BY <1>1 DEF Proven, StableFloor

\* Few enough is no gain to explain.
LEMMA SmallGain ==
    ASSUME NEW S, IsFiniteSet(S), Cardinality(S) <= PreserveCap, Archived \subseteq S
    PROVE  ~(Cardinality(Archived) > PreserveCap)
<1>1. /\ IsFiniteSet(Archived) /\ Cardinality(Archived) <= Cardinality(S)
  BY FS_Subset
<1>2. Cardinality(Archived) \in Nat /\ Cardinality(S) \in Nat /\ PreserveCap \in Nat
  BY <1>1, FS_CardinalityType, FrontierAssumption DEF FrontierAssumption
<1> QED
  BY <1>1, <1>2

LEMMA NoGain ==
    ASSUME Archived = {}
    PROVE  Earned
<1>1. IsFiniteSet({}) /\ Cardinality({}) = 0 /\ PreserveCap \in Nat
  BY FS_EmptySet, FrontierAssumption DEF FrontierAssumption
<1> QED
  BY <1>1 DEF Earned, Archiving

\* An installation archives beyond the cap only what a proven frontier loses.
LEMMA InstallEarned ==
    ASSUME KInv, NEW a \in Audits, NEW r, InstallVar(a, r)
    PROVE  Earned
<1>1. PICK left \in {frontier, NoFrontier}, hit \in BOOLEAN,
           alts \in SUBSET Dormants, gone \in SUBSET Hyps :
        /\ left = IF SemanticChange(a) THEN NoFrontier ELSE frontier
        /\ hit => SemanticChange(a)
        /\ frontier' = IF hit THEN NoFrontier ELSE FrontierAfter(a, r, left)
        /\ gone \in Dropped(a, r, left, alts)
        /\ dormant' = alts \cup Archive(gone)
        /\ {d.hyp : d \in alts} \subseteq {d.hyp : d \in dormant}
  BY InstallFacts
<1>2. Archived \subseteq gone
  <2>1. {d.hyp : d \in Archive(gone)} \subseteq gone
    BY DEF Archive
  <2> QED
    BY <1>1, <2>1 DEF Archived
<1>3. IsFiniteSet(gone)
  BY FS_Subset, FrontierAssumption DEF FrontierAssumption
<1>4. CASE gone = {}
  BY <1>2, <1>4, NoGain
<1>5. CASE frontier' # NoFrontier
  BY <1>5 DEF Earned, Archiving
<1>6. CASE gone # {} /\ frontier' = NoFrontier
  <2>1. r # "trass" /\ left.cands # {}
    BY <1>1, <1>6 DEF Dropped
  <2>2. left = frontier /\ ~None /\ ~hit
    BY <1>1, <2>1, NoFrontierType DEF None
  <2>3. ~(Cardinality(a.near) >= 2)
    <3>1. ASSUME Cardinality(a.near) >= 2 PROVE FALSE
      <4>1. frontier' = UpdatedFrontier(frontier, a)
        BY <1>1, <2>1, <2>2, <3>1 DEF FrontierAfter
      <4>2. frontier'.cands = a.near /\ a.near # {}
        BY <4>1, UpdatedFacts, AuditFacts DEF KInv, KeptType
      <4> QED
        BY <1>6, <4>2, NoFrontierType
    <3> QED
      BY <3>1
  <2>4. gone \in Collapsed(frontier, alts, a)
    BY <1>1, <2>1, <2>2, <2>3 DEF Dropped
  <2>5. CASE Proven(frontier)
    BY <2>2, <2>5, ProvenHistory DEF Earned
  <2>6. CASE ~Proven(frontier)
    <3>1. Cardinality(gone) <= PreserveCap
      BY <2>4, <2>6 DEF Collapsed
    <3> QED
      BY <1>2, <1>3, <3>1, SmallGain DEF Earned, Archiving
  <2> QED
    BY <2>5, <2>6
<1> QED
  BY <1>4, <1>5, <1>6

LEMMA StepEarned == KInv /\ [Next]_vars => Earned
<1> SUFFICES ASSUME KInv, [Next]_vars PROVE Earned
  OBVIOUS
<1>1. CASE FirstAudit
  BY <1>1, InstallEarned DEF FirstAudit
<1>2. CASE Audit
  BY <1>2, InstallEarned DEF Audit
<1>3. CASE dormant' = dormant
  BY <1>3, NoGain DEF Archived
<1>4. TryCompressions \/ SentinelFails \/ Cascaded \/ RoleLost \/ TrassStrong
        \/ NextCycle \/ UNCHANGED vars => dormant' = dormant
  BY DEF TryCompressions, SentinelFails, Cascaded, RoleLost, TrassStrong, NextCycle, vars
<1> QED
  BY <1>1, <1>2, <1>3, <1>4 DEF Next

\* For any hypotheses, contexts and caps, a frontier that collapses archives more
\* losers than the cap only if its very candidates were the near-tie set of three
\* audits in a row (_collapse_tied_frontier): stable_count is never inherited.
THEOREM CollapseStableHolds == Spec => CollapseStable
<1>1. KInv /\ [Next]_vars => [Earned]_vars
  BY StepEarned
<1>2. CollapseStable <=> [][Earned]_vars
  BY DEF CollapseStable, Earned
<1> QED
  BY KeptInit, KeptStep, <1>1, <1>2, PTL DEF Spec

-----------------------------------------------------------------------------
(* The joint certificates                                                  *)

\* The pairs are well-formed records.
JointTyped ==
    /\ visible \in Nat
    /\ composites \subseteq Composite
    /\ absorbed \subseteq Composite

\* Between the two replays of a cycle the covered variables are those of the
\* hyper-composites, which have all just been found good.
HypersJustChecked ==
    phase = "pairs" =>
        /\ covered = MembersOf(hypers)
        /\ \A h \in hypers : ~Void(h)

JointIInv == JointTyped /\ AbsorbedBacked /\ HypersJustChecked

\* A step of CheckComposites keeps what a pair is, but for its pass count.
LEMMA CreditKeeps ==
    ASSUME NEW c \in Composite
    PROVE  /\ Credit(c) \in Composite
           /\ Credit(c).members = c.members
           /\ Credit(c).witness = c.witness
           /\ Credit(c).context = c.context
<1>1. MinPasses \in Nat
    BY CompositesAssumption
<1>2. c.passes \in 0 .. MinPasses
    BY DEF Composite
<1>3. (IF c.passes < MinPasses THEN c.passes + 1 ELSE c.passes) \in 0 .. MinPasses
    BY <1>1, <1>2
<1> QED
    BY <1>3 DEF Credit, Composite

\* A revoked hyper-composite gives its pairs back, so those that stay absorbed
\* lie inside one that stays.
LEMMA CheckHypersBacks == ASSUME JointIInv, CheckHypers PROVE JointIInv'
<1>1. PICK failing \in SUBSET {h \in hypers : ~Void(h)} :
        LET revoked == failing \cup {h \in hypers : Void(h)}
        IN /\ hypers' = hypers \ revoked
           /\ absorbed' = absorbed \ Restored(revoked)
           /\ composites' = composites \cup Restored(revoked)
           /\ covered' = MembersOf(hypers \ revoked)
    BY DEF CheckHypers
<1> DEFINE revoked == failing \cup {h \in hypers : Void(h)}
<1>2. JointTyped'
    BY <1>1 DEF JointIInv, JointTyped, Restored, CheckHypers, agent
<1>3. AbsorbedBacked'
    <2> SUFFICES ASSUME NEW c \in absorbed'
                 PROVE  \E h \in hypers' : c.members \subseteq h.members
        BY DEF AbsorbedBacked
    <2>1. PICK h \in hypers : c.members \subseteq h.members
        BY <1>1 DEF JointIInv, AbsorbedBacked
    <2>2. h \notin revoked
        BY <1>1, <2>1 DEF Restored
    <2> QED
        BY <1>1, <2>1, <2>2
<1>4. HypersJustChecked'
    <2>1. ASSUME NEW h \in hypers' PROVE ~Void(h)'
        BY <1>1, <2>1 DEF CheckHypers, agent, Void
    <2> QED
        BY <1>1, <2>1 DEF HypersJustChecked, MembersOf
<1> QED
    BY <1>2, <1>3, <1>4 DEF JointIInv

LEMMA CheckCompositesBacks == ASSUME JointIInv, CheckComposites PROVE JointIInv'
<1>1. PICK failing \in SUBSET {c \in composites : ~Dormant(c) /\ ~Void(c)} :
        LET revoked == failing \cup {c \in composites : ~Dormant(c) /\ Void(c)}
        IN composites' = {Credit(c) : c \in composites \ revoked}
    BY DEF CheckComposites
<1>2. composites' \subseteq Composite
    BY <1>1, CreditKeeps DEF JointIInv, JointTyped
<1> QED
    BY <1>2 DEF JointIInv, JointTyped, AbsorbedBacked, HypersJustChecked, CheckComposites

LEMMA JointTestBacks ==
    ASSUME JointIInv, NEW pair \in Pairs, JointTest(pair) PROVE JointIInv'
<1>1. PICK w \in Vars :
        composites' = {c \in composites : c.members # pair} \cup
              {[members |-> pair, witness |-> w, context |-> visible, passes |-> 0]}
    BY DEF JointTest
<1>2. 0 \in 0 .. MinPasses
    BY CompositesAssumption
<1>3. [members |-> pair, witness |-> w, context |-> visible, passes |-> 0] \in Composite
    BY <1>2 DEF Composite, JointIInv, JointTyped
<1> QED
    BY <1>1, <1>3 DEF JointIInv, JointTyped, AbsorbedBacked, HypersJustChecked, JointTest

\* Each pair that is absorbed lies inside the handle of its component.
LEMMA PromoteBacks == ASSUME JointIInv, Promote PROVE JointIInv'
<1>1. PICK promoted \in SUBSET {Component(c) : c \in composites} :
        /\ \E handle \in [promoted -> UNION {Handles(pairs) : pairs \in promoted}] :
            /\ \A pairs \in promoted : handle[pairs] \in Handles(pairs)
            /\ hypers' = hypers \cup {handle[pairs] : pairs \in promoted}
        /\ composites' = composites \ UNION promoted
        /\ absorbed' = absorbed \cup UNION promoted
    BY DEF Promote
<1>2. PICK handle \in [promoted -> UNION {Handles(pairs) : pairs \in promoted}] :
        /\ \A pairs \in promoted : handle[pairs] \in Handles(pairs)
        /\ hypers' = hypers \cup {handle[pairs] : pairs \in promoted}
    BY <1>1
<1>3. UNION promoted \subseteq composites
    BY <1>1 DEF Component
<1>4. JointTyped'
    BY <1>1, <1>3 DEF JointIInv, JointTyped, Promote, agent
<1>5. AbsorbedBacked'
    <2> SUFFICES ASSUME NEW c \in absorbed'
                 PROVE  \E h \in hypers' : c.members \subseteq h.members
        BY DEF AbsorbedBacked
    <2>1. CASE c \in absorbed
        BY <1>2, <2>1 DEF JointIInv, AbsorbedBacked
    <2>2. CASE c \in UNION promoted
        <3>1. PICK pairs \in promoted : c \in pairs
            BY <2>2
        <3>2. handle[pairs].members = MembersOf(pairs)
            BY <1>2, <3>1 DEF Handles
        <3>3. c.members \subseteq handle[pairs].members
            BY <3>1, <3>2 DEF MembersOf
        <3> QED
            BY <1>2, <3>1, <3>3
    <2> QED
        BY <1>1, <2>1, <2>2
<1> QED
    BY <1>4, <1>5 DEF JointIInv, HypersJustChecked, Promote

\* IInv is an inductive invariant.
THEOREM JointInvariance == JointSpec => []JointIInv
<1>1. JointInit => JointIInv
    BY CompositesAssumption DEF JointInit, JointIInv, JointTyped, AbsorbedBacked, HypersJustChecked
<1>2. JointIInv /\ [JointNext]_jointVars => JointIInv'
    <2> SUFFICES ASSUME JointIInv, [JointNext]_jointVars PROVE JointIInv'
        OBVIOUS
    <2> USE DEF JointIInv
    <2>1. CASE CheckHypers
        BY <2>1, CheckHypersBacks
    <2>2. CASE CheckComposites
        BY <2>2, CheckCompositesBacks
    <2>3. CASE StartTests \/ EndCycle
        BY <2>3 DEF StartTests, EndCycle, agent, certs,
                    JointTyped, AbsorbedBacked, HypersJustChecked
    <2>4. CASE Promote
        BY <2>4, PromoteBacks
    <2>5. CASE Reveal
        BY <2>5 DEF Reveal, certs, JointTyped, AbsorbedBacked, HypersJustChecked
    <2>6. ASSUME NEW v \in Vars, Process(v) \/ Touch(v) PROVE JointIInv'
        BY <2>6 DEF Process, Touch, certs, JointTyped, AbsorbedBacked, HypersJustChecked
    <2>7. ASSUME NEW pair \in Pairs, JointTest(pair) PROVE JointIInv'
        BY <2>7, JointTestBacks
    <2>8. CASE UNCHANGED jointVars
        BY <2>8 DEF jointVars, agent, certs, JointTyped, AbsorbedBacked, HypersJustChecked,
                    Void, MembersOf
    <2> QED
        BY <2>1, <2>2, <2>3, <2>4, <2>5, <2>6, <2>7, <2>8 DEF JointNext
<1> QED
    BY <1>1, <1>2, PTL DEF JointSpec

\* No pair is lost while it is absorbed by a hyper-composite
\* (_promote_dense_components, _check_hyper_composites).
THEOREM PairsKept == JointSpec => []AbsorbedBacked
<1>1. JointIInv => AbsorbedBacked
    BY DEF JointIInv
<1> QED
    BY <1>1, JointInvariance, PTL

\* What the first pass skips on joint evidence is covered by a certificate for
\* the present context (_check_composites, _check_hyper_composites).
THEOREM CoverageSound == JointSpec => CoveredOnEvidence
<1> DEFINE Sound ==
        phase = "pairs" => \A v \in covered' \cap live :
            \E c \in composites' \cup hypers' :
                v \in c.members /\ c.context = visible /\ skipRole[c.witness] # "trass"
<1>1. ASSUME JointIInv, JointNext PROVE Sound
    <2> SUFFICES ASSUME phase = "pairs", NEW v \in covered' \cap live
                 PROVE  \E c \in composites' \cup hypers' :
                            v \in c.members /\ c.context = visible
                                /\ skipRole[c.witness] # "trass"
        OBVIOUS
    <2>1. CheckComposites
        BY <1>1 DEF JointNext, CheckHypers, StartTests, EndCycle, Promote, Reveal,
                    Process, Touch, JointTest
    <2>2. PICK failing \in SUBSET {c \in composites : ~Dormant(c) /\ ~Void(c)} :
            LET revoked == failing \cup {c \in composites : ~Dormant(c) /\ Void(c)}
                passing == composites \ revoked
            IN /\ composites' = {Credit(c) : c \in passing}
               /\ covered' = covered \cup MembersOf(passing)
        BY <2>1 DEF CheckComposites
    <2> DEFINE revoked == failing \cup {c \in composites : ~Dormant(c) /\ Void(c)}
    <2>3. CASE v \in covered
        <3>1. PICK h \in hypers : v \in h.members
            BY <1>1, <2>3 DEF JointIInv, HypersJustChecked, MembersOf
        <3>2. ~Void(h) /\ hypers' = hypers
            BY <1>1, <2>1 DEF JointIInv, HypersJustChecked, CheckComposites
        <3> QED
            BY <3>1, <3>2 DEF Void
    <2>4. CASE v \in MembersOf(composites \ revoked)
        <3>1. PICK c \in composites \ revoked : v \in c.members
            BY <2>4 DEF MembersOf
        <3>2. ~Void(c)
            BY <3>1 DEF Dormant
        <3>3. Credit(c) \in composites'
            BY <2>2, <3>1
        <3>4. c \in Composite
            BY <1>1, <3>1 DEF JointIInv, JointTyped
        <3> QED
            BY <3>1, <3>2, <3>3, <3>4, CreditKeeps DEF Void
    <2> QED
        BY <2>2, <2>3, <2>4
<1>2. JointIInv /\ [JointNext]_jointVars => [Sound]_jointVars
    BY <1>1
<1> QED
    BY <1>2, JointInvariance, PTL DEF JointSpec, CoveredOnEvidence
=============================================================================
