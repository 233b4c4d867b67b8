--------------------------- MODULE Regime_proofs ---------------------------
(***************************************************************************)
(* Theorems about Regime, for every set of variables and every threshold.  *)
(***************************************************************************)
EXTENDS Regime, FiniteSetTheorems, SequenceTheorems, WellFoundedInduction, TLAPS

\* Every failure on record is of a variable that has been caught failing.
Caught(events) == \A e \in events : e.type = "failed" /\ e.var \in caught

Seeded(events) == \A e \in events : e.type = "stressed"

\* What is confirmed, and what failed in this cycle, rests on caught variables
\* only; a candidate is made of failures or of passive stress, never of both.
RestsOnCaught ==
    /\ \A i \in DOMAIN confirmed : Caught(confirmed[i].events)
    /\ \A c \in candidates : Caught(c.events) \/ Seeded(c.events)
    /\ Caught(failures)
    /\ regimeFailed \subseteq caught

Paired == \A i \in DOMAIN confirmed : Cardinality(Members(confirmed[i].events)) >= 2

IInv == TypeOK /\ RestsOnCaught /\ Paired /\ NeverParked

-----------------------------------------------------------------------------
(* The helpers                                                             *)

LEMMA BumpType ==
    ASSUME NEW cap \in Nat, NEW count \in 0 .. cap
    PROVE  Bump(count, cap) \in 0 .. cap
BY DEF Bump, UpTo

\* What the type invariant says of one confirmed regime.
LEMMA RegimeType ==
    ASSUME TypeOK, NEW i \in DOMAIN confirmed
    PROVE  /\ confirmed[i] \in [events : EventSets, probe : BOOLEAN]
           /\ Members(confirmed[i].events) \subseteq Vars
<1>1. confirmed \in Seq([events : EventSets, probe : BOOLEAN])
  BY DEF TypeOK
<1>2. confirmed[i] \in [events : EventSets, probe : BOOLEAN]
  <2>1. DOMAIN confirmed = 1 .. Len(confirmed)
    BY <1>1, LenProperties
  <2>2. i \in 1 .. Len(confirmed)
    BY <2>1
  <2>3. QED
    BY <1>1, <2>2, ElementOfSeq
<1>3. confirmed[i].events \subseteq Event
  BY <1>2 DEF EventSets
<1>4. QED
  BY <1>2, <1>3 DEF Members, Event

\* Near enough patterns share a key.
LEMMA ClosestShares ==
    ASSUME NEW events, NEW pool, NEW types, NEW best,
           Closest(events, pool, types, best)
    PROVE  \E e \in events, f \in best : SameKey(e, f)
<1> DEFINE a == Only(events, types)
           b == Only(best, types)
<1>1. AtLeast(Similarity(a, b), <<SimNum, SimDen>>)
  BY DEF Closest
<1>2. Keys(a) \cap Keys(b) # {}
  <2> SUFFICES ASSUME Keys(a) \cap Keys(b) = {} PROVE FALSE
    OBVIOUS
  <2>1. Similarity(a, b) = <<0, 1>>
    BY DEF Similarity
  <2>2. AtLeast(<<0, 1>>, <<SimNum, SimDen>>)
    BY <1>1, <2>1
  <2>3. 0 * SimDen >= SimNum * 1
    BY <2>2 DEF AtLeast
  <2>4. QED
    BY <2>3, RegimeAssumption DEF RegimeAssumption
<1>3. PICK k : k \in Keys(a) /\ k \in Keys(b)
  BY <1>2
<1>4. PICK e \in a : k = [var |-> e.var, type |-> e.type]
  BY <1>3 DEF Keys
<1>5. PICK f \in b : k = [var |-> f.var, type |-> f.type]
  BY <1>3 DEF Keys
<1>6. SameKey(e, f)
  BY <1>4, <1>5 DEF SameKey
<1>7. QED
  BY <1>4, <1>5, <1>6 DEF Only

\* So a candidate that the failures of a cycle join is itself made of failures.
LEMMA JoinsCaught ==
    ASSUME IInv, NEW c \in Fresh, Joins(failures, c)
    PROVE  Caught(c.events)
<1>1. PICK e \in failures, f \in c.events : SameKey(e, f)
  BY ClosestShares DEF Joins
<1>2. f.type = "failed"
  BY <1>1 DEF IInv, RestsOnCaught, Caught, SameKey
<1>3. Caught(c.events) \/ Seeded(c.events)
  BY DEF IInv, RestsOnCaught, Fresh
<1>4. QED
  BY <1>1, <1>2, <1>3 DEF Seeded

LEMMA MergeCaught ==
    ASSUME NEW a, NEW b, Caught(a), Caught(b)
    PROVE  Caught(Merge(a, b))
BY DEF Caught, Merge

\* Merging loses no variable, and leaves one event for each key.
LEMMA MergeType ==
    ASSUME NEW a \in EventSets, NEW b \in EventSets
    PROVE  /\ Merge(a, b) \in EventSets
           /\ Members(a) \subseteq Members(Merge(a, b))
<1>1. /\ a \subseteq Event /\ b \subseteq Event
      /\ OneAge(a) /\ OneAge(b) /\ a # {}
  BY DEF EventSets
<1>2. \A e, f \in Event : e.age \in Nat /\ f.age \in Nat
  BY RegimeAssumption DEF RegimeAssumption, Event
<1>3. Merge(a, b) \subseteq Event
  BY <1>1 DEF Merge
<1>4. \A e, f \in Event : SameKey(e, f) /\ e.age = f.age => e = f
  BY DEF Event, SameKey
<1>5. OneAge(Merge(a, b))
  <2> SUFFICES ASSUME NEW e \in Merge(a, b), NEW f \in Merge(a, b), SameKey(e, f)
               PROVE  e = f
    BY DEF OneAge
  <2>1. CASE e \in a /\ f \in a
    BY <2>1, <1>1 DEF OneAge
  <2>2. CASE e \in b /\ f \in b
    BY <2>2, <1>1 DEF OneAge
  <2>3. CASE e \in a /\ f \in b
    <3>1. e \in Event /\ f \in Event
      BY <2>3, <1>1
    <3>2. SameKey(f, e)
      BY DEF SameKey
    <3>3. CASE \A g \in b : SameKey(e, g) => e.age >= g.age
      <4>1. CASE \A g \in a : SameKey(g, f) => f.age > g.age
        BY <4>1, <3>3, <2>3, <3>1, <1>2
      <4>2. CASE f \in a
        BY <4>2, <2>3, <1>1 DEF OneAge
      <4>3. QED
        BY <4>1, <4>2 DEF Merge
    <3>4. CASE e \in b
      BY <3>4, <2>3, <1>1 DEF OneAge
    <3>5. QED
      BY <3>3, <3>4 DEF Merge
  <2>4. CASE e \in b /\ f \in a
    <3>1. e \in Event /\ f \in Event
      BY <2>4, <1>1
    <3>2. SameKey(f, e)
      BY DEF SameKey
    <3>3. CASE \A g \in b : SameKey(f, g) => f.age >= g.age
      <4>1. CASE \A g \in a : SameKey(g, e) => e.age > g.age
        BY <4>1, <3>3, <3>2, <2>4, <3>1, <1>2
      <4>2. CASE e \in a
        BY <4>2, <2>4, <1>1 DEF OneAge
      <4>3. QED
        BY <4>1, <4>2 DEF Merge
    <3>4. CASE f \in b
      BY <3>4, <2>4, <1>1 DEF OneAge
    <3>5. QED
      BY <3>3, <3>4 DEF Merge
  <2>5. QED
    BY <2>1, <2>2, <2>3, <2>4 DEF Merge
<1>6. \A e \in a : \E f \in Merge(a, b) : f.var = e.var
  <2> SUFFICES ASSUME NEW e \in a
               PROVE  \E f \in Merge(a, b) : f.var = e.var
    OBVIOUS
  <2>1. CASE \A f \in b : SameKey(e, f) => e.age >= f.age
    BY <2>1 DEF Merge
  <2>2. CASE \E f \in b : SameKey(e, f) /\ ~(e.age >= f.age)
    <3>1. PICK f \in b : SameKey(e, f) /\ ~(e.age >= f.age)
      BY <2>2
    <3>2. e.age \in Nat /\ f.age \in Nat
      BY <1>1, <1>2
    <3>3. ASSUME NEW g \in a, SameKey(g, f)
          PROVE  f.age > g.age
      <4>1. SameKey(e, g)
        BY <3>1, <3>3 DEF SameKey
      <4>2. e = g
        BY <4>1, <1>1 DEF OneAge
      <4>3. QED
        BY <4>2, <3>1, <3>2
    <3>4. f \in Merge(a, b)
      BY <3>3 DEF Merge
    <3>5. QED
      BY <3>1, <3>4 DEF SameKey
  <2>3. QED
    BY <2>1, <2>2
<1>7. Members(a) \subseteq Members(Merge(a, b))
  BY <1>6 DEF Members
<1>8. Merge(a, b) # {}
  BY <1>6, <1>1
<1>9. QED
  BY <1>3, <1>5, <1>7, <1>8 DEF EventSets

\* The events of one cycle: each variable occurs once.
LEMMA EventsType ==
    ASSUME audits \in [Vars -> 0 .. Mature], NEW S \in SUBSET Vars,
           NEW type \in {"failed", "stressed"}
    PROVE  LET events == {[var |-> v, type |-> type, age |-> audits[v]] : v \in S}
           IN events = {} \/ events \in EventSets
<1> DEFINE events == {[var |-> v, type |-> type, age |-> audits[v]] : v \in S}
<1>1. events \subseteq Event
  BY DEF Event
<1>2. OneAge(events)
  BY DEF OneAge, SameKey
<1>3. QED
  BY <1>1, <1>2 DEF EventSets

LEMMA CandidateType ==
    ASSUME NEW events \in EventSets
    PROVE  Candidate(events) \in [events : EventSets, age : 0 .. CandidateMaxAge + 1]
BY RegimeAssumption DEF RegimeAssumption, Candidate

-----------------------------------------------------------------------------
(* The invariant                                                           *)

LEMMA InitIInv == Init => IInv
<1> SUFFICES ASSUME Init PROVE IInv
  OBVIOUS
<1>1. TypeOK
  BY RegimeAssumption DEF RegimeAssumption, Init, TypeOK
<1>2. RestsOnCaught /\ Paired /\ NeverParked
  BY DEF Init, RestsOnCaught, Caught, Paired, NeverParked
<1>3. QED
  BY <1>1, <1>2 DEF IInv

\* What keeps the invariant while nothing new is recorded as failed.
LEMMA Recorded ==
    ASSUME IInv, UNCHANGED <<caught, parked, regimeFailed, failures>>,
           \A i \in DOMAIN confirmed' :
                /\ Caught(confirmed'[i].events)
                /\ Cardinality(Members(confirmed'[i].events)) >= 2,
           \A c \in candidates' : Caught(c.events) \/ Seeded(c.events)
    PROVE  RestsOnCaught' /\ Paired' /\ NeverParked'
BY DEF IInv, RestsOnCaught, Caught, Seeded, Paired, NeverParked, Members

LEMMA Unrecorded ==
    ASSUME IInv, UNCHANGED <<confirmed, candidates, caught, parked, regimeFailed, failures>>
    PROVE  RestsOnCaught' /\ Paired' /\ NeverParked'
BY DEF IInv, RestsOnCaught, Caught, Seeded, Paired, NeverParked, Members

LEMMA CheckSentinelsIInv ==
    ASSUME IInv, CheckSentinels
    PROVE  IInv'
<1>1. PICK ok \in SUBSET Probed :
        /\ passes' = UpTo(passes + Cardinality(ok), ParkPasses)
        /\ covered' = MembersOf(ok)
        /\ regimeFailed' = MembersOf(Probed \ ok)
  BY DEF CheckSentinels
<1>2. parked' \subseteq parked /\ auth' \subseteq auth
  BY DEF CheckSentinels
<1>3. confirmed \in Seq([events : EventSets, probe : BOOLEAN])
  BY DEF IInv, TypeOK
<1>5. MembersOf(Probed) = covered' \cup regimeFailed'
  BY <1>1 DEF MembersOf
<1>6. MembersOf(Probed) \subseteq Vars
  <2>1. \A i \in DOMAIN confirmed : Members(confirmed[i].events) \subseteq Vars
    BY RegimeType DEF IInv
  <2>2. QED
    BY <2>1 DEF MembersOf, Probed
<1>7. Cardinality(ok) \in Nat
  <2>1. DOMAIN confirmed = 1 .. Len(confirmed) /\ Len(confirmed) \in Nat
    BY <1>3
  <2>2. IsFiniteSet(DOMAIN confirmed)
    BY <2>1, FS_Interval
  <2>3. ok \subseteq DOMAIN confirmed
    BY DEF Probed
  <2>4. QED
    BY <2>2, <2>3, FS_Subset, FS_CardinalityType
<1>8. passes' \in 0 .. ParkPasses
  BY <1>1, <1>7, RegimeAssumption DEF RegimeAssumption, UpTo, IInv, TypeOK
<1>9. quiet' \in [Vars -> 0 .. ParkWindow]
  BY BumpType, RegimeAssumption DEF RegimeAssumption, CheckSentinels, IInv, TypeOK
<1>10. candidates' \subseteq [events : EventSets, age : 0 .. CandidateMaxAge + 1]
  <2>1. candidates \subseteq [events : EventSets, age : 0 .. CandidateMaxAge + 1]
    BY DEF IInv, TypeOK
  <2>2. CandidateMaxAge + 1 \in Nat
    BY RegimeAssumption DEF RegimeAssumption
  <2>3. \A c \in candidates : Bump(c.age, CandidateMaxAge + 1) \in 0 .. CandidateMaxAge + 1
    BY <2>1, <2>2, BumpType
  <2>4. candidates' = {[c EXCEPT !.age = Bump(@, CandidateMaxAge + 1)] : c \in candidates}
    BY DEF CheckSentinels
  <2>5. QED
    BY <2>1, <2>3, <2>4
<1>11. TypeOK'
  BY <1>2, <1>5, <1>6, <1>8, <1>9, <1>10 DEF CheckSentinels, IInv, TypeOK
<1>12. MembersOf(Probed) \subseteq caught
  BY DEF IInv, RestsOnCaught, Caught, MembersOf, Members, Probed
<1>13. RestsOnCaught' /\ Paired' /\ NeverParked'
  <2>1. UNCHANGED <<confirmed, caught, failures>>
    BY DEF CheckSentinels
  <2>2. \A c \in candidates' : \E d \in candidates : c.events = d.events
    BY DEF CheckSentinels, IInv, TypeOK
  <2>3. QED
    BY <1>2, <1>5, <1>12, <2>1, <2>2
       DEF IInv, RestsOnCaught, Caught, Paired, NeverParked
<1>14. QED
  BY <1>11, <1>13 DEF IInv

LEMMA FirstPassIInv ==
    ASSUME IInv, FirstPass
    PROVE  IInv'
<1>1. PICK reached \in SUBSET auth, residual \in SUBSET Vars, failing \in SUBSET Vars :
        LET skipped == reached \cap covered
            rest    == reached \ covered
        IN /\ \E asleep : parked' = (parked \ (rest \ asleep)) \cup {v \in skipped : MayPark(v)}
           /\ auth' = auth \ failing
           /\ caught' = caught \cup (failing \ regimeFailed)
           /\ quiet' = [v \in Vars |-> IF v \in failing \ regimeFailed THEN 0 ELSE quiet[v]]
           /\ failures' = {[var |-> v, type |-> "failed", age |-> audits[v]] : v \in failing}
           /\ stressed' = residual
  BY DEF FirstPass
<1>2. \A v : ~MayPark(v)
  BY DEF MayPark, UnderProbe, Members, Probed, IInv, RestsOnCaught, Caught
<1>3. parked' = {}
  BY <1>1, <1>2 DEF IInv, NeverParked
<1>4. failures' = {} \/ failures' \in EventSets
  BY <1>1, EventsType DEF IInv, TypeOK
<1>5. quiet' \in [Vars -> 0 .. ParkWindow]
  BY <1>1, RegimeAssumption DEF RegimeAssumption, IInv, TypeOK
<1>6. /\ UNCHANGED <<confirmed, candidates, passes, audits, covered, regimeFailed>>
      /\ phase' = "audit"
  BY DEF FirstPass, register, pass
<1>7. TypeOK'
  BY <1>1, <1>3, <1>4, <1>5, <1>6 DEF IInv, TypeOK
<1>8. caught \subseteq caught'
  BY <1>1
<1>9. \A e \in failures' : e.type = "failed" /\ e.var \in caught'
  BY <1>1 DEF IInv, RestsOnCaught
<1>10. RestsOnCaught'
  BY <1>6, <1>8, <1>9 DEF IInv, RestsOnCaught, Caught, Seeded
<1>11. Paired'
  BY <1>6 DEF IInv, Paired
<1>12. QED
  BY <1>3, <1>7, <1>10, <1>11 DEF IInv, NeverParked

LEMMA AuditPassIInv ==
    ASSUME IInv, AuditPass
    PROVE  IInv'
<1>1. PICK audited \in SUBSET (Vars \ auth), lost \in SUBSET auth :
        \E regained \in SUBSET audited :
          /\ audits' = [v \in Vars |->
                        IF v \in audited THEN Bump(audits[v], Mature) ELSE audits[v]]
          /\ auth' = (auth \ lost) \cup regained
  BY DEF AuditPass
<1>2. audits' \in [Vars -> 0 .. Mature]
  BY <1>1, BumpType, RegimeAssumption DEF RegimeAssumption, IInv, TypeOK
<1>3. /\ UNCHANGED <<confirmed, candidates, passes, parked, quiet, caught,
                     covered, regimeFailed, failures, stressed>>
      /\ phase' = "observe"
  BY DEF AuditPass, register, pass
<1>4. TypeOK'
  BY <1>1, <1>2, <1>3 DEF IInv, TypeOK
<1>5. QED
  BY <1>3, <1>4, Unrecorded DEF IInv

LEMMA NoFailuresIInv ==
    ASSUME IInv, NoFailures
    PROVE  IInv'
<1>1. UNCHANGED <<confirmed, candidates, passes, auth, parked, quiet, caught, audits,
                  covered, regimeFailed, failures, stressed>> /\ phase' = "seed"
  BY DEF NoFailures, register, leaf, pass
<1>2. TypeOK'
  BY <1>1 DEF IInv, TypeOK
<1>3. QED
  BY <1>1, <1>2, Unrecorded DEF IInv

\* What every branch of observe() has in common.
LEMMA ObservingType ==
    ASSUME IInv, Observing,
           confirmed' \in Seq([events : EventSets, probe : BOOLEAN]),
           candidates' \subseteq [events : EventSets, age : 0 .. CandidateMaxAge + 1]
    PROVE  TypeOK' /\ UNCHANGED <<caught, parked, regimeFailed, failures>>
<1>1. UNCHANGED <<passes, auth, parked, quiet, caught, audits,
                  covered, regimeFailed, failures, stressed>> /\ phase' = "seed"
  BY DEF Observing, leaf, pass
<1>2. QED
  BY <1>1 DEF IInv, TypeOK

\* Merging never makes a pattern of two variables smaller.
LEMMA MembersGrow ==
    ASSUME NEW a \in EventSets, NEW b \in EventSets, Members(a) \subseteq Members(b)
    PROVE  Cardinality(Members(a)) >= 2 => Cardinality(Members(b)) >= 2
<1>1. Members(b) \subseteq Vars
  BY DEF EventSets, Members, Event
<1>2. IsFiniteSet(Members(b))
  BY <1>1, FS_Subset, RegimeAssumption DEF RegimeAssumption
<1>3. /\ Cardinality(Members(a)) <= Cardinality(Members(b))
      /\ Cardinality(Members(a)) \in Nat /\ Cardinality(Members(b)) \in Nat
  BY <1>2, FS_Subset, FS_CardinalityType
<1>4. QED
  BY <1>3

LEMMA RecurIInv ==
    ASSUME IInv, Recur
    PROVE  IInv'
<1>1. PICK i \in DOMAIN confirmed :
        confirmed' = [confirmed EXCEPT ![i].events = Merge(@, failures)]
  BY DEF Recur
<1>2. Observing /\ candidates' = Fresh
  BY DEF Recur
<1>3. confirmed \in Seq([events : EventSets, probe : BOOLEAN])
  BY DEF IInv, TypeOK
<1>4. failures \in EventSets
  BY <1>2 DEF Observing, IInv, TypeOK
<1>5. /\ Merge(confirmed[i].events, failures) \in EventSets
      /\ Members(confirmed[i].events) \subseteq Members(Merge(confirmed[i].events, failures))
  BY <1>4, RegimeType, MergeType DEF IInv
<1>6. confirmed' \in Seq([events : EventSets, probe : BOOLEAN])
  <2>1. [confirmed[i] EXCEPT !.events = Merge(confirmed[i].events, failures)]
            \in [events : EventSets, probe : BOOLEAN]
    BY <1>5, RegimeType DEF IInv
  <2>2. confirmed' = [confirmed EXCEPT ![i] =
                [confirmed[i] EXCEPT !.events = Merge(confirmed[i].events, failures)]]
    BY <1>1
  <2>3. QED
    BY <1>3, <2>1, <2>2, ExceptSeq
<1>7. candidates' \subseteq [events : EventSets, age : 0 .. CandidateMaxAge + 1]
  BY <1>2 DEF Fresh, IInv, TypeOK
<1>8. /\ Caught(Merge(confirmed[i].events, failures))
      /\ Cardinality(Members(Merge(confirmed[i].events, failures))) >= 2
  <2>1. Caught(confirmed[i].events) /\ Caught(failures)
    BY DEF IInv, RestsOnCaught
  <2>2. Cardinality(Members(confirmed[i].events)) >= 2
    BY DEF IInv, Paired
  <2>3. confirmed[i].events \in EventSets
    BY RegimeType DEF IInv
  <2>4. QED
    BY <1>5, <2>1, <2>2, <2>3, MergeCaught, MembersGrow
<1>9. \A j \in DOMAIN confirmed' :
        /\ Caught(confirmed'[j].events)
        /\ Cardinality(Members(confirmed'[j].events)) >= 2
  <2>1. \A j \in DOMAIN confirmed : confirmed'[j].events =
            IF j = i THEN Merge(confirmed[i].events, failures) ELSE confirmed[j].events
    BY <1>1, RegimeType DEF IInv
  <2>2. DOMAIN confirmed' = DOMAIN confirmed
    BY <1>1
  <2>3. QED
    BY <1>8, <2>1, <2>2 DEF IInv, RestsOnCaught, Paired
<1>10. \A c \in candidates' : Caught(c.events) \/ Seeded(c.events)
  BY <1>2 DEF Fresh, IInv, RestsOnCaught
<1>11. QED
  BY <1>2, <1>6, <1>7, <1>9, <1>10, ObservingType, Recorded DEF IInv

LEMMA JoinSingleIInv ==
    ASSUME IInv, JoinSingle
    PROVE  IInv'
<1>1. PICK c \in Fresh :
        /\ Joins(failures, c)
        /\ candidates' = (Fresh \ {c}) \cup {Candidate(Merge(c.events, failures))}
  BY DEF JoinSingle
<1>2. Observing /\ UNCHANGED confirmed
  BY DEF JoinSingle
<1>3. failures \in EventSets
  BY <1>2 DEF Observing, IInv, TypeOK
<1>4. Fresh \subseteq [events : EventSets, age : 0 .. CandidateMaxAge + 1]
  BY DEF Fresh, IInv, TypeOK
<1>5. candidates' \subseteq [events : EventSets, age : 0 .. CandidateMaxAge + 1]
  BY <1>1, <1>3, <1>4, MergeType, CandidateType
<1>6. confirmed' \in Seq([events : EventSets, probe : BOOLEAN])
  BY <1>2 DEF IInv, TypeOK
<1>7. Caught(Merge(c.events, failures))
  BY <1>1, JoinsCaught, MergeCaught DEF IInv, RestsOnCaught
<1>8. \A d \in candidates' : Caught(d.events) \/ Seeded(d.events)
  BY <1>1, <1>7 DEF Fresh, Candidate, IInv, RestsOnCaught
<1>9. \A i \in DOMAIN confirmed' :
        /\ Caught(confirmed'[i].events)
        /\ Cardinality(Members(confirmed'[i].events)) >= 2
  BY <1>2 DEF IInv, RestsOnCaught, Paired
<1>10. QED
  BY <1>2, <1>5, <1>6, <1>8, <1>9, ObservingType, Recorded DEF IInv

LEMMA ConfirmIInv ==
    ASSUME IInv, Confirm
    PROVE  IInv'
<1>1. PICK c \in Fresh, probe \in BOOLEAN :
        /\ Joins(failures, c)
        /\ Cardinality(Members(Merge(c.events, failures))) >= 2
        /\ candidates' = Fresh \ {c}
        /\ confirmed' = Append(confirmed,
                            [events |-> Merge(c.events, failures), probe |-> probe])
  BY DEF Confirm
<1>2. Observing
  BY DEF Confirm
<1>3. failures \in EventSets
  BY <1>2 DEF Observing, IInv, TypeOK
<1>4. Fresh \subseteq [events : EventSets, age : 0 .. CandidateMaxAge + 1]
  BY DEF Fresh, IInv, TypeOK
<1>5. candidates' \subseteq [events : EventSets, age : 0 .. CandidateMaxAge + 1]
  BY <1>1, <1>4
<1>6. confirmed \in Seq([events : EventSets, probe : BOOLEAN])
  BY DEF IInv, TypeOK
<1>7. [events |-> Merge(c.events, failures), probe |-> probe]
        \in [events : EventSets, probe : BOOLEAN]
  BY <1>3, <1>4, MergeType
<1>8. confirmed' \in Seq([events : EventSets, probe : BOOLEAN])
  BY <1>1, <1>6, <1>7
<1>9. Caught(Merge(c.events, failures))
  BY <1>1, JoinsCaught, MergeCaught DEF IInv, RestsOnCaught
<1>10. \A i \in DOMAIN confirmed' :
        /\ Caught(confirmed'[i].events)
        /\ Cardinality(Members(confirmed'[i].events)) >= 2
  <2> SUFFICES ASSUME NEW i \in DOMAIN confirmed'
               PROVE  /\ Caught(confirmed'[i].events)
                      /\ Cardinality(Members(confirmed'[i].events)) >= 2
    OBVIOUS
  <2>1. CASE i \in DOMAIN confirmed
    <3>1. confirmed'[i] = confirmed[i]
      BY <2>1, <1>1, <1>6, <1>7
    <3>2. QED
      BY <2>1, <3>1 DEF IInv, RestsOnCaught, Paired
  <2>2. CASE i \notin DOMAIN confirmed
    <3>1. confirmed'[i].events = Merge(c.events, failures)
      BY <2>2, <1>1, <1>6, <1>7
    <3>2. QED
      BY <3>1, <1>1, <1>9
  <2>3. QED
    BY <2>1, <2>2
<1>11. \A d \in candidates' : Caught(d.events) \/ Seeded(d.events)
  BY <1>1 DEF Fresh, IInv, RestsOnCaught
<1>12. QED
  BY <1>2, <1>5, <1>8, <1>10, <1>11, ObservingType, Recorded DEF IInv

LEMMA NewCandidateIInv ==
    ASSUME IInv, NewCandidate
    PROVE  IInv'
<1>1. /\ Observing /\ UNCHANGED confirmed
      /\ candidates' = Fresh \cup {Candidate(failures)}
  BY DEF NewCandidate
<1>2. failures \in EventSets
  BY <1>1 DEF Observing, IInv, TypeOK
<1>3. candidates' \subseteq [events : EventSets, age : 0 .. CandidateMaxAge + 1]
  BY <1>1, <1>2, CandidateType DEF Fresh, IInv, TypeOK
<1>4. confirmed' \in Seq([events : EventSets, probe : BOOLEAN])
  BY <1>1 DEF IInv, TypeOK
<1>5. \A d \in candidates' : Caught(d.events) \/ Seeded(d.events)
  BY <1>1 DEF Fresh, Candidate, IInv, RestsOnCaught
<1>6. \A i \in DOMAIN confirmed' :
        /\ Caught(confirmed'[i].events)
        /\ Cardinality(Members(confirmed'[i].events)) >= 2
  BY <1>1 DEF IInv, RestsOnCaught, Paired
<1>7. QED
  BY <1>1, <1>3, <1>4, <1>5, <1>6, ObservingType, Recorded DEF IInv

LEMMA SeedPassiveIInv ==
    ASSUME IInv, SeedPassive
    PROVE  IInv'
<1>1. /\ UNCHANGED <<confirmed, passes, auth, parked, quiet, caught, audits>>
      /\ phase' = "start" /\ covered' = {} /\ regimeFailed' = {}
      /\ failures' = {} /\ stressed' = {}
  BY DEF SeedPassive, EndCycle, leaf
<1>2. candidates' \subseteq [events : EventSets, age : 0 .. CandidateMaxAge + 1]
  <2>1. CASE Cardinality(stressed) < 2
    BY <2>1 DEF SeedPassive, IInv, TypeOK
  <2>2. CASE ~(Cardinality(stressed) < 2)
    <3>1. stressed # {}
      BY <2>2, FS_EmptySet
    <3>2. SeedEvents \in EventSets
      <4>1. audits \in [Vars -> 0 .. Mature] /\ stressed \in SUBSET Vars
        BY DEF IInv, TypeOK
      <4>2. SeedEvents = {} \/ SeedEvents \in EventSets
        BY <4>1, EventsType DEF SeedEvents
      <4>3. SeedEvents # {}
        BY <3>1 DEF SeedEvents
      <4>4. QED
        BY <4>2, <4>3
    <3>3. candidates' = Fresh \cup {Candidate(SeedEvents)}
      BY <2>2 DEF SeedPassive
    <3>4. QED
      BY <3>2, <3>3, CandidateType DEF Fresh, IInv, TypeOK
  <2>3. QED
    BY <2>1, <2>2
<1>3. TypeOK'
  BY <1>1, <1>2 DEF IInv, TypeOK
<1>4. \A d \in candidates' : Caught(d.events) \/ Seeded(d.events)
  <2>1. Seeded(SeedEvents)
    BY DEF Seeded, SeedEvents
  <2>2. QED
    BY <2>1 DEF SeedPassive, Fresh, Candidate, IInv, RestsOnCaught
<1>5. RestsOnCaught' /\ Paired' /\ NeverParked'
  BY <1>1, <1>4 DEF IInv, RestsOnCaught, Caught, Seeded, Paired, NeverParked, Members
<1>6. QED
  BY <1>3, <1>5 DEF IInv

\* The inductive invariant holds throughout every run of the register.
THEOREM Invariance == Spec => []IInv
<1>1. Init => IInv
  BY InitIInv
<1>2. IInv /\ [Next]_vars => IInv'
  <2> SUFFICES ASSUME IInv, [Next]_vars PROVE IInv'
    OBVIOUS
  <2>1. CASE CheckSentinels
    BY <2>1, CheckSentinelsIInv
  <2>2. CASE FirstPass
    BY <2>2, FirstPassIInv
  <2>3. CASE AuditPass
    BY <2>3, AuditPassIInv
  <2>4. CASE NoFailures
    BY <2>4, NoFailuresIInv
  <2>5. CASE Recur
    BY <2>5, RecurIInv
  <2>6. CASE JoinSingle
    BY <2>6, JoinSingleIInv
  <2>7. CASE Confirm
    BY <2>7, ConfirmIInv
  <2>8. CASE NewCandidate
    BY <2>8, NewCandidateIInv
  <2>9. CASE SeedPassive
    BY <2>9, SeedPassiveIInv
  <2>10. CASE UNCHANGED vars
    <3>1. TypeOK' /\ UNCHANGED <<confirmed, candidates, caught, parked, regimeFailed, failures>>
      BY <2>10 DEF vars, register, leaf, pass, IInv, TypeOK
    <3>2. QED
      BY <3>1, Unrecorded DEF IInv
  <2>11. QED
    BY <2>1, <2>2, <2>3, <2>4, <2>5, <2>6, <2>7, <2>8, <2>9, <2>10 DEF Next
<1>3. QED
  BY <1>1, <1>2, PTL DEF Spec

\* Every variable of the register keeps its type; merging keeps one age per key.
THEOREM TypeCorrect == Spec => []TypeOK
<1>1. IInv => TypeOK
  BY DEF IInv
<1>2. QED
  BY <1>1, Invariance, PTL

\* The parking path of run_cycle is dead, whatever fails and is probed when.
THEOREM ParkingUnreachable == Spec => []NeverParked
<1>1. IInv => NeverParked
  BY DEF IInv
<1>2. QED
  BY <1>1, Invariance, PTL

\* Passive stress confirms nothing: a confirmed regime has two members, and all
\* of its events are failures.
THEOREM ConfirmationSound == Spec => []ConfirmedByFailures
<1>1. IInv => ConfirmedByFailures
  BY DEF IInv, RestsOnCaught, Caught, Paired, ConfirmedByFailures
<1>2. QED
  BY <1>1, Invariance, PTL

-----------------------------------------------------------------------------
(* The candidates, counted by age                                          *)

Pool == [events : EventSets, age : 0 .. CandidateMaxAge + 1]
AgedIn(S, k) == {c \in S : c.age = k}

\* The candidates of this very cycle: at most one of its failures and, after it,
\* one of its passive stress.
Newest == IF phase = "start" THEN 2 ELSE IF phase = "seed" THEN 1 ELSE 0

\* Two candidates at most of every age that is not pruned.  Quiet cycles prune
\* nothing and let the oldest pile up, but they add none either; the cycle that
\* adds one drops them first.
AgesSpread ==
    /\ IsFiniteSet(candidates)
    /\ Cardinality(AgedIn(candidates, 0)) <= Newest
    /\ \A k \in 0 .. CandidateMaxAge : Cardinality(AgedIn(candidates, k)) <= 2

CInv == AgesSpread /\ CandidatesBounded

LEMMA SetInduction ==
    ASSUME NEW S, 0 \in S, \A n \in Nat : n \in S => n + 1 \in S
    PROVE  Nat \subseteq S
<1> SUFFICES ASSUME Nat \ S # {} PROVE FALSE
  OBVIOUS
<1> DEFINE R == OpToRel(<, Nat)
           T == Nat \ S
<1>1. IsWellFoundedOn(R, Nat)
  BY NatLessThanWellFounded
<1>2. T \subseteq Nat /\ T # {}
  OBVIOUS
<1>3. \E x \in T : \A y \in T : ~(<<y, x>> \in R)
  <2> HIDE DEF R, T
  <2> QED
    BY <1>1, <1>2, WFMin
<1>4. PICK x \in T : \A y \in T : ~(<<y, x>> \in R)
  BY <1>3
<1>5. x \in Nat /\ x # 0 /\ x - 1 \in Nat
  OBVIOUS
<1>6. x - 1 \notin T
  <2>1. x - 1 < x
    BY <1>5
  <2>2. <<x - 1, x>> \in R
    BY <1>5, <2>1 DEF OpToRel
  <2> QED
    BY <1>4, <2>2
<1>7. (x - 1) + 1 \in S
  BY <1>5, <1>6
<1> QED
  BY <1>5, <1>7

\* A finite set with at most two members of each age up to n has 2 * (n + 1)
\* members at most.
LEMMA TwoPerAge ==
    ASSUME NEW n \in Nat, NEW S, IsFiniteSet(S), \A c \in S : c.age \in 0 .. n,
           \A k \in 0 .. n : Cardinality(AgedIn(S, k)) <= 2
    PROVE  Cardinality(S) <= 2 * (n + 1)
<1> DEFINE Upto(k) == {c \in S : c.age <= k}
           Good == {k \in Nat : k <= n => Cardinality(Upto(k)) <= 2 * (k + 1)}
<1>1. \A k \in Nat : IsFiniteSet(Upto(k)) /\ Cardinality(Upto(k)) \in Nat
  BY FS_Subset, FS_CardinalityType
<1>2. \A k \in Nat : /\ IsFiniteSet(AgedIn(S, k)) /\ Cardinality(AgedIn(S, k)) \in Nat
  BY FS_Subset, FS_CardinalityType DEF AgedIn
<1>3. 0 \in Good
  <2>1. Upto(0) = AgedIn(S, 0)
    BY DEF AgedIn
  <2> QED
    BY <2>1
<1>4. ASSUME NEW k \in Nat, k \in Good PROVE k + 1 \in Good
  <2> SUFFICES ASSUME k + 1 <= n PROVE Cardinality(Upto(k + 1)) <= 2 * ((k + 1) + 1)
    <3>1. k + 1 \in Nat
      OBVIOUS
    <3> HIDE DEF Upto
    <3> QED
      BY <3>1
  <2>1. Upto(k + 1) = Upto(k) \cup AgedIn(S, k + 1)
    BY DEF AgedIn
  <2>2. Cardinality(AgedIn(S, k + 1)) <= 2 /\ Cardinality(Upto(k)) <= 2 * (k + 1)
    BY <1>4
  <2> DEFINE U == Upto(k)
             V == AgedIn(S, k + 1)
  <2>3. /\ IsFiniteSet(U) /\ IsFiniteSet(V)
        /\ Cardinality(U) \in Nat /\ Cardinality(V) \in Nat
    BY <1>1, <1>2
  <2>4. /\ Cardinality(U \cup V) = Cardinality(U) + Cardinality(V) - Cardinality(U \cap V)
        /\ Cardinality(U \cap V) \in Nat
    <3> HIDE DEF U, V
    <3>1. Cardinality(U \cup V) = Cardinality(U) + Cardinality(V) - Cardinality(U \cap V)
      BY <2>3, FS_Union
    <3>2. IsFiniteSet(U \cap V)
      BY <2>3, FS_Subset
    <3> QED
      BY <3>1, <3>2, FS_CardinalityType
  <2> HIDE DEF U, V
  <2>5. Cardinality(U \cup V) <= 2 * ((k + 1) + 1)
    <3>1. Cardinality(U) <= 2 * (k + 1) /\ Cardinality(V) <= 2
      BY <2>2 DEF U, V
    <3> QED
      BY <2>3, <2>4, <3>1
  <2> QED
    BY <2>1, <2>5 DEF U, V
<1>5. n \in Good
  <2> HIDE DEF Good
  <2> QED
    BY <1>3, <1>4, SetInduction
<1>6. Upto(n) = S
  OBVIOUS
<1> QED
  BY <1>5, <1>6

\* A cycle ages every candidate by one.
Older(c) == [c EXCEPT !.age = Bump(@, CandidateMaxAge + 1)]

LEMMA OlderFacts ==
    ASSUME NEW c \in Pool
    PROVE  /\ Older(c).age >= 1
           /\ \A k \in 1 .. CandidateMaxAge : Older(c).age = k => c.age = k - 1
BY RegimeAssumption DEF RegimeAssumption, Pool, Older, Bump, UpTo

\* An image is no larger: the instance of FS_Surjection for a set of images.
LEMMA ImageSmaller ==
    ASSUME NEW S, IsFiniteSet(S), NEW T, NEW f \in [S -> T], T = {f[x] : x \in S}
    PROVE  IsFiniteSet(T) /\ Cardinality(T) \in Nat /\ Cardinality(T) <= Cardinality(S)
<1>1. f \in Surjection(S, T)
  BY DEF Surjection
<1>2. IsFiniteSet(T) /\ Cardinality(T) <= Cardinality(S)
  BY <1>1, FS_Surjection
<1> QED
  BY <1>2, FS_CardinalityType

LEMMA CheckSentinelsAges ==
    ASSUME IInv, CInv, CheckSentinels
    PROVE  CInv'
<1>1. /\ candidates \subseteq Pool /\ IsFiniteSet(candidates)
      /\ CandidateMaxAge \in Nat
      /\ Cardinality(candidates) <= 2 * (CandidateMaxAge + 1)
  BY RegimeAssumption
     DEF RegimeAssumption, IInv, TypeOK, Pool, CInv, AgesSpread, CandidatesBounded
<1>2. phase' = "first" /\ candidates' = {Older(c) : c \in candidates}
  BY DEF CheckSentinels, Older
<1>3. \A S \in SUBSET candidates :
        LET T == {Older(c) : c \in S} IN
        IsFiniteSet(T) /\ Cardinality(T) \in Nat /\ Cardinality(T) <= Cardinality(S)
  <2> TAKE S \in SUBSET candidates
  <2> DEFINE f == [c \in S |-> Older(c)]
             T == {Older(c) : c \in S}
  <2>1. IsFiniteSet(S)
    BY <1>1, FS_Subset
  <2>2. T = {f[x] : x \in S} /\ f \in [S -> T]
    OBVIOUS
  <2> HIDE DEF f, T
  <2>3. IsFiniteSet(T) /\ Cardinality(T) \in Nat /\ Cardinality(T) <= Cardinality(S)
    BY <2>1, <2>2, ImageSmaller
  <2> QED
    BY <2>3 DEF T
<1>4. /\ IsFiniteSet(candidates') /\ Cardinality(candidates') \in Nat
      /\ Cardinality(candidates') <= Cardinality(candidates)
  BY <1>2, <1>3
<1>5. Cardinality(AgedIn(candidates', 0)) = 0
  <2>1. AgedIn(candidates', 0) = {}
    BY <1>1, <1>2, OlderFacts DEF AgedIn
  <2> QED
    BY <2>1, FS_EmptySet
<1>6. ASSUME NEW k \in 0 .. CandidateMaxAge
      PROVE  Cardinality(AgedIn(candidates', k)) <= 2
  <2>1. CASE k = 0
    BY <1>5, <2>1
  <2>2. CASE k # 0
    <3>1. k - 1 \in 0 .. CandidateMaxAge /\ k \in 1 .. CandidateMaxAge
      BY <1>1, <2>2
    <3> DEFINE S == AgedIn(candidates, k - 1)
               T == {Older(c) : c \in S}
    <3>2. S \in SUBSET candidates
      BY DEF AgedIn
    <3>3. Cardinality(S) <= 2
      BY <3>1 DEF CInv, AgesSpread
    <3>4. AgedIn(candidates', k) \subseteq T
      <4> SUFFICES ASSUME NEW c \in candidates, Older(c).age = k
                   PROVE  c \in S
        BY <1>2 DEF AgedIn
      <4>1. c.age = k - 1
        BY <1>1, <3>1, OlderFacts
      <4> QED
        BY <4>1 DEF AgedIn
    <3>5. IsFiniteSet(T) /\ Cardinality(T) \in Nat /\ Cardinality(T) <= Cardinality(S)
      BY <1>3, <3>2
    <3>6. IsFiniteSet(S) /\ Cardinality(S) \in Nat
      BY <1>1, <3>2, FS_Subset, FS_CardinalityType
    <3> HIDE DEF S, T
    <3>7. /\ IsFiniteSet(AgedIn(candidates', k))
          /\ Cardinality(AgedIn(candidates', k)) <= Cardinality(T)
      BY <3>4, <3>5, FS_Subset
    <3>8. Cardinality(AgedIn(candidates', k)) \in Nat
      BY <3>7, FS_CardinalityType
    <3> QED
      BY <3>3, <3>5, <3>6, <3>7, <3>8
  <2> QED
    BY <2>1, <2>2
<1>7. Cardinality(candidates) \in Nat
  BY <1>1, FS_CardinalityType
<1>8. CandidatesBounded'
  BY <1>1, <1>4, <1>7 DEF CandidatesBounded
<1>9. Newest' = 0
  BY <1>2 DEF Newest
<1> QED
  BY <1>4, <1>5, <1>6, <1>8, <1>9 DEF CInv, AgesSpread

\* The candidates stay, or some go: the counts can only fall.
LEMMA FewerAges ==
    ASSUME CInv, candidates' \subseteq candidates,
           Newest' \in Nat, Newest' >= Newest
    PROVE  CInv'
<1>1. IsFiniteSet(candidates) /\ CandidateMaxAge \in Nat /\ Newest \in Nat
  BY RegimeAssumption DEF RegimeAssumption, CInv, AgesSpread, Newest
<1>2. /\ IsFiniteSet(candidates') /\ Cardinality(candidates') <= Cardinality(candidates)
      /\ Cardinality(candidates') \in Nat /\ Cardinality(candidates) \in Nat
  BY <1>1, FS_Subset, FS_CardinalityType
<1>3. ASSUME NEW k \in 0 .. CandidateMaxAge
      PROVE  /\ Cardinality(AgedIn(candidates', k)) <= Cardinality(AgedIn(candidates, k))
             /\ Cardinality(AgedIn(candidates', k)) \in Nat
             /\ Cardinality(AgedIn(candidates, k)) \in Nat
  <2> DEFINE S == AgedIn(candidates, k)
             T == AgedIn(candidates', k)
  <2>1. IsFiniteSet(S) /\ T \subseteq S
    BY <1>1, FS_Subset DEF AgedIn
  <2> HIDE DEF S, T
  <2>2. /\ IsFiniteSet(T) /\ Cardinality(T) <= Cardinality(S)
        /\ Cardinality(T) \in Nat /\ Cardinality(S) \in Nat
    BY <2>1, FS_Subset, FS_CardinalityType
  <2> QED
    BY <2>2 DEF S, T
<1>4. /\ Cardinality(AgedIn(candidates, 0)) <= Newest
      /\ \A k \in 0 .. CandidateMaxAge : Cardinality(AgedIn(candidates, k)) <= 2
      /\ Cardinality(candidates) <= 2 * (CandidateMaxAge + 1)
  BY DEF CInv, AgesSpread, CandidatesBounded
<1>5. Cardinality(AgedIn(candidates', 0)) <= Newest'
  <2>1. 0 \in 0 .. CandidateMaxAge
    BY <1>1
  <2> QED
    BY <1>1, <1>3, <1>4, <2>1
<1>6. \A k \in 0 .. CandidateMaxAge : Cardinality(AgedIn(candidates', k)) <= 2
  <2> TAKE k \in 0 .. CandidateMaxAge
  <2> QED
    BY <1>3, <1>4
<1>7. CandidatesBounded'
  BY <1>1, <1>2, <1>4 DEF CandidatesBounded
<1> QED
  BY <1>2, <1>5, <1>6, <1>7 DEF CInv, AgesSpread

\* A step that drops the too old and adds one candidate.
LEMMA AddedAges ==
    ASSUME IInv, CInv, NEW Q \in SUBSET Fresh, NEW events \in EventSets,
           candidates' = Q \cup {Candidate(events)},
           Newest \in {0, 1}, Newest' = Newest + 1
    PROVE  CInv'
<1> DEFINE P == candidates
           R == candidates'
           new == Candidate(events)
<1>1. Newest \in {0, 1} /\ Newest' = Newest + 1
  OBVIOUS
<1>2. /\ P \in SUBSET Pool /\ IsFiniteSet(P)
      /\ Cardinality(AgedIn(P, 0)) <= Newest
      /\ \A k \in 0 .. CandidateMaxAge : Cardinality(AgedIn(P, k)) <= 2
  BY DEF IInv, TypeOK, Pool, CInv, AgesSpread
<1>3. new \in Pool /\ new.age = 0
  BY CandidateType DEF Pool, Candidate
<1>4. R = Q \cup {new} /\ Q \in SUBSET P /\ \A c \in Q : c.age <= CandidateMaxAge
  BY DEF Fresh
<1> HIDE DEF P, R, new
<1>5. CandidateMaxAge \in Nat
  BY RegimeAssumption DEF RegimeAssumption
<1>6. IsFiniteSet(R)
  BY <1>2, <1>4, FS_Subset, FS_AddElement
<1>7. \A c \in R : c.age \in 0 .. CandidateMaxAge
  BY <1>2, <1>3, <1>4, <1>5 DEF Pool
<1>8. Cardinality(AgedIn(R, 0)) <= Newest + 1
  <2> DEFINE U == AgedIn(P, 0)
             V == AgedIn(R, 0)
  <2>1. IsFiniteSet(U) /\ Cardinality(U) \in Nat
    BY <1>2, FS_Subset, FS_CardinalityType DEF AgedIn
  <2>2. V \subseteq U \cup {new}
    BY <1>4 DEF AgedIn
  <2>3. Cardinality(U) <= Newest
    BY <1>2
  <2> HIDE DEF U, V
  <2>4. IsFiniteSet(U \cup {new}) /\ Cardinality(U \cup {new}) <= Cardinality(U) + 1
    <3>1. /\ IsFiniteSet(U \cup {new})
          /\ \/ Cardinality(U \cup {new}) = Cardinality(U)
             \/ Cardinality(U \cup {new}) = Cardinality(U) + 1
      BY <2>1, FS_AddElement
    <3> QED
      BY <2>1, <3>1
  <2>5. IsFiniteSet(V) /\ Cardinality(V) <= Cardinality(U \cup {new})
    BY <2>2, <2>4, FS_Subset
  <2>6. Cardinality(V) \in Nat /\ Cardinality(U \cup {new}) \in Nat
    BY <2>4, <2>5, FS_CardinalityType
  <2>7. Cardinality(V) <= Newest + 1
    BY <1>1, <2>1, <2>3, <2>4, <2>5, <2>6
  <2> QED
    BY <2>7 DEF V
<1>9. ASSUME NEW k \in 0 .. CandidateMaxAge
      PROVE  Cardinality(AgedIn(R, k)) <= 2
  <2>1. CASE k = 0
    <3>1. IsFiniteSet(AgedIn(R, 0)) /\ Cardinality(AgedIn(R, 0)) \in Nat
      BY <1>6, FS_Subset, FS_CardinalityType DEF AgedIn
    <3> QED
      BY <1>1, <1>8, <2>1, <3>1
  <2>2. CASE k # 0
    <3>1. AgedIn(R, k) \subseteq AgedIn(P, k)
      BY <1>3, <1>4, <2>2 DEF AgedIn
    <3>2. IsFiniteSet(AgedIn(P, k))
      BY <1>2, FS_Subset DEF AgedIn
    <3>3. Cardinality(AgedIn(R, k)) <= Cardinality(AgedIn(P, k)) /\ IsFiniteSet(AgedIn(R, k))
      BY <3>1, <3>2, FS_Subset
    <3>4. Cardinality(AgedIn(R, k)) \in Nat /\ Cardinality(AgedIn(P, k)) \in Nat
      BY <3>2, <3>3, FS_CardinalityType
    <3> QED
      BY <1>2, <1>5, <3>3, <3>4
  <2> QED
    BY <2>1, <2>2
<1>10. Cardinality(R) <= 2 * (CandidateMaxAge + 1)
  BY <1>5, <1>6, <1>7, <1>9, TwoPerAge
<1> QED
  BY <1>1, <1>6, <1>8, <1>9, <1>10 DEF CInv, AgesSpread, CandidatesBounded, R

LEMMA StepAges == IInv /\ CInv /\ [Next]_vars => CInv'
<1> SUFFICES ASSUME IInv, CInv, [Next]_vars PROVE CInv'
  OBVIOUS
<1>1. Newest \in Nat /\ Newest' \in Nat
  BY DEF Newest
<1>2. CASE CheckSentinels
  BY <1>2, CheckSentinelsAges
<1>3. CASE FirstPass
  BY <1>1, <1>3, FewerAges DEF FirstPass, register, Newest
<1>4. CASE AuditPass
  BY <1>1, <1>4, FewerAges DEF AuditPass, register, Newest
<1>5. CASE NoFailures
  BY <1>1, <1>5, FewerAges DEF NoFailures, register, Newest
<1>6. CASE Recur
  BY <1>1, <1>6, FewerAges DEF Recur, Observing, Fresh, Newest
<1>7. CASE Confirm
  BY <1>1, <1>7, FewerAges DEF Confirm, Observing, Fresh, Newest
<1>8. ASSUME Observing PROVE failures \in EventSets /\ phase = "observe" /\ phase' = "seed"
  BY <1>8 DEF Observing, IInv, TypeOK
<1>9. CASE JoinSingle
  <2>1. PICK c \in Fresh : candidates' = (Fresh \ {c}) \cup {Candidate(Merge(c.events, failures))}
    BY <1>9 DEF JoinSingle
  <2>2. c.events \in EventSets
    BY DEF Fresh, IInv, TypeOK
  <2>3. Merge(c.events, failures) \in EventSets
    BY <1>8, <1>9, <2>2, MergeType DEF JoinSingle
  <2>4. Fresh \ {c} \in SUBSET Fresh /\ Newest \in {0, 1} /\ Newest' = Newest + 1
    BY <1>8, <1>9 DEF JoinSingle, Newest
  <2> QED
    BY <2>1, <2>3, <2>4, AddedAges
<1>10. CASE NewCandidate
  <2>1. /\ candidates' = Fresh \cup {Candidate(failures)}
        /\ failures \in EventSets
        /\ Newest \in {0, 1} /\ Newest' = Newest + 1
    BY <1>8, <1>10 DEF NewCandidate, Newest
  <2> QED
    BY <2>1, AddedAges
<1>11. CASE SeedPassive
  <2>1. phase = "seed" /\ phase' = "start"
    BY <1>11 DEF SeedPassive, EndCycle
  <2>2. CASE Cardinality(stressed) < 2
    BY <1>1, <1>11, <2>1, <2>2, FewerAges DEF SeedPassive, Newest
  <2>3. CASE ~(Cardinality(stressed) < 2)
    <3>1. SeedEvents \in EventSets
      <4>1. audits \in [Vars -> 0 .. Mature] /\ stressed \in SUBSET Vars
        BY DEF IInv, TypeOK
      <4>2. SeedEvents = {} \/ SeedEvents \in EventSets
        BY <4>1, EventsType DEF SeedEvents
      <4>3. stressed # {}
        BY <2>3, FS_EmptySet
      <4>4. SeedEvents # {}
        BY <4>3 DEF SeedEvents
      <4> QED
        BY <4>2, <4>4
    <3>2. candidates' = Fresh \cup {Candidate(SeedEvents)}
      BY <1>11, <2>3 DEF SeedPassive
    <3>3. Newest \in {0, 1} /\ Newest' = Newest + 1
      BY <2>1 DEF Newest
    <3> QED
      BY <3>1, <3>2, <3>3, AddedAges
  <2> QED
    BY <2>2, <2>3
<1>12. CASE UNCHANGED vars
  BY <1>1, <1>12, FewerAges DEF vars, register, Newest
<1> QED
  BY <1>2, <1>3, <1>4, <1>5, <1>6, <1>7, <1>9, <1>10, <1>11, <1>12 DEF Next

\* For any age limit and any number of variables, the candidates never outgrow
\* twice the ages: quiet cycles, which prune nothing, cannot make the pool grow
\* (observe and tick in regime.py).
THEOREM CandidatesStayBounded == Spec => []CandidatesBounded
<1>1. Init => CInv
  <2> SUFFICES ASSUME Init PROVE CInv
    OBVIOUS
  <2>1. candidates = {} /\ phase = "start" /\ CandidateMaxAge \in Nat
    BY RegimeAssumption DEF Init, RegimeAssumption
  <2>2. \A k : AgedIn(candidates, k) = {}
    BY <2>1 DEF AgedIn
  <2> QED
    BY <2>1, <2>2, FS_EmptySet DEF CInv, AgesSpread, CandidatesBounded, Newest
<1>2. CInv => CandidatesBounded
  BY DEF CInv
<1> QED
  BY <1>1, <1>2, StepAges, Invariance, PTL DEF Spec
=============================================================================
