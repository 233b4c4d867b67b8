------------------------------- MODULE Regime -------------------------------
(***************************************************************************)
(* The regime register (dreth/regime.py) and its use in run_cycle: the     *)
(* failures of one cycle are matched against earlier ones, a pattern that  *)
(* comes back becomes a confirmed regime, a confirmed regime may get a     *)
(* probe, and while its probe passes the leaf sentinels of its members are *)
(* not run.  A variable that has long been quiet under a regime is parked. *)
(*                                                                         *)
(* The rest of the agent appears as choices: which variables may be        *)
(* skipped on their sentinels, which sentinels fail, what is audited.      *)
(* "repaired" events are left out: matching ignores them, and a repaired   *)
(* variable has a "failed" event in the same list.                         *)
(***************************************************************************)
EXTENDS Naturals, Sequences, FiniteSetsExt

CONSTANTS
    Vars,              \* the variables, all visible
    Mature,            \* audits that give an event full weight (10 in _weight)
    SimNum, SimDen,    \* similarity_threshold, as a fraction
    CandidateMaxAge,   \* candidate_max_age
    ParkWindow,        \* _PARK_W
    ParkPasses,        \* _PARK_K
    MaxRegimes         \* bound: no more regimes are confirmed than this

ASSUME RegimeAssumption ==
    /\ IsFiniteSet(Vars)
    /\ {Mature, SimNum, SimDen} \subseteq Nat \ {0}
    /\ SimNum <= SimDen
    /\ {CandidateMaxAge, ParkWindow, ParkPasses, MaxRegimes} \subseteq Nat

VARIABLES
    confirmed,    \* _confirmed: event set, and whether a probe is installed
    candidates,   \* _candidates: event sets and their ages
    passes,       \* _regime_sentinel_passes, up to ParkPasses
    auth,         \* the variables with authoritative set
    parked,       \* the variables with parked set
    quiet,        \* cycles_since_unique_failure, up to ParkWindow
    caught,       \* the variables with unique_failures_caught > 0
    audits,       \* full_audits, up to Mature
    phase,        \* where run_cycle stands
    covered,      \* regime_stable: members of the regimes that passed
    regimeFailed, \* members of the regimes whose probe failed
    failures,     \* _cert_events: the failed events of the cycle
    stressed      \* _passive_stressed_vars

leaf == <<auth, parked, quiet, caught, audits>>
register == <<confirmed, candidates>>
pass == <<covered, regimeFailed>>
vars == <<register, passes, leaf, phase, pass, failures, stressed>>

-----------------------------------------------------------------------------
(* Events and their similarity                                             *)

Event == [var : Vars, type : {"failed", "stressed"}, age : 0 .. Mature]

SameKey(e, f) == e.var = f.var /\ e.type = f.type

\* In units of 1/Mature: max(min(cert_age / 10, 1), 0.1).
Weight(e) == IF e.age = 0 THEN 1 ELSE e.age

Members(events) == {e.var : e \in events}
Only(events, types) == {e \in events : e.type \in types}

WeightIn(events, key) ==
    LET same == {e \in events : SameKey(e, key)}
    IN IF same = {} THEN 0 ELSE Max({Weight(e) : e \in same})

Keys(events) == {[var |-> e.var, type |-> e.type] : e \in events}

\* _jaccard as a fraction <<intersection, union>>.  A key of only one of the
\* two adds nothing to the intersection.
Similarity(a, b) ==
    LET shared == Keys(a) \cap Keys(b)
        Less(k) == Min({WeightIn(a, k), WeightIn(b, k)})
        More(k) == Max({WeightIn(a, k), WeightIn(b, k)})
    IN IF shared = {} THEN <<0, 1>>
       ELSE <<MapThenSumSet(Less, shared), MapThenSumSet(More, Keys(a) \cup Keys(b))>>

AtLeast(s, t) == s[1] * t[2] >= t[1] * s[2]

\* _best_match: one of the event sets of the pool that is nearest to events,
\* if near enough.  (The code takes the first of several equally near.)
Closest(events, pool, types, best) ==
    LET sim(other) == Similarity(Only(events, types), Only(other, types))
    IN /\ best \in pool
       /\ AtLeast(sim(best), <<SimNum, SimDen>>)
       /\ \A other \in pool : AtLeast(sim(best), sim(other))

MergeUnion(a, b) == a \cup b

\* _merge_events: on a collision the event of the greater age stays.
Merge(a, b) ==
    {e \in a : \A f \in b : SameKey(e, f) => e.age >= f.age} \cup
    {f \in b : \A e \in a : SameKey(e, f) => f.age > e.age}

-----------------------------------------------------------------------------
Init ==
    /\ confirmed = <<>> /\ candidates = {} /\ passes = 0
    /\ auth = {} /\ parked = {} /\ caught = {}
    /\ quiet = [v \in Vars |-> 0] /\ audits = [v \in Vars |-> 0]
    /\ phase = "start" /\ covered = {} /\ regimeFailed = {}
    /\ failures = {} /\ stressed = {}

\* Saturating counters: they are only compared with thresholds up to cap.
UpTo(count, cap) == IF count < cap THEN count ELSE cap
Bump(count, cap) == UpTo(count + 1, cap)

Probed == {i \in DOMAIN confirmed : confirmed[i].probe}
MembersOf(regimes) == UNION {Members(confirmed[i].events) : i \in regimes}

\* The start of a cycle.  Composites may revoke their members' certificates;
\* then check_sentinels replays the probe of each regime that has one.
CheckSentinels ==
    /\ phase = "start"
    /\ \E revoked \in SUBSET (auth \cup parked) :
        /\ auth' = auth \ revoked
        /\ parked' = parked \ revoked
    /\ \E ok \in SUBSET Probed :
        /\ passes' = UpTo(passes + Cardinality(ok), ParkPasses)
        /\ covered' = MembersOf(ok)
        /\ regimeFailed' = MembersOf(Probed \ ok)
    /\ quiet' = [v \in Vars |-> Bump(quiet[v], ParkWindow)]
    /\ candidates' = {[c EXCEPT !.age = Bump(@, CandidateMaxAge + 1)] : c \in candidates}
    /\ phase' = "first"
    /\ UNCHANGED <<confirmed, caught, audits, failures, stressed>>

\* Covered by a regime with a probe: covered_by_regime_id is the first regime v
\* is a member of.
UnderProbe(v) ==
    \E i \in Probed :
        /\ v \in Members(confirmed[i].events)
        /\ \A j \in 1 .. i - 1 : v \notin Members(confirmed[j].events)

\* _maybe_park_var for an authoritative variable.
MayPark(v) ==
    /\ v \notin caught
    /\ quiet[v] >= ParkWindow
    /\ UnderProbe(v)
    /\ passes >= ParkPasses

\* The first pass.  Of the authoritative variables that no cheaper path
\* skipped (reached), the covered ones are skipped, and parked if they may
\* be.  The others are skipped too if their passive residual is inside the
\* envelope, or if they are parked and nothing wakes them (asleep).  The
\* leaf sentinels of the rest run, and fail for some.
FirstPass ==
    /\ phase = "first"
    /\ \E reached \in SUBSET auth, residual, failing \in SUBSET Vars,
          revalidate \in BOOLEAN :
        LET skipped == reached \cap covered
            rest    == reached \ covered
            asleep  == {v \in rest \cap parked :
                            v \notin regimeFailed \cup residual /\ ~revalidate}
        IN /\ residual \subseteq rest
           /\ failing \subseteq residual
           /\ parked' = (parked \ (rest \ asleep)) \cup {v \in skipped : MayPark(v)}
           /\ auth' = auth \ failing
           /\ caught' = caught \cup (failing \ regimeFailed)
           /\ quiet' = [v \in Vars |-> IF v \in failing \ regimeFailed THEN 0 ELSE quiet[v]]
           /\ failures' = {[var |-> v, type |-> "failed", age |-> audits[v]] : v \in failing}
           /\ stressed' = residual
    /\ phase' = "audit"
    /\ UNCHANGED <<register, passes, audits, pass>>

\* The audit pass: some variables without authority are audited and some of
\* those regain it; cascades take it from others, parked or not.
AuditPass ==
    /\ phase = "audit"
    /\ \E audited \in SUBSET (Vars \ auth), lost \in SUBSET auth :
        \E regained \in SUBSET audited :
            /\ audits' = [v \in Vars |->
                            IF v \in audited THEN Bump(audits[v], Mature) ELSE audits[v]]
            /\ auth' = (auth \ lost) \cup regained
    /\ phase' = "observe"
    /\ UNCHANGED <<register, passes, parked, quiet, caught, pass, failures, stressed>>

-----------------------------------------------------------------------------
(* observe() with the failures of the cycle                                *)

Patterns == {confirmed[i].events : i \in DOMAIN confirmed}

Recurs(i) ==
    /\ i \in DOMAIN confirmed
    /\ Closest(failures, Patterns, {"failed"}, confirmed[i].events)

Known == \E i \in DOMAIN confirmed : Recurs(i)

KeepStale == candidates

\* The candidates that are not pruned.
Fresh == {c \in candidates : c.age <= CandidateMaxAge}

Joins(events, c) ==
    /\ c \in Fresh
    /\ Closest(events, {d.events : d \in Fresh}, {"failed", "stressed"}, c.events)

Candidate(events) == [events |-> events, age |-> 0]

Observing ==
    /\ phase = "observe" /\ failures # {}
    /\ phase' = "seed"
    /\ UNCHANGED <<passes, leaf, pass, failures, stressed>>

NoFailures ==
    /\ phase = "observe" /\ failures = {}
    /\ phase' = "seed"
    /\ UNCHANGED <<register, passes, leaf, pass, failures, stressed>>

\* A confirmed regime recurs.
Recur ==
    /\ Observing
    /\ \E i \in DOMAIN confirmed :
        /\ Recurs(i)
        /\ confirmed' = [confirmed EXCEPT ![i].events = Merge(@, failures)]
    /\ candidates' = Fresh

\* A candidate recurs but is about one variable: it stays a candidate.
JoinSingle ==
    /\ Observing /\ ~Known
    /\ \E c \in Fresh :
        LET merged == Merge(c.events, failures)
        IN /\ Joins(failures, c)
           /\ Cardinality(Members(merged)) < 2
           /\ candidates' = (Fresh \ {c}) \cup {Candidate(merged)}
    /\ UNCHANGED confirmed

\* A candidate recurs and becomes a regime, for which a probe may be found
\* (_commission_regime_sentinel, tried only here).
Confirm ==
    /\ Observing /\ ~Known
    /\ Len(confirmed) < MaxRegimes
    /\ \E c \in Fresh, probe \in BOOLEAN :
        LET merged == Merge(c.events, failures)
        IN /\ Joins(failures, c)
           /\ Cardinality(Members(merged)) >= 2
           /\ candidates' = Fresh \ {c}
           /\ confirmed' = Append(confirmed, [events |-> merged, probe |-> probe])

NewCandidate ==
    /\ Observing /\ ~Known
    /\ ~ \E c \in Fresh : Joins(failures, c)
    /\ candidates' = Fresh \cup {Candidate(failures)}
    /\ UNCHANGED confirmed

SeedEvents == {[var |-> v, type |-> "stressed", age |-> audits[v]] : v \in stressed}

EndCycle ==
    /\ phase = "seed"
    /\ phase' = "start" /\ covered' = {} /\ regimeFailed' = {}
    /\ failures' = {} /\ stressed' = {}
    /\ UNCHANGED <<passes, leaf>>

SeedAlsoMatches ==
    /\ EndCycle
    /\ IF Cardinality(stressed) < 2 THEN UNCHANGED register
       ELSE IF \E c \in Fresh : Joins(SeedEvents, c)
       THEN \E c \in Fresh :
                /\ Joins(SeedEvents, c)
                /\ candidates' = Fresh \ {c}
                /\ confirmed' = Append(confirmed,
                        [events |-> Merge(c.events, SeedEvents), probe |-> TRUE])
       ELSE /\ candidates' = Fresh \cup {Candidate(SeedEvents)}
            /\ UNCHANGED confirmed

\* observe() with seed_only: two stressed variables make a candidate.
SeedPassive ==
    /\ EndCycle
    /\ candidates' = IF Cardinality(stressed) < 2 THEN candidates
                     ELSE Fresh \cup {Candidate(SeedEvents)}
    /\ UNCHANGED confirmed

Next ==
    \/ CheckSentinels \/ FirstPass \/ AuditPass
    \/ NoFailures \/ Recur \/ JoinSingle \/ Confirm \/ NewCandidate
    \/ SeedPassive

Spec == Init /\ [][Next]_vars

-----------------------------------------------------------------------------
(* Properties                                                              *)

OneAge(events) == \A e, f \in events : SameKey(e, f) => e = f

EventSets == {events \in SUBSET Event : events # {} /\ OneAge(events)}

\* Every variable has its type; an event set has one age for each key.
TypeOK ==
    /\ confirmed \in Seq([events : EventSets, probe : BOOLEAN])
    /\ candidates \subseteq [events : EventSets, age : 0 .. CandidateMaxAge + 1]
    /\ passes \in 0 .. ParkPasses
    /\ auth \subseteq Vars /\ parked \subseteq Vars /\ caught \subseteq Vars
    /\ quiet \in [Vars -> 0 .. ParkWindow]
    /\ audits \in [Vars -> 0 .. Mature]
    /\ phase \in {"start", "first", "audit", "observe", "seed"}
    /\ covered \subseteq Vars /\ regimeFailed \subseteq Vars /\ stressed \subseteq Vars
    /\ failures = {} \/ failures \in EventSets

\* No variable is ever parked (proved, see Regime_proofs), although each condition of _maybe_park_var is
\* common: a member of a regime failed its sentinel before it was a member, no
\* probe can have covered that failure, and one such failure bars it for ever.
\* So the parked skip, the wake-up and the revalidation of run_cycle are dead.
NeverParked == parked = {}

\* A confirmed regime, which may come to skip leaf sentinels, rests on active
\* failures alone: it has two members, and each of them failed its own sentinel.
ConfirmedByFailures ==
    \A i \in DOMAIN confirmed :
        /\ Cardinality(Members(confirmed[i].events)) >= 2
        /\ \A e \in confirmed[i].events : e.type = "failed"

\* The candidate list, which every observation compares with all of the cycle's
\* failures, stays bounded by the pruning although quiet cycles prune nothing.
CandidatesBounded == Cardinality(candidates) <= 2 * (CandidateMaxAge + 1)

-----------------------------------------------------------------------------
(* What the comments of the code say and the code does not do              *)

\* "A var earns parking when it is covered by a confirmed regime with an
\* active_sentinel, it has zero unique failures in the last _PARK_W cycles, the
\* covering regime's sentinel has passed at least _PARK_K times": where all of
\* this holds of an authoritative variable, _maybe_park_var parks it.
ParkingEarned ==
    \A v \in auth :
        quiet[v] >= ParkWindow /\ UnderProbe(v) /\ passes >= ParkPasses => MayPark(v)

\* A passively seeded candidate: "subsequent active failure events can then
\* match this candidate and promote it to confirmed" (run_cycle).  When the
\* very variables of a live seed fail together, the seed is taken up.
PassiveSeedConfirms ==
    [][phase = "observe" /\ phase' = "seed" /\ ~Known =>
        \A c \in Fresh :
            /\ \A e \in c.events : e.type = "stressed"
            /\ Members(c.events) = Members(failures)
            => Len(confirmed') > Len(confirmed)]_vars
=============================================================================
