---------------------------- MODULE ScaffoldLoop ----------------------------
(***************************************************************************)
(* Familiarity across runs: a batch of runs (batch_run.py) records what    *)
(* its agents learned, auto sleep turns what recurs into proposals, and    *)
(* later agents mine the proposals for expressions that may steer their    *)
(* audits.  A process may be killed while it appends to the store or       *)
(* rewrites the proposals.                                                 *)
(*                                                                         *)
(* A run either records roles or uses expressions, so that the two halves  *)
(* meet only in the files.  Runs of one batch load the same proposals and  *)
(* append when they end, so their order stands for their overlap.          *)
(***************************************************************************)
EXTENDS Naturals, Sequences, FiniteSets, SequencesExt,
        MemorySleep, NethraExpressions

CONSTANTS Vars,
          Fits,        \* [edges, func], the fits an agent may hold
          Pairs,       \* the pairs a composite may join
          RunIds,      \* schedule, size, cycles, seed and policy of a run
          Authorities, \* what authority strength may report of a run
          Givens,      \* the expression indexes a caller may pass
          Products,    \* the other proposal files a caller may name
          MaxRuns, MaxCycle, MaxNotes, MaxCredits \* bound a behaviour

ASSUME ScaffoldLoopAssumption ==
    /\ Vars \subseteq Nat /\ {MaxRuns, MaxCycle, MaxNotes, MaxCredits} \subseteq Nat
    /\ IsFiniteSet(RunIds)
    /\ \A rows \in Authorities \cup Products : rows \in Seq(ToSet(rows))
    /\ \A index \in Givens : \A k \in DOMAIN index :
           index[k] \in [vars : SUBSET Nat, right : DOMAIN UseRank, evidence : Nat]

VARIABLES store,  \* the memory store: its rows, and whether the last is torn
          file,   \* the proposals file
          phase,  \* what the batch is doing
          run,    \* the id of the run that goes on, in a set
          cycle,
          ix,     \* the agent's context role index
          loaded, \* the agent's proposals
          table,  \* its expressions
          pending, \* _pending_expression_assists: the credit due to each variable
          audit,  \* what its last audit left out
          runs, given, credits, witnessed \* runs started, the table passed, outcomes
                                          \* credited in the run, <<structure, run>> kept

batch   == <<store, file, phase, run, runs>>
roles   == <<cycle, ix>>
agent   == <<loaded, table, pending, audit, given, credits>>
vars    == <<batch, roles, agent, witnessed>>

NoAudit == [removed |-> {}, starved |-> FALSE]

Absent == [v \in Vars |-> NoCredit]

Init ==
    /\ store = [rows |-> <<>>, torn |-> FALSE] /\ file = <<>>
    /\ phase = "idle" /\ run = {} /\ runs = 0
    /\ cycle = 0 /\ ix = EmptyIndex
    /\ loaded = <<>> /\ table = <<>> /\ pending = Absent /\ audit = NoAudit
    /\ given = <<>> /\ credits = <<>> /\ witnessed = {}

-----------------------------------------------------------------------------
(* Runs that record roles                                                  *)

StartRoles(id) ==
    /\ phase = "idle" /\ runs + 1 < MaxRuns
    /\ phase' = "roles" /\ run' = {id} /\ runs' = runs + 1
    /\ cycle' = 0 /\ ix' = EmptyIndex
    /\ UNCHANGED <<store, file, agent, witnessed>>

Recording(next) ==
    /\ phase = "roles" /\ Len(ix.roles) < MaxNotes
    /\ ix' = next
    /\ UNCHANGED <<batch, cycle, agent, witnessed>>

\* _certify_operation_role, and the declared salience of a target.
Skip(v, fit, role) ==
    /\ v \notin fit.edges
    /\ Recording(RecordSkip(ix, v, fit, role, cycle))

\* _test_joint_trass_pairs: interaction found at the witness j.
Composite(pair, j, fit, allowed) ==
    /\ j \notin pair \cup fit.edges
    /\ Recording(RecordComposite(ix, pair, j, fit.edges, cycle, allowed))

\* _issue_route_certs
Route(p, v, fit, role, allowed) ==
    /\ p # v /\ v \notin fit.edges
    /\ Recording(RecordRoute(ix, p, v, fit, role, cycle, allowed))

\* A regime is confirmed once.
RegimeConfirmed(members) ==
    /\ \A n \in ToSet(ix.nodes) : n.kind # "regime_handle"
    /\ Recording(RecordRegime(ix, 0, members, cycle))

NextCycle ==
    /\ phase = "roles" /\ cycle < MaxCycle
    /\ cycle' = cycle + 1
    /\ UNCHANGED <<batch, ix, agent, witnessed>>

\* Lines appended after a torn one start on it: the first is lost with it.
Appended(rows, torn) ==
    [rows |-> store.rows \o (IF store.torn /\ rows # <<>> THEN Tail(rows) ELSE rows),
     torn |-> torn]

Structure(row) ==
    IF row.type = "context_role" THEN <<row.type, ContextKey(row.rec)>>
    ELSE <<row.type, AuthorityKey(row.rec)>>

\* The batch appends what a run exported, and the summary of the run; killed,
\* it leaves the first lines, perhaps the start of one more.
EndRoles(id, authority, torn) ==
    /\ phase = "roles" /\ run = {id}
    /\ LET rows  == RecordsOf(id, ExportRecords(ix).records, authority)
       IN  \E n \in 0 .. Len(rows) :
         LET whole == n = Len(rows) /\ ~torn
             kept  == SubSeq(rows, 1, n)
         IN
           /\ store' = IF whole /\ rows = <<>> THEN [store EXCEPT !.torn = FALSE]
                       ELSE Appended(kept, torn \/ (n = 0 /\ store.torn))
           /\ witnessed' = witnessed \cup {<<Structure(r), id>> : r \in ToSet(kept)}
           /\ phase' = IF whole THEN "ended" ELSE "idle"
    /\ run' = {} /\ cycle' = 0 /\ ix' = EmptyIndex
    /\ UNCHANGED <<file, runs, agent>>

\* A run that raised is reported, with no exports to append.
FailRoles ==
    /\ phase = "roles"
    /\ phase' = "ended" /\ store' = [store EXCEPT !.torn = FALSE]
    /\ run' = {} /\ cycle' = 0 /\ ix' = EmptyIndex
    /\ UNCHANGED <<file, runs, agent, witnessed>>

\* The next result of the same batch, or the end of a batch without sleep.
Continue ==
    /\ phase = "ended" /\ phase' = "idle"
    /\ UNCHANGED <<store, file, run, runs, roles, agent, witnessed>>

-----------------------------------------------------------------------------
(* Sleep                                                                   *)

CutRow == [whole |-> FALSE]

\* AutoSleepScheduler.run_sleep at the end of a batch; the file is rewritten
\* in place, so that a kill leaves its first lines.
Sleep(cut) ==
    /\ phase = "ended"
    /\ LET proposals == RunSleep(store.rows)
       IN  \E n \in 0 .. Len(proposals) :
             /\ cut => n < Len(proposals)
             /\ file' = SubSeq(proposals, 1, n) \o (IF cut THEN <<CutRow>> ELSE <<>>)
    /\ phase' = "idle"
    /\ UNCHANGED <<store, run, runs, roles, agent, witnessed>>

-----------------------------------------------------------------------------
(* Runs that use expressions                                               *)

\* The last run of a behaviour, for the sake of its length.
StartExpressions(index, rows) ==
    /\ phase = "idle" /\ runs < MaxRuns
    /\ phase' = "expressions" /\ runs' = MaxRuns
    /\ loaded' = LoadProposals(rows)
    /\ given' = index
    /\ table' = Loaded(index, LoadProposals(rows))
    /\ credits' = [k \in DOMAIN table' |-> 0]
    /\ pending' = Absent /\ audit' = NoAudit
    /\ UNCHANGED <<store, file, run, roles, witnessed>>

\* _full_audit_var.  The first audits, of initialize and of a revealed
\* variable, leave their credit to the next one, which run_cycle settles.
Audit(v, available, inCycle, improved) ==
    /\ phase = "expressions" /\ v \notin available /\ (improved => inCycle)
    /\ \A k \in DOMAIN credits : credits[k] < MaxCredits
    /\ LET keys   == IF ActiveIds(loaded, v) = {} THEN {}
                     ELSE Contributing(table, ActiveIds(loaded, v))
           searched == Narrowed(available, Covered(table, keys, {"hard_filter", "block"}))
       IN  \E credit \in Creditable(table, keys, searched) :
             LET due == IF credit = NoCredit THEN pending[v] ELSE credit
             IN  /\ audit' = [removed |-> available \ searched,
                             starved |-> available # {} /\ searched = {}]
                 /\ pending' = [pending EXCEPT ![v] = IF inCycle THEN NoCredit ELSE due]
                 /\ table' = IF inCycle THEN Outcome(table, due, improved) ELSE table
                 /\ credits' = IF inCycle /\ improved
                               THEN [k \in DOMAIN credits |->
                                        credits[k] + (IF k \in due THEN 1 ELSE 0)]
                               ELSE credits
    /\ UNCHANGED <<batch, roles, loaded, given, witnessed>>

\* The expressions of a run end with it.
EndExpressions ==
    /\ phase = "expressions" /\ phase' = "idle"
    /\ loaded' = <<>> /\ table' = <<>> /\ pending' = Absent /\ audit' = NoAudit
    /\ given' = <<>> /\ credits' = <<>>
    /\ UNCHANGED <<store, file, run, runs, roles, witnessed>>

-----------------------------------------------------------------------------
Record ==
    \E role \in {"tareth", "trass"}, v \in Vars, fit \in Fits, allowed \in BOOLEAN :
        \/ Skip(v, fit, role)
        \/ \E p \in Vars : Route(p, v, fit, role, allowed)
        \/ \E pair \in Pairs : Composite(pair, v, fit, allowed)
        \/ \E pair \in Pairs : RegimeConfirmed(pair)

Batch ==
    \/ \E id \in RunIds : StartRoles(id)
    \/ NextCycle
    \/ \E id \in run, authority \in Authorities, torn \in BOOLEAN : EndRoles(id, authority, torn)
    \/ FailRoles
    \/ Continue
    \/ \E cut \in BOOLEAN : Sleep(cut)

Steer ==
    \/ file # <<>> /\ StartExpressions(<<>>, file)
    \/ \E index \in Givens, rows \in Products : runs = 0 /\ StartExpressions(index, rows)
    \/ \E v \in Vars, inCycle, improved \in BOOLEAN :
           \E available \in SUBSET (Vars \ {v}) : Audit(v, available, inCycle, improved)
    \/ EndExpressions

Next == Record \/ Batch \/ Steer

Spec == Init /\ [][Next]_vars

-----------------------------------------------------------------------------
(* Properties                                                              *)

\* Every part of the state keeps its shape through kills and restarts.
TypeOK ==
    /\ phase \in {"idle", "roles", "ended", "expressions"}
    /\ run \subseteq RunIds /\ runs \in 0 .. MaxRuns /\ cycle \in 0 .. MaxCycle
    /\ \A v \in Vars : Cardinality({n \in ToSet(ix.nodes) : n.target = v}) <= NodesPerVar
    /\ \A row \in ToSet(store.rows) : row.run \in RunIds
    /\ \A k \in DOMAIN table : table[k].right \in DOMAIN UseRank
    /\ \A v \in Vars : pending[v] \subseteq DOMAIN table

\* Familiarity is earned by runs: what a proposal says it was seen in never
\* exceeds the different runs that left the structure in memory, however often
\* one run is repeated, recorded twice or cut short (memory_sleep.py).
FamiliarityEarned ==
    \A row \in {r \in ToSet(file) : r.whole} :
        LET type == IF row.kind = "context_role_recurrence"
                    THEN "context_role" ELSE "authority_strength"
            seenIn == {r \in RunIds : <<<<type, row.key>>, r>> \in witnessed}
        IN  /\ row.runs <= Cardinality(seenIn)
            /\ row.use = "clustering_prior" => Cardinality(seenIn) >= 2

\* Sleep grants no power: an audit loses candidates only to filters and blocks
\* the caller passed, never all of them, and an expression holds more than it
\* was mined with only after enough credited outcomes, those it was passed with
\* included, which take a hint the caller passed to begin with; what was mined
\* to be recorded only stays that
\* (nethra_expression.py, agent.py).
PowerGranted ==
    LET passed(rights) == {k \in DOMAIN given : given[k].right \in rights}
    IN  /\ audit.removed \subseteq UNION {given[k].vars : k \in passed({"hard_filter", "block"})}
        /\ ~audit.starved
        /\ \A k \in DOMAIN table :
              LET start == IF k \in DOMAIN given THEN given[k].right
                           ELSE IF k.op \in {"union", "gated"} THEN "record_only"
                           ELSE "feature_only"
                  brought == IF k \in DOMAIN given THEN given[k].evidence ELSE 0
              IN  \/ table[k].right = start
                  \/ /\ start = "feature_only" /\ table[k].right = "ranking_hint"
                     /\ credits[k] > 0 /\ brought + credits[k] >= Threshold
                     /\ passed({"ranking_hint"}) # {}

=============================================================================
