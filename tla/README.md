# dreth: a TLA+ verification project

dreth is an agent that learns, by intervening in a simulated causal world, which
variables depend on which, and that spends as few interventions as it can: a
variable whose fit has *earned* a certificate is skipped, and evidence against the
certificate re-opens it. What can go wrong is bookkeeping over time: a certificate
that survives what should have revoked it, a variable nobody looks at any more, a
cascade that stops short or that noise sets off. Around the agent, its runs leave evidence
in files that sleep consolidates and later runs load: there the questions are what is
counted twice, what a killed process leaves behind, and what evidence may come to steer.
This directory models that bookkeeping, model-checks it with TLC on small instances and
proves every invariant and action property that holds in the runs, and the refinement, with
TLAPS for all instances; liveness stays with TLC.

Line numbers are of `dreth/agent.py` unless a file is named; files are under `dreth/`,
`dreth/learner/` or `scripts/`.

## 1. The system

| component | state | operations |
|---|---|---|
| ledger (`ledger.py`) | one `VarNethra` per variable: fit (sources, function), status (proposed, certified, uncertain, trass), skip certificate with its role, sentinels, counters, envelope, route certificates | `update_var`, `issue_cert`, `issue_route_cert`, `invalidate_certs`, `invalidate` (cascade) |
| agent loop (`agent.py`) | `_live_set`, `_inert_vars`, queue of the cycle, the set of sentinels that failed, topological cache | `initialize`, `on_variable_revealed`, `run_cycle` = composites, regime probes, first pass, audit pass, end of cycle |
| belief graph (`agent.py`, `ledger.py`) | the sources in the ledger, `_topo_cache` | `_topological_order`, `closure_descendants`, `_is_ancestor` |
| regime register (`regime.py`, `agent.py`) | `_confirmed`, `_candidates`, probes, and the agent's parking flags | `observe`, `check_sentinels`, `install_sentinel`, `_maybe_park_var` |
| joint certificates (`agent.py`, `ledger.py`) | `composites`, `absorbed_composites`, `hyper_composites` | `_test_joint_false_trass`, `_check_composites`, `_check_hyper_composites`, `_promote_dense_components` |
| what is kept beside a fit (`agent.py`, `ledger.py`) | tied frontier, dormant alternatives, compressions, novelty and its streaks; envelopes | `_update_tied_frontier`, `_collapse_tied_frontier`, `_discover_compressions`, `_maybe_novelty`, `update_var` |
| authority strength (`authority_strength.py`, `shadow_authority_throttle.py`, `uncertainty_governance.py`) | a debt per (variable, context): state, persistence, what is due and paid, last action; the surfaces of a cycle | `process`, `check_derivation_gate`, three classifications of the same evidence |
| mind (`nethra_mind_store.py`, `nethra_assimilator.py`) | nodes, edges, residuals, the mind file | `ingest_record`, `ingest_sleep_product`, `ingest_experience_event`, `prune_to_cap`, `write_compact`, `load` |
| runtime memory (`nethra_runtime_memory.py`, `nethra_memory_store.py`) | handles loaded from a mind, pending hints, a queue of events; an append-only store | `rank_candidates`, `record_fit_outcome`, `append_records` |
| the memory loop (`run_multisleep_mind_loop.py`, `compact_nethra_memory.py`, `batch_run.py`) | the delta file, the mind file, the one being compacted | generations of batch, sleep, compact, replace, clear |
| scaffold memory (`context_role_index.py`, `nethra_role_surface.py`, `memory_sleep.py`, `scaffold_memory.py`, `nethra_expression.py`) | role records, the proposals file, an expression index with credits | record, sleep, load, mine, compile, credit |
| comparison suite (`run_comparison_suite.py`) | child processes, logs, outputs shared by every invocation of a prefix | launch, poll, reap, terminate, collect, write |
| world, fitting, functions (`world.py`, `fit.py`, `functions.py`) | the simulated world | interventions, enumeration and scoring of fits |
| drivers and observers (`cli.py`, other `scripts/`, `shadow_policy.py`, `repair_agenda.py`) | - | call `run_cycle` in a loop; reports |
| inventory (`drive_inventory_concurrent.py`, a tool of its own) | SQLite tables `files`, `scan_roots`; a bounded queue, `stop_event` | `scan` (scanner threads, writer thread, main thread), reports, hashes |

The agent is sequential: one `run_cycle` per cycle, and between cycles the world may
reveal another variable (`on_variable_revealed`). What makes it hard is not threads but
*order and time*: about a dozen places revoke or issue certificates; each reads state
that other places changed earlier in the same cycle or many cycles before; the live set,
the inert set, the queue and the rate limits each decide alone that a variable is not
looked at; and what the world answers is arbitrary. The one part with real threads is the
inventory tool: there the hard behaviours are interleaving, a full queue, interrupts,
and what a killed process leaves in the database. The drivers add processes and files:
batches killed while a row is appended, a mind swapped before the delta is cleared, children
that outlive an interrupt. `PROJECT.json` lists, under
`hazards`, where this bites, with the property that watches each place.

## 2. The modules

| module | models | proofs |
|---|---|---|
| `Ledger` | the record of a variable, the transactions on it, the belief graph (constant operators) | lemmas at the head of `Agent_proofs` |
| `AgentCycle` (extends `Ledger`) | `initialize`, `on_variable_revealed`, `run_cycle` | `Agent_proofs` |
| `TopologicalOrder` (extends `Ledger`) | the graph algorithms, against the definitions `AgentCycle` relies on | `Agent_proofs` |
| `Regime` | the regime register, its probes and parking | `Regime_proofs` |
| `Composites` | composites and hyper-composites | `Certificates_proofs` |
| `InventoryScan` | the `scan` command of the inventory: threads, queue, database | `InventoryScan_proofs` |
| `FitFrontier` | frontier, archive, compressions and novelty of one variable | `Certificates_proofs` |
| `VisibleEvidence` | what authority strength, throttle and governance each say of the same evidence (constant operators) | |
| `AuthorityControl` (extends `VisibleEvidence`) | the controller of authority strength, with the agent's audits and gates | `AuthorityControl_proofs` |
| `MindStore` | assimilation, folding, pruning, writing and loading of a mind | `Learner_proofs` |
| `RuntimeMemory` | the hints a run takes from a mind, and their outcomes | |
| `MemoryLoop` (extends `RuntimeMemory`) | the generations around it, with kills and restarts | `MemoryLoop_proofs`, of both |
| `EvidenceOnce` | abstract: a row of evidence counts at most once | in `MemoryLoop_proofs`: the loop implements it |
| `ContextRoles`, `MemorySleep`, `NethraExpressions` | what the agent records of roles; what sleep proposes; what expressions do and earn (constant operators) | lemmas in `Learner_proofs` |
| `Picks` | list comprehensions over rows and records (constant operators) | lemmas in `Learner_proofs` |
| `ScaffoldLoop` (extends `MemorySleep`, `NethraExpressions`, which build on `ContextRoles`) | runs that record, sleep, and runs that steer by what sleep wrote | `Learner_proofs` |
| `ComparisonSuite` | the suite driver, its children, files and interruptions | `ComparisonSuite_proofs` |
| `MC*` | the small instances: sets of fits and records, symmetry. `MCAgentGraph` and `MCLearner` each hold two | |

`AgentCycle` uses declarative definitions of the topological order and of the closure of
a cascade (`Topological`, `Reached` in `Ledger`); `TopologicalOrder` runs the
algorithms of the code, and they are checked and proved to give exactly what those
definitions say. The loop is thus proved about without its algorithms, and they without it.

### AgentCycle and the code

The variable `phase` says where the program is, `order` and `pos` are the loop
variables of the pass in progress; `led`, `visible`, `live`, `inert`, `failed` are the
fields of the same meaning. One action is one iteration of a loop, whole:

| action | code |
|---|---|
| `Init`, `BootAudit`, `GoLive` | `initialize`: inert screen, frontier, its audits, the live set |
| `Reveal` | `on_variable_revealed` |
| `StartCycle` | composites replayed (3500-3510), order fixed |
| `CompositeSkip` ... `FallThrough` | one variable of the first pass (3561-3979), one action for each way it ends |
| `StartAudits` | queue ordered and cut off at the budget (3981-4055) |
| `AuditFindsChange`, `AuditConfirmsFailure`, `AuditKeepsFit` | one audit, `_install_var` included (4048-4212) |
| `RescreenInert`, `EndCycle` | 4226-4246; admission and joint tests (4248-4282) |

Choices: which fit an audit returns (from the constant `Hypotheses`), what probes,
sentinels and role tests answer, whether streaks and envelope age let a variable park
(`settled`), whether an envelope is mature (only in `Noisy`) and quiet, which novelties are
open, which composites pass or are revoked (within `Joint`). The compression, regime,
parked and passive skips are one action, `CheapSkip`, enabled wherever any of them
could be. Left out: the priority mode of the audit queue (only the default order by
topology and cost is modelled), the gates of authority strength, the bookkeeping of
interventions, records and logs.

Counters are kept to what is ever compared: `strong` saturates at `StrongCap`,
`passes` at `PassCap`, `csf` at `BackoffThreshold`; they are only compared with thresholds at or
below the cap, or reset, so saturation loses nothing. The cycle number is kept modulo
`Period`, a multiple of both intervals it is tested against. A certificate counts as
confirmed when `passes > 0`; witnesses exist exactly for roles earned by a substitution
test, that is outside `Salience`.

### Regime

One action is one part of a cycle that touches the register: `CheckSentinels` (probes
replayed), `FirstPass` (who is skipped, parked, woken, who fails), `AuditPass`, the cases of
`observe` (`Recur`, `JoinSingle`, `Confirm`, `NewCandidate`, `NoFailures`), `SeedPassive`. Similarity is
the weighted Jaccard index of the code, in exact fractions instead of floats; when several
patterns are equally near the code takes the first, the model any. Candidates are a set of
event sets with ages: identical stale candidates collapse. "repaired" events, the authority
counter, fingerprints and expression basins take no part in any decision and are left out.

### Composites

`CheckHypers` and `CheckComposites` are the two replays at the start of a cycle, the
cycle itself is `Process` and `Touch` steps on single variables, and then come the joint tests
and promotion. The tests every 50 and 100 cycles may happen in any cycle. A `component_id` may
be used again after its certificate is revoked (only identity matters), and equal records of a
pair collapse. Variables revealed later lie outside `Vars`: they only age contexts.

### InventoryScan

`main` is where `scan_roots` is, `scanner[r]` where `scanner_worker` of root `r` is, `writer` where
`writer_worker` is; `q` is the queue, `db` the committed tables and `tx` the same tables as the
writer's connection sees them. One action is one statement that touches shared state:
each `put` and `get`, the start of a thread, each transaction (`DropFiles` and `DropMarks` are
two, since `executescript` commits statement by statement). A file stands for its row and a set
of files for a count. The pool starts queued roots in any order, a superset of its FIFO. `Interrupt`
leads to `joining`, because `ThreadPoolExecutor.__exit__` joins the pool before the handler runs.
`Exit` waits for the pool threads, as the interpreter does; `Crash` for nothing. `interrupts` and
`wiped` (the recorded roots whose rows a reset has dropped) are history: the properties need to tell one
interrupt from two, and a root that was wiped from one that lost rows. Every place SQLite may raise is
`WriteFails` or `ConnectFails`. Nested or repeated roots, and two scans at a time, are left out.

### FitFrontier

One variable; the rest of the agent is a choice (who is in the cascade, whose certificate
goes). `Audit` is one whole installation: role test, `update_var`, frontier, collapse,
archive, search for compressions, and the cascade that takes the frontier away again;
`FirstAudit` is the same without `_maybe_novelty`. `TryCompressions` is the first pass's trial.
A gate is kept as the set of sources it looks at and stands for all its anchors: `Discovered` finds
single sources, and the hook of `_install_var` adds what `dreth_extensions.py` derives, whatever
sets of the fit's own sources those are (`Compressions`). Separating probes, drift and stability
diagnostics, and the rate limits (any audit may happen in any order) are left out; the cap of the
authority controller on spared alternatives holds per collapse instead of per cycle; equal
dormant alternatives collapse. `run`, `chain` and `trassed` are history, told from the audits alone.

### VisibleEvidence and AuthorityControl

`EvidenceRecord` is what the three classifiers read of a variable. `RunAuthorityStrength` is the
agent's call at the start of a cycle: classification, then `process` over the visible
variables in their order (`Judge` for one of them), with budgets and cooldowns. `Observe` changes
what can be seen without an audit, `Audit` is an audit with a new margin, near ties and perhaps
another fit, `Derive` the gate that a promotion asks. `heard` is history: epochs judged bad in
a row, up to the two that matter. The signals of uncertainty clusters have no producer in the code and are absent.

### MindStore, RuntimeMemory, MemoryLoop, EvidenceOnce

`MindStore` is one process after another: `Ingest` (a record or product explained by a node,
folded into it, made a node or held as a residual), `IngestEvent`, `Refuse`, `WriteCompact`
(prune, serialise), `Load`. Among equally similar nodes any may explain a row, since the code
takes the first of a set of strings. `MemoryLoop` keeps of a mind, per target, the rows folded,
whether it may rank, its successes and failures; its stages are the statements of `main`:
`BeginRun`/`RunOn`/`EndRun`/`RunFails` are the pool's runs, `Collect` the append of a finished run's rows
in the parent, then `Sleep`, `Compact` (to a temporary file), `Replace`, `Clear`. `Crash` may stop it in any stage and
leave a row or the temporary file cut; `Start` goes on with `--force` or over what is there.
Every event of the queue is a row of the delta, a mere look too: what the compaction makes of a row
is decided in `Fold`. `Compacted` is a recursive function over the rows, so that it can be proved about.
`EvidenceOnce` has three variables (rows gathered, waiting, counted) and three steps; `CountsOnce`
is `Once!Spec` with the waiting rows read off the delta and the counted ones off the mind, the
two files together while the swap is done and the delta not yet cleared.

### ScaffoldLoop

`ContextRoles` has what the index keeps of nodes and roles (caps included) and the role surface;
`MemorySleep` how rows of the store become proposals: distinct observations, runs seen, the
use they suggest; `NethraExpressions` loading, mining, what an active slice narrows or orders, and
the credits. `ScaffoldLoop` runs them: a run either records roles (`Skip`, `Composite`, `Route`,
`RegimeConfirmed`, `NextCycle`, `EndRoles`) or uses expressions (`Audit`); the halves meet only in
the files. Cut rows swallow the next row (`Appended`). A proposals file is the list of its rows; a kill
leaves the first of them and a row cut short, which no reader takes. List comprehensions pick places of a
list (`Picked`), and the first of each key where the code keeps a set of keys seen (`FirstOfEach`).
What the caller passes (`Givens`) may bring evidence of its own.

### ComparisonSuite

Each child is a state machine (`OpenOut`, `Row`, `Finished`, `Summarise`, `Fails`) next to the driver's
loop (`Launch`, `Poll`, `Reap`). A metric is abstracted to the set of runs it is taken over. The
four assist modes and the four summary scripts of a mode are alike and stand as one each. A child
whose driver is gone ends at its next print (no reader of the pipe); an invocation starts when no
child is alive. Processes of a child's own pool, and the row an orphan may still write between two
prints, are left out.

### TopologicalOrder

The three recursive functions of the code are families of functions indexed by the depth of the
call (`VisitAll`, `AskAll`) or by the round (`ClosureFrom`). `Visit(inner)` is the body of `visit`, with `inner` for its
nested calls; `Through` is the loop over the sources, which hands each call what the one before left,
so the visited sets are shared as in the code. A nested call has one variable more in
progress or visited than the call around it, so depth `NVars` is never exceeded; the proofs show it. The
actions change the graph as `_install_var`, promotion and
revelation do. Source tuples are ascending with at most `MaxSources` members, as `fit.py`
enumerates them. `Prunable` bounds which route certificates are tried.

## 3. The runs

| run | checks | instance |
|---|---|---|
| `agent_authority` | `FloorIffStable`, `RouteNeverSource`, `RevokedOnlyByEvidence`, `DemotedRecovers`, `ProvisionalResolved` (the last two liveness) | 2 variables, a budget of 1 audit for each cycle, the second variable revealed later, fits that change function and sources, back-off and novelty every second cycle, one variable salient, one with an envelope that matures, composites on both |
| `agent_graph` | `CascadeOnlyConfirmed`, `CascadeComplete`; `OrderTopological`, `ClosureExact`, `AncestorExact` | a chain of 3 fits, composites on the first two, route certificates that prune; every graph of 3 variables with at most 2 sources each, every pair prunable |
| `regime_register` | `TypeOK`, `ConfirmedByFailures`, `CandidatesBounded` | 2 variables, 3 regimes, weights 1/3 to 1, ages up to 3 |
| `regime_parking` | `ParkingEarned`, which fails | 2 variables, 1 regime, thresholds at their least |
| `composites` | `AbsorbedBacked`, `CoveredOnEvidence` | 3 variables, 2 hyper-composites, one revelation |
| `fit_frontier` | `CollapseStable`, `OfThisFit`, `OpenIsUnsettled` | 3 hypotheses, two of them over one source, 2 contexts, thresholds of 2 |
| `frontier_contexts` | `ArchivesEarned`, which fails | the same |
| `authority` | `QuarantineEarned`, `StrongIsSupported`, `SupportsCleared`, `DebtRepaid`, `AttentionReaches` (the last two liveness) | 2 variables, 6 and 3 kinds of evidence, 4 settings, budgets of 1, cooldown 2, 3 and 1 audits |
| `memory_loop` | `MindWhole`, `OutcomeOfItsHint`, `NeverSuccessDominant`, `CountsOnce` (refinement), `LoopEnds` (liveness) | 1 seed, 1 target, 2 cycles, a queue of 3 events, 1 generation and both controls, 2 starts |
| `learner` | `EvidenceAccounted`, `SafetyKept`, `NothingUnlearned`; `FamiliarityEarned`, `PowerGranted` | 3 records, 2 products, 2 events (one with an effect of 2), 6 rows over any number of processes, 3 nodes, 1 residual; 3 variables, 3 runs of 2 configurations, authority reports, 2 product files, 4 indexes passed by the caller, one of them with a hint and with evidence short of the threshold |
| `comparison_suite` | `ComparisonOfThisRun`, `ChildrenGone`, `SuiteEnds` (liveness) | the background and authority suites under one prefix, 2 invocations, 2 workers, 1 fault, 1 reader that is late |
| `inventory_scan` | `RecordedWhole`, `CutByTwoInterrupts`, `ScanEnds` (liveness) | roots of 3 files and of 1, 2 pool threads, batches of 2, a queue of 2 |

`agent_graph` and `learner` each check two modules that share no variable: a behaviour begins in the
initial states of both and then takes the steps of one (`EitherSpec`), so each property is checked over every
behaviour of the module it is about. TLC counts the steps of each as one action there; its coverage of the
expressions below shows none that is never evaluated. The `VIEW` of `fit_frontier` tells states apart by all variables but `chain` and `compress`: no property
of that run reads them, and no step reads them but to set them.

Why the bounds are enough. Two variables make a source and a dependent, which is
all a contradiction, a wake-up or a tier needs; a cascade that passes through an
intermediate fit needs three. A threshold of 1 or 2 instead of 3 or 4 keeps both sides of
each comparison reachable (below and at the threshold; the tiers give two thresholds
for trass). With a budget of one audit and two variables in the queue the second is deferred, which is the
only way an audit can be put off that depends on the other variable. For graphs, three variables with two
sources each give cycles that share vertices, the case a shared visited set could get wrong. For regimes,
two variables give events that overlap and do not, similarities on both sides of one half, and
with three regimes a variable in several. For joint certificates, `MinSize` is lowered so that
hyper-composites overlap with three variables; overlap is what restoration could get wrong.

For the frontier, two functions of one source give tied churn, the constant gives changes of
source, three audits in two contexts are reached and a third context would count nothing more.
For authority, one variable is contested for two epochs and settles, or goes on wanting attention,
while the other competes for the budget of one: the smallest case where one could starve, and with
the cooldown of 2 the budget suffices for both. With a smaller ratio of budget and cooldown to debts one
of them does starve, and a variable whose context key changes at every audit has a fresh cooldown each
time; `MaxAudits` bounds that. For the mind, two records of one hook compete for a node, a third and
the products do not match it, and three nodes make room for neither all. For the loop, one target and a queue of three events let the reorder of a
confirmation be dropped; a second start finds every file the first one left, in every stage. For scaffold
memory, three runs of two configurations give a structure seen twice by one and by two. For the suite,
two invocations suffice for leftovers of one in the other, two workers for a failure beside a running job.

For the scan, the root of three files puts a full batch and, when its walk has ended, another of the one file left,
between which the other root's batch and `root_done` may come; both scanners fill a queue of two and wait.

Deadlock is checked but in `memory_loop`, `learner` and `comparison_suite`, whose bounded numbers
of starts, rows, runs and invocations come to an end.

**Fairness.** `LiveSpec` adds only `WF_vars(Next)`: the drivers call `run_cycle` in a
loop over cycles and a cycle runs to its end. No fairness is assumed of the world:
which probe passes, which fit wins and whether a novelty is open is arbitrary each time,
and the liveness properties hold nevertheless. `FairSpec` of `InventoryScan` has weak
fairness of each thread: the operating system runs every thread that can go on, a blocked `put`
wakes when there is room (each other scanner puts finitely many messages, so it is not overtaken
for ever), and the wait for the writer has a time limit. Interrupts, failures, kills and
new scans are not fair. In `AuthorityControl` only the turn of the cycle is fair: a cycle begun is
completed and the next one begins; that evidence stays as it is is the premise of the properties. In
`MemoryLoop` the driver and the runs go on by themselves (`WF_vars(Advance)`); nobody need start it. In
`ComparisonSuite` the driver polls every 50 ms and each child is a bounded computation.

## 4. What the properties say

- `FloorIffStable`: the count that shuts a variable out of the audit queue and the
  certificate that says so, written and reset in different functions, agree.
- `RouteNeverSource`: a route certificate survives changes of signature; still no fit uses
  a source that is certified irrelevant to it, so a pruned edge is never a believed one.
- `RevokedOnlyByEvidence`: an earned role is lost only in the variable's own step of the
  first pass or through its composite.
- `CascadeOnlyConfirmed` (noise does not cascade) and `CascadeComplete` (a confirmed
  change reaches every descendant, leaves none authoritative and all of them live).
- `DemotedRecovers`: a live variable that was demoted leaves "uncertain" again, through back-off, novelty holds
  and the budget, unless its audit is put off again and again: the queue is cut off at the budget in
  topological order, and a variable that is queued ahead in every cycle starves one below it (section 5). Nor is
  a variable audited that composites cover in every cycle, whatever its status; the model lets them.
- `ProvisionalResolved`: no provisional certificate is probed for ever, unless composites keep covering the variable.
- `ConfirmedByFailures`, `CandidatesBounded`: confirmation rests on active failures of
  two variables; pruning only at observations still bounds the list.
- `AbsorbedBacked`, `CoveredOnEvidence`: absorbed pairs are never lost, and a live
  variable is skipped only on joint evidence earned in the present context.
- `RecordedWhole`: a root named in `scan_roots` has exactly the rows its scanner counted when it was recorded;
  only a root whose rows a reset has dropped, while the second `DROP` did not happen, has none (`wiped`, history, tells
  which these are). Never a part, although rows are committed by time, a root sends several batches and
  messages of several roots interleave.
- `CutByTwoInterrupts`: the first Ctrl-C lets every root finish (the message says otherwise);
  after the second, a cut root is recorded like a whole one.
- `ScanEnds`: a scan ends unless the writer fails. The exception is real: then nobody empties
  the queue and the 300 second limit is never reached.

- `CollapseStable`: a frontier that collapses leaves more alternatives behind than the authority controller
  allows only on three audits in a row with its very candidates, no other fit, failure or cascade between
  them (`run`, history kept apart from the code's counter). That these audits saw two contexts, as the code
  says, is false (section 5).
- `OfThisFit`: frontier, gates and revived alternatives are about the fit now installed.
- `OpenIsUnsettled`: an open novelty has its swings on record and is not yet answered, but for a
  variable that was trass meanwhile.
- `QuarantineEarned`, `StrongIsSupported`, `SupportsCleared`: quarantine needs two epochs judged bad in
  a row, not two cycles (they may be bad in different ways); the three classifiers agree on a variable called
  strong; no handle is built on a variable whose own context is quarantined.
- `DebtRepaid`, `AttentionReaches`: settled evidence pays a debt off; what goes on wanting attention
  gets it.
- `EvidenceAccounted`, `NothingUnlearned`, `SafetyKept`: each row ever read is in exactly one place, a
  node keeps what it has learned through folds, prunings and reloads, and pruning takes the plain before the safety nodes.
- `MindWhole`, `CountsOnce`, `LoopEnds`: kills never leave a torn mind to be loaded, never make evidence count
  twice, and the loop has no stage that waits for ever.
- `OutcomeOfItsHint`, `NeverSuccessDominant`: an outcome follows the reorder of its own cycle, and a
  confirmed hint is never ahead of the reorders folded as failures, but by what overflowed.
- `FamiliarityEarned`: no proposal claims more runs than left its structure in memory.
- `PowerGranted`: audits lose candidates only to filters the caller passed, and never all of them; an
  expression comes to rank only by credited outcomes, with the evidence it was passed enough of them, and only where the caller passed a hint.
- `ComparisonOfThisRun`, `ChildrenGone`, `SuiteEnds`: a comparison is made of this invocation's
  children, all ended well; none outlives the driver, but those the last section names; the suite ends.

Each of them, but for the two that fail, has a mutant in `PROJECT.json`: a plausible slip in the code (a reset
that drops too much, a threshold read for good, a cascade one level deep) that breaks it. `TypeOK` of the modules whose run does not list it documents the types; it is
proved for all of these but `ScaffoldLoop`, where the part that is needed is, as it is for `Composites` and `FitFrontier`.

## 5. Where the code and its comments part

Two runs of `PROJECT.json` expect a violation: TLC finds what the code's comments say of it false.

- `regime_parking` (`ParkingEarned`): a variable "earns parking" with "zero unique failures in the last _PARK_W cycles"
  (3198), but the code asks for none ever (3213). A member of a regime has failed before it was a member, so
  no variable is ever parked (`NeverParked`, proved by `ParkingUnreachable`); the parked skip, the
  wake-up and the revalidation are dead code. The counterexample is a certified variable that failed, joined a
  regime and has been quiet through the whole window while the regime's probe passes.
- `frontier_contexts` (`ArchivesEarned`): `distinct_contexts_seen` is the "number of distinct context_key values the same
  candidate set has persisted through" (`ledger.py` 495), and a collapse needs two. But a frontier that is replaced
  under the same context key hands its count on (2902), so losers are archived that were seen in one context.
  `chain`, history, has the contexts of the audits with the very candidates.

Seven more have a configuration of their own, outside the runs, in which TLC
finds the statement of the comment violated (`tlc -config X.cfg M`):

- `AgentBudget.cfg` (`MCAgentCycle`, `DeferredServed`): what exceeds the budget is "deferred to next cycle" (3464), but
  the next queue is in topological order again. A variable that is queued in every cycle is audited first in each, and
  the demoted one behind it never.

- `AgentRetest.cfg` (`MCAgentCycle`, `RetestForced`): a contradicted trass source is to be re-tested
  (2490), but it is neither woken nor queued; if it was dormant it never is.
- `AgentFloor.cfg` (`MCAgentCycle`, `FloorReopens`): the noise floor is left "only via sentinel failure"
  (`ledger.py` 590), but a cascade can demote the variable first; then its sentinels do not run and Case
  C keeps it from being audited, for good.
- `RegimeSeed.cfg` (`MCRegime`, `PassiveSeedConfirms`): a passive seed is to be matched by later failures
  (4336), but the two kinds of event never have a key in common.
- `CompositesShield.cfg` (`MCComposites`, `CoveredExcluded`): members covered by a hyper-composite are to be excluded from
  the pairwise check (3504), but they are not.
- `MindWildcard.cfg` (`MCMindStore`, `WidensToWildcard`): a node joined by a product of another
  context is to become a wildcard (`nethra_mind_store.py` 566), but the upsert that follows leaves it the new context alone.
- `MemoryDemote.cfg` (`MCMemoryLoop`, `Demotes`): a wasted hint emits a failure event "so sleep can demote
  this pair" (`nethra_runtime_memory.py` 530), but no failure ever takes a hint right.

Read off the models without a configuration:

- Dormant alternatives: "if a dormant hypothesis later wins a full audit, it is revived" (`ledger.py` 411);
  `update_var` has emptied the archive by then, unless the winner has the sources of the old fit.
- A promoted compression is believed without comparison (3674), so no mismatch can revoke it as 3683
  says; tied churn keeps compressions "cleared when the fit's signature changes" (`ledger.py` 270).
- A trass audit leaves the frontier untouched; a novelty of a variable that was trass stays open through steady audits.
- Expressions mined from proposals never earn a right by themselves: the credit needs a ranking hint that the
  caller passed. `union` and `gated` ones stay `record_only` (`nethra_expression.py`).
- `decision_lines` prints "PASS: off and record match" also when every run of both modes failed.

## 6. What is proved

Parameters are constants with the assumptions `LedgerAssumption`, `AgentAssumption`,
`RegimeAssumption`, `CompositesAssumption`, `InventoryAssumption`, `FrontierAssumption`,
`AuthorityAssumption`, `SuiteAssumption`, `MemoryLoopAssumption`, `SourcesAssumption`, `MindStoreAssumption`,
`ScaffoldLoopAssumption` and those of its operators (sets are finite, thresholds positive,
caps at least the thresholds they stand for, intervals divide the period, roots are disjoint; the rows, reports
and indexes that come from outside have the fields the code reads). One is about the code: `ShapesApart` says
that the id of a structure is never the id of a row, as the digest of the one covers the kind and that of
the other the id of the record. TLC evaluates all of them. Every proof follows one pattern: a lemma that `Init` implies the invariant,
one lemma per operation or action that it preserves it, and a temporal theorem on top.

The library's induction theorems cannot be instantiated here, since they take an operator. Each module
that needs induction has the lemma `SetInduction` instead: a *set* of naturals that holds 0 and is
closed under successor holds them all (from the well-foundedness of `<`). With it the recursive
*functions* of the models are unfolded step by step: the pass of the controller, the job lists of the
suite, the compaction of a delta, the searches of the belief graph, the list comprehensions of sleep.

- **Agent_proofs, the loop.** `IInv == TypeOK /\ LedgerInv /\ QueueInv`. `LedgerInv` holds
  `FloorIffStable` and `RouteNeverSource`. `QueueInv` is the strengthening: what is queued for
  audit (in `needs`, and in `order` from the position on) is below the stable threshold.
  Without it `FloorIffStable` is not inductive: an audit of a variable already at the floor
  would step past the threshold. Theorems `TypeCorrect`, `NoiseFloorSound`, `RouteSound`, and the
  action properties `EvidenceOnly`, `GradedCascade`, `CascadeReachesAll`. The last one rests on
  `RouteNeverSource` (no believed edge is pruned, so the closure the code computes is the
  whole set of descendants) and on lemmas about `Reached`, `Demote` and the operators on records.
- **Agent_proofs, the graph.** A loop over sources is carried by one lemma (`ThroughCarries`: what holds
  before and is kept by each call holds after). `TopoOrderFresh`: the state of a search keeps that no variable is listed
  twice and that a listed variable's visible sources are listed before it *or follow it* (`SourcesFirst`); the second case is
  where a source is in progress, and it needs that everything in progress follows the variable
  visited (the precondition in `VisitOK`). The cached order stays right because what it was computed from changes only in steps
  that drop it; route certificates do not matter to it. `ClosureAlwaysExact`: after `n` rounds the closure
  has more than `n` variables or its frontier is empty, so the last round has none and what was reached is closed.
  `AncestorAlwaysExact`: a search that finds nothing leaves a set of visited variables closed under sources in which
  nobody has the ancestor as a source (`Answers`), whatever earlier searches had visited. All three for cyclic
  beliefs too.
- **Regime_proofs.** `IInv == TypeOK /\ RestsOnCaught /\ Paired /\ NeverParked`.
  `TypeCorrect` needs that a merge keeps one age per key. `ParkingUnreachable` and
  `ConfirmationSound` need `RestsOnCaught`: every failure on record, in confirmed regimes, in
  candidates and in the cycle, is of a variable that has been caught failing; and no candidate
  mixes failures with passive stress, because similar patterns share a key (`ClosestShares`).
  `CandidatesStayBounded` needs `AgesSpread`: at most two candidates have any age that is not pruned,
  since a cycle adds one by observation and one passively and both age together. Quiet cycles prune
  nothing and let the oldest pile up, but add none either.
- **Certificates_proofs, joint certificates.** `PairsKept` needs only that certificates are absorbed and
  restored by the same subset test. `CoverageSound` needs `HypersJustChecked`: between the two
  replays every remaining hyper-composite has the present context and a witness that is not
  trass, and covers exactly the members counted as covered.
- **InventoryScan_proofs.** `ScanIsWhole` rests on an accounting (`Accounted`): while the writer
  lives, what a scanner has counted is in the writer's table, on the queue or in its batch;
  and on `DoneIsLast`: nothing of a root follows its `root_done`. So when that message is taken
  the table has everything. And no root of the scan in progress is among those whose rows a reset dropped before it was
  killed (`NotWiped`), so what the writer adds is never excused. `OneInterruptCutsNothing` needs `StopLate`: while a pool thread runs,
  `stop_event` is set only after two interrupts.
- **Certificates_proofs, the frontier.** `NoveltySound`: a lemma on `Novelty` for any role
  and any verdict of the audit (`NoveltyKeeps`), split as `_maybe_novelty` splits; every other action
  leaves the streaks alone. `OfThisFitHolds` and `CollapseStableHolds` (an action property) share
  `KInv == KeptType /\ OfThisFit /\ FrontierHistory`. `FrontierHistory` ties the code's counter to the
  audits: `stable` is the number of audits in a row with these near ties. Nothing of the kind holds of the
  contexts it counts, which is the finding `frontier_contexts`. `CompressionFacts`: whatever the search and the
  extension add, gates look at sources of the installed fit.
- **AuthorityControl_proofs.** `IInv == TypeOK /\ DebtsOK /\ EvidenceOK /\ SurfacesOK`. `DebtsOK` says
  of every debt what it knows of its past: its count of persistence is backed by epochs judged bad, a
  bad state says that the last epoch was, and what the policy forbids in a state is not allowed (`Cleared`). The pass
  over the variables is a recursive function; a lemma shows one `Judge` keeps the invariant and
  the budgets, an induction that the pass does. `QuarantineEarnedHolds`, `SupportsClearedHolds` and
  `StrongIsSupportedHolds`; the last is a case analysis of the three classifiers over one record and
  needs `EvidenceOK` (a fit that moved has churn on record).
  This proof found that the property as first written was false: with evidence of a broken fit in the
  first epoch and contested evidence in the second, a context is quarantined after one *contested*
  epoch. TLC confirms it on an instance with such evidence. The code counts epochs judged bad, in whatever
  way, and the property now says so.
- **ComparisonSuite_proofs.** `IInv` has, beside the types, what relates the lists of the driver to
  its children (`AliveListed`: a child that runs is on a list, or lost to a fault on record), the children to their
  logs and files (`BatchWrote`, `SummaryRead`, `LogsOpened`), and the history to both (`Accounted`,
  `Compared`). `ChildrenGoneHolds` follows from the first, `ComparisonOfThisRunHolds` from the others:
  summaries start only when every batch has ended well and its file is whole. The lemmas on
  `Only` (what a filter keeps of a list) are proved by induction over its length.
- **MemoryLoop_proofs.** `IInv == RuntimeInv /\ FilesInv`.
  - `RuntimeInv` has `Backed`: in the queue of a run every outcome stands right behind its reorder, or
    behind it and one look; only the first may be without, and only if events were dropped. A weaker
    form ("somewhere before") is not inductive: a queue that forgets its oldest events could forget
    the reorder and keep the outcome. `OutcomesAnswerTheirHints` follows.
  - `FilesInv` has the two facts the swap rests on: at `replace` the temporary file is the
    compaction of this delta over this base, and at `clear` the mind counts at least the delta's
    rows. `MindAlwaysWhole` follows from the first.
  - `CountsOnceHolds` is the refinement of `EvidenceOnce`, one lemma per action: `Collect` and `Sleep`
    are `Gather`, `Replace` is `Count`, `Start` and `Crash` are `Forget`, all else stutters. It needs
    that compaction adds exactly the evidence of the rows (`CompactedEvidence`, by induction) and that
    a cut row loses evidence but never adds any (`WrittenEvidence`, `CutShortEvidence`).
    `CountedAtMostOnce` carries the abstract promise back to the loop.
  - `SuccessNeverDominates` has an argument of its own. `Ahead(q, n)`: however far the rows `q` are folded
    into whatever mind, the successes of no target grow by more than `n` beyond its failures. The rows of a
    run are ahead by one if its queue lost events and by none otherwise (`EventsAhead`, from `Backed`), and
    a cut row does not change that, because the batch that may follow a cut gives no hints.
    `LeadInv` adds up the runs that lost events over delta and mind. While a killed loop has the same
    runs in both, only each of the two is bounded; the first generation then starts from no mind.

- **Learner_proofs, the mind.** `MindKept == Typed /\ WrittenWhole /\ EvidenceAccounted`.
  - `RowsAccounted`: the evidence of the nodes that are not structures is counted over a finite set, and a fold,
    a drop or a reload changes the count by what it says (lemmas for one node replaced, one added, some taken away). It needs
    `Placed`: exactly the nodes under the id of a shape are structures, and they have no atoms, so no row is folded
    into one, where it would not be counted. `WrittenWhole` is what a reload needs: the file holds what was held.
  - `SafetyFirst` and `RightsKept` are action properties. Pruning keeps a node with a failure, an invalidator or an
    effect before any without, whichever of equal ones it picks; `Learnt` is transitive and holds of every
    operation on nodes, writing and loading included.
- **Learner_proofs, sleep and expressions.** `ScaffoldInvariance` proves `MemoryKept` and `PowerKept`.
  - `Familiarity` needs that every row in memory is of a run known to have left that structure
    (`Witnessed`). Then, of any such memory, sleep counts no run twice (`SleepEarned`): the runs of a group are
    picked by first occurrence, capped, and their number is that of different runs (`RunsSeenBound`). Cut rows and killed
    sleeps only take rows away.
  - `Power` needs that evidence is what was brought plus what was credited, and that a variable is due credit
    only where a hint was passed. A load over an index leaves what was passed as it was and adds annotations and
    records without evidence (`LoadedIsOver`), so nothing rises by being loaded twice.

### Only model-checked

Liveness (`DemotedRecovers`, `ProvisionalResolved`, `DebtRepaid`, `AttentionReaches`, `LoopEnds`,
`SuiteEnds`, `ScanEnds`): fairness and ENABLED are out of the prover's reach. Every other property of the passing runs is
the subject of a theorem.

## 7. Not modelled

See `components` in `PROJECT.json` for every part and the reason. In short:

- Numeric fitting, the envelopes' percentiles and the world: their results are choices.
- The record-only and stateless modes of authority strength, `shadow_policy.py`, the repair agenda (it
  orders audits within a tier), metrics, exports and reports: they change no other state.
- `nethra_projection.py` and `nethra_route_index.py` only read a mind; `nethra_scaffold_sleep.py` and
  `uncertainty_consolidation.py` have no caller that works outside tests; nothing produces cluster signals.
- `cli.py`, `hybrid.py`, `baseline.py`: argument parsing, and alternative drivers used for comparison.
- Audit certificates, separating probes and stability horizons: informational in the agent.
- In the memory loop, several seeds at a time in the run (the module and its theorems have them); probe ranking beyond
  whether it takes the hint; a first generation's mind file of another program.
- In the suite: a second Ctrl-C while `_terminate_running` is ending the children of the first (those it has not come
  to would be left running; `ChildrenGone` is about interrupts outside it), a worker pool's grandchildren, jobs of the `scaffold_memory` suite in the run (the module
  has them), an output file that is not JSON.

## 8. Plan

1. (done) `Ledger`, `AgentCycle`, `TopologicalOrder`, `Regime`, `Composites`, `InventoryScan`, with
   proofs.
2. (done) `FitFrontier`, `VisibleEvidence`, `AuthorityControl`, `MindStore`, `RuntimeMemory`, `MemoryLoop` with
   `EvidenceOnce`, `ScaffoldLoop` and its operators, `ComparisonSuite`, model-checked.
3. (done) Proofs about `FitFrontier`, `AuthorityControl`, `ComparisonSuite`, `RuntimeMemory` and
   `MemoryLoop` with its refinement of `EvidenceOnce`; the bound on candidates of `Regime`.
4. (done) Proofs about `MindStore`, `ScaffoldLoop` with its operators, and `TopologicalOrder`, whose recursion
   became recursive functions for that.
