----------------------------- MODULE MemoryLoop -----------------------------
(***************************************************************************)
(* scripts/run_multisleep_mind_loop.py: generations of batches that write  *)
(* their evidence to a delta file, sleep that adds hints to it, and the    *)
(* compaction of the delta into the mind that the next batch loads.        *)
(*                                                                         *)
(* The driver may die anywhere; it is then started again, with --force or  *)
(* over the files it left.  Of the mind we keep what the loop depends on:  *)
(* per target the rows folded in, whether it may rank, and how often it    *)
(* succeeded and failed.  MindStore has the folding itself.                *)
(***************************************************************************)
EXTENDS RuntimeMemory, SequencesExt

CONSTANTS Gens,      \* --gens
          Workers,   \* --workers
          Torn,      \* a file that is not whole
          MaxStarts  \* bounds how often the driver is started

ASSUME MemoryLoopAssumption ==
    /\ IsFiniteSet(Seeds) /\ IsFiniteSet(Targets)
    /\ Workers \in Nat \ {0}
    /\ Gens \in Nat /\ MaxCycle \in Nat /\ MaxEvents \in Nat /\ MaxStarts \in Nat

VARIABLES stage,    \* where main is
          turn,     \* the generation, then the two controls
          run,      \* run[s]: how far the run of seed s is
          delta,    \* the rows of the delta file
          tmp,      \* the mind file being compacted
          mind,     \* the mind file
          starts,   \* how often the driver was started
          gathered, \* rows of evidence ever produced
          overrun   \* runs whose deque has lost events

driver == <<stage, turn, run, delta, tmp, mind>>
vars   == <<runtime, driver, starts, gathered, overrun>>

ControlOff    == Gens + 1
ControlRecord == Gens + 2

ModeOf(k) == IF k = ControlOff THEN "off"
             ELSE IF k \in 1..Gens THEN "assist" ELSE "record"

NoMind == [t \in Targets |-> [rows |-> 0, hint |-> FALSE, success |-> 0, failure |-> 0]]

-----------------------------------------------------------------------------
(* The delta file                                                          *)

Row(kind, t) == [kind |-> kind, target |-> t]
Cut          == [kind |-> "torn"]

IsEvidence(row) == row.kind \in {"record", "product"}
EvidenceIn(q)   == Cardinality({i \in DOMAIN q : IsEvidence(q[i])})

\* A line cut short swallows the next line written behind it; neither is ever read.
Written(q, rows) ==
    IF q # <<>> /\ rows # <<>> /\ Last(q) = Cut THEN Front(q) \o Tail(rows) ELSE q \o rows

\* What a killed writer may leave of the rows it had to write.
CutShort(q, rows) ==
    {Written(q, SubSeq(rows, 1, k)) : k \in 0..Len(rows)}
      \cup {Written(q, Append(SubSeq(rows, 1, k), Cut)) : k \in 0..(Len(rows) - 1)}

RowsFor(kind, S) == [i \in 1..Cardinality(S) |-> Row(kind, SetToSeq(S)[i])]

EventRows(q) == [i \in DOMAIN q |-> Row(q[i].kind, q[i].target)]

\* append_records, append_experience_events, append_run_summary: the rows of the
\* run of s, whose records name the targets in R.
RunRows(s, R) ==
    IF mode = "off" THEN <<>>
    ELSE RowsFor("record", R) \o EventRows(events[s]) \o <<[kind |-> "summary"]>>

\* build_sleep_products for the one bucket of t.
Count(t, kinds) ==
    Cardinality({i \in DOMAIN delta : delta[i].kind \in kinds /\ delta[i].target = t})

Ranks(t) ==
    LET failures  == Count(t, {"wasted"})
        successes == Count(t, {"confirmed"})
        effects   == Count(t, {"reorder", "confirmed", "wasted"})
    IN  /\ ~(failures > 0 /\ successes = 0)
        /\ effects > 0 \/ (Count(t, {"record"}) > 0 /\ failures = 0)

\* build_run_sleep_delta: products of the delta's evidence and the proposals of
\* the run file that may rank, for ids that recur in two runs.
SleepRows(P) ==
    RowsFor("product", {t \in Targets : Ranks(t)}) \o RowsFor("product", P)

Proposable == IF Cardinality(Seeds) >= 2 THEN SUBSET Targets ELSE {{}}

\* Mutant: a reorder is no failure until the fit has refuted it.
RefutedByFit(row) == row.kind = "wasted"

\* ingest_experience_event: an effect without success is a failure, and a reorder
\* is recorded before its success is known.
Refuted(row) == row.kind \in {"reorder", "wasted"}

Credits(row) == IF row.kind = "confirmed" THEN 1 ELSE 0
Debits(row)  == IF Refuted(row) THEN 1 ELSE 0

\* compact_nethra_memory.main: the rows in order over the previous mind.  Events
\* are credited to the nodes that exist; a mere look changes nothing.
Fold(m, row) ==
    IF IsEvidence(row)
    THEN [m EXCEPT ![row.target].rows = @ + 1,
                   ![row.target].hint = @ \/ row.kind = "product"]
    ELSE IF row.kind \in {"reorder", "confirmed", "wasted"} /\ m[row.target].rows > 0
    THEN [m EXCEPT ![row.target].success = @ + Credits(row),
                   ![row.target].failure = @ + Debits(row)]
    ELSE m

Compacted(base, rows) ==
    LET folded[n \in 0..Len(rows)] ==
            IF n = 0 THEN base ELSE Fold(folded[n - 1], rows[n])
    IN  folded[Len(rows)]

-----------------------------------------------------------------------------
(* The driver                                                              *)

\* The batch of turn k: one process per seed.
Batch(k) ==
    /\ turn' = k /\ mode' = ModeOf(k) /\ stage' = "batch"
    /\ run' = ForEach("todo")
    /\ Reborn

Start(force) ==
    /\ stage \in {"off", "done"} /\ starts < MaxStarts /\ starts' = starts + 1
    /\ Batch(0)
    /\ IF force THEN delta' = <<>> /\ tmp' = NoMind /\ mind' = NoMind
       ELSE UNCHANGED <<delta, tmp, mind>>
    /\ UNCHANGED <<gathered, overrun>>

\* _build_and_run_dreth: the index loads the mind before the agent is built.
BeginRun(s) ==
    /\ stage = "batch" /\ run[s] = "todo"
    /\ Cardinality({r \in Seeds : run[r] = "running"}) < Workers
    /\ run' = [run EXCEPT ![s] = "running"]
    /\ hints' = [hints EXCEPT ![s] = IF mode = "off" THEN {} ELSE Loaded(mind)]
    /\ UNCHANGED <<mode, cycle, memCycle, audited, pending, events, dropped, stage, turn,
                   delta, tmp, mind, starts, gathered, overrun>>

RunOn(s) ==
    /\ run[s] = "running" /\ RunStep(s)
    /\ UNCHANGED <<driver, starts, gathered, overrun>>

EndRun(s) ==
    /\ run[s] = "running" /\ cycle[s] = MaxCycle
    /\ run' = [run EXCEPT ![s] = "finished"]
    /\ UNCHANGED <<runtime, stage, turn, delta, tmp, mind, starts, gathered, overrun>>

\* _run_one catches what the run raised: a result without events or records.
RunFails(s) ==
    /\ run[s] = "running"
    /\ run' = [run EXCEPT ![s] = "failed"]
    /\ Discard(s)
    /\ UNCHANGED <<mode, stage, turn, delta, tmp, mind, starts, gathered, overrun>>

RecordsOf(s) == IF run[s] = "finished" THEN SUBSET Targets ELSE {{}}

\* Mutant: a run that raised is never taken.
CollectFinished(s) ==
    /\ stage = "batch" /\ run[s] = "finished"
    /\ run' = [run EXCEPT ![s] = "collected"]
    /\ Discard(s)
    /\ UNCHANGED <<mode, stage, turn, delta, tmp, mind, starts, gathered, overrun>>

\* The main process takes the results as they complete.
Collect(s) ==
    /\ stage = "batch" /\ run[s] \in {"finished", "failed"}
    /\ \E R \in RecordsOf(s) :
         /\ delta' = Written(delta, RunRows(s, R))
         /\ gathered' = gathered + EvidenceIn(RunRows(s, R))
    /\ overrun' = overrun + (IF dropped[s] > 0 THEN 1 ELSE 0)
    /\ run' = [run EXCEPT ![s] = "collected"]
    /\ Discard(s)
    /\ UNCHANGED <<mode, stage, turn, tmp, mind, starts>>

\* A generation sleeps next; the controls follow the last generation.
EndBatch ==
    /\ stage = "batch" /\ \A s \in Seeds : run[s] = "collected"
    /\ \/ turn <= Gens /\ stage' = "sleep" /\ UNCHANGED <<runtime, turn, run>>
       \/ turn = ControlOff /\ Batch(ControlRecord)
       \/ turn = ControlRecord /\ stage' = "done" /\ UNCHANGED <<runtime, turn, run>>
    /\ UNCHANGED <<delta, tmp, mind, starts, gathered, overrun>>

Sleep ==
    /\ stage = "sleep" /\ stage' = "compact"
    /\ \E P \in Proposable :
         /\ delta' = Written(delta, SleepRows(P))
         /\ gathered' = gathered + EvidenceIn(SleepRows(P))
    /\ UNCHANGED <<runtime, turn, run, tmp, mind, starts, overrun>>

\* Mutant: the first generation builds on whatever mind file it finds.
BaseFound == mind

\* The first generation has no previous mind.
Base == IF turn = 0 THEN NoMind ELSE mind

\* Mutant: the compactor writes the mind file itself.
CompactInPlace ==
    /\ stage = "compact" /\ stage' = "replace"
    /\ tmp' = Compacted(Base, delta) /\ mind' = Torn
    /\ UNCHANGED <<runtime, turn, run, delta, starts, gathered, overrun>>

Compact ==
    /\ stage = "compact" /\ stage' = "replace"
    /\ tmp' = Compacted(Base, delta)
    /\ UNCHANGED <<runtime, turn, run, delta, mind, starts, gathered, overrun>>

Replace ==
    /\ stage = "replace" /\ stage' = "clear"
    /\ mind' = tmp
    /\ UNCHANGED <<runtime, turn, run, delta, tmp, starts, gathered, overrun>>

Clear ==
    /\ stage = "clear"
    /\ delta' = <<>>
    /\ Batch(turn + 1)
    /\ UNCHANGED <<tmp, mind, starts, gathered, overrun>>

\* A killed driver, or a command that failed: rows may be cut short and the
\* file being compacted torn.
Crash ==
    /\ stage \notin {"off", "done"} /\ stage' = "off"
    /\ \/ UNCHANGED <<delta, gathered, overrun>>
       \/ /\ stage = "batch"
          /\ \E s \in {s \in Seeds : run[s] = "finished"} : \E R \in RecordsOf(s) :
               /\ delta' \in CutShort(delta, RunRows(s, R))
               /\ gathered' = gathered + EvidenceIn(RunRows(s, R))
               /\ overrun' = overrun + (IF dropped[s] > 0 THEN 1 ELSE 0)
       \/ /\ stage = "sleep"
          /\ \E P \in Proposable :
               /\ delta' \in CutShort(delta, SleepRows(P))
               /\ gathered' = gathered + EvidenceIn(SleepRows(P))
          /\ UNCHANGED overrun
    /\ tmp' \in (IF stage = "compact" THEN {tmp, Torn} ELSE {tmp})
    /\ Reborn
    /\ run' = ForEach("todo")
    /\ UNCHANGED <<mode, turn, mind, starts>>

Init ==
    /\ stage = "off" /\ turn = 0 /\ mode = "off"
    /\ Unborn
    /\ run = ForEach("todo")
    /\ delta = <<>> /\ tmp = NoMind /\ mind = NoMind
    /\ starts = 0 /\ gathered = 0 /\ overrun = 0

Advance ==
    \/ \E s \in Seeds : BeginRun(s) \/ RunOn(s) \/ EndRun(s) \/ RunFails(s) \/ Collect(s)
    \/ EndBatch \/ Sleep \/ Compact \/ Replace \/ Clear

Next ==
    \/ \E force \in BOOLEAN : Start(force)
    \/ Advance
    \/ Crash

\* The driver and the runs go on by themselves; nobody need start or kill them.
Spec == Init /\ [][Next]_vars /\ WF_vars(Advance)

-----------------------------------------------------------------------------
(* Properties                                                              *)

Rows == {Cut, [kind |-> "summary"]}
          \cup [kind : {"record", "product", "look", "reorder", "confirmed", "wasted"},
                target : Targets]

Node == [rows : Nat, hint : BOOLEAN, success : Nat, failure : Nat]

TypeOK ==
    /\ RuntimeType
    /\ stage \in {"off", "batch", "sleep", "compact", "replace", "clear", "done"}
    /\ turn \in 0..ControlRecord
    /\ run \in [Seeds -> {"todo", "running", "finished", "failed", "collected"}]
    /\ delta \in Seq(Rows)
    /\ starts \in 0..MaxStarts /\ gathered \in Nat /\ overrun \in Nat

\* The mind a run loads is whole wherever the driver was killed: compaction
\* writes beside it and swaps.
MindWhole == mind \in [Targets -> Node]

\* All the rows folded into the nodes of a mind, those of each numbered.
Evidence(m) == Cardinality(UNION {{t} \X (1..m[t].rows) : t \in Targets})

\* While the new mind is in place and the delta not yet cleared its rows are
\* counted; a first generation counts nothing before its own mind is in place.
Once == INSTANCE EvidenceOnce WITH
    fresh <- IF stage = "clear" THEN 0 ELSE EvidenceIn(delta),
    tally <- IF stage = "off" \/ (turn = 0 /\ stage # "clear") THEN 0 ELSE Evidence(mind)

\* No row of evidence is counted twice by the minds of a loop, though a killed
\* loop leaves a delta that is already in the mind, and the next one finds it.
CountsOnce == Once!Spec

\* A confirmed hint never outweighs the reorder that gave it, which is itself
\* folded as a failure: only runs whose deque lost the reorder are ahead.  So
\* the assimilator's contradiction, which asks for three times as many
\* successes as failures, is out of reach.
NeverSuccessDominant ==
    \A t \in Targets : mind[t].success <= mind[t].failure + overrun

\* The loop ends or is killed: no stage waits for ever.
LoopEnds == (stage # "off") ~> (stage \in {"off", "done"})

\* The comment in record_fit_outcome: a failure event lets sleep demote the hint
\* it is about.  Of a generation whose every outcome for t was a failure, t does
\* not come back with a hint.
Demotes ==
    [][\A t \in Targets :
         stage = "replace" /\ Count(t, {"wasted"}) > 0 /\ Count(t, {"confirmed"}) = 0
           => ~mind'[t].hint \/ mind' = mind]_mind
=============================================================================
