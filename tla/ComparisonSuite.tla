------------------------- MODULE ComparisonSuite -------------------------
(***************************************************************************)
(* scripts/run_comparison_suite.py: a driver runs one batch_run.py child   *)
(* per mode, then one summary script per summarised mode, and renders a    *)
(* comparison of "off" with the others.  Every invocation under one output *)
(* prefix uses the same file names, whatever its suite.  A metric is       *)
(* abstracted to the set of runs it is taken over: two metrics are equal   *)
(* exactly when they come from the same place and over the same runs.  The *)
(* four assist modes of the authority suite and the four summary scripts   *)
(* of a mode behave alike and stand as one each.                           *)
(***************************************************************************)
EXTENDS Naturals, Sequences, FiniteSets, Functions

CONSTANTS Suites,          \* the suites run under the prefix
          Configs,         \* the runs of one batch
          SuiteWorkers, SummaryWorkers,
          MaxInvocations,  \* bound on the invocations under the prefix
          MaxFaults,       \* bound on the interrupts, launch errors and kills of the driver
          MaxLate          \* bound on the readers that outlast the join timeout

ASSUME SuiteAssumption == /\ Suites \subseteq {"authority_strength", "background_nethra", "scaffold_memory"}
                          /\ SuiteWorkers \in Nat \ {0} /\ SummaryWorkers \in Nat \ {0}

Modes(s) == IF s = "background_nethra" THEN <<"off", "record">> ELSE <<"off", "record", "assist">>
Jobs     == [kind : {"batch", "summary"}, mode : {"off", "record", "assist"}]
JobsOf(kind, modes) == [i \in DOMAIN modes |-> [kind |-> kind, mode |-> modes[i]]]
BatchJobs(s)   == JobsOf("batch", Modes(s))
SummaryJobs(s) == JobsOf("summary", Tail(Modes(s)))
\* The modes whose summary text the comparison of suite s reads back.
ReadBack(s) == IF s = "scaffold_memory" THEN {} ELSE Range(Tail(Modes(s)))

VARIABLES
  suite, sequential,  \* the options of the invocation in progress
  inv,                \* the number of the invocation
  phase,              \* "idle" between invocations, else what the driver is doing
  pending, running,   \* the job queue and the list of launched jobs
  reaping,            \* the jobs one poll found ended, not finished yet
  child,              \* job -> the process this invocation launched for it
  jsonl, log,         \* the files of the prefix
  text, comparison,   \* the rendered comparison, and the file
  orphans,            \* jobs launched and then lost by the driver
  late,               \* jobs whose log was closed before the reader was done
  faults
options == <<suite, sequential, inv>>
files   == <<jsonl, log, comparison>>
vars == <<options, phase, pending, running, reaping, child, files, text, orphans, late, faults>>

Missing  == [by |-> 0]
Absent   == [st |-> "absent", code |-> 0, open |-> FALSE, done |-> {}, ok |-> {}, saw |-> Missing]
Launched == [Absent EXCEPT !.st = "alive"]
Alive    == {j \in Jobs : child[j].st = "alive"}

Init == /\ suite = "none" /\ sequential = FALSE /\ inv = 0 /\ phase = "idle"
        /\ pending = <<>> /\ running = <<>> /\ reaping = <<>>
        /\ child = [j \in Jobs |-> Absent]
        /\ jsonl = [m \in {"off", "record", "assist"} |-> Missing]
        /\ log = [j \in Jobs |-> Missing]
        /\ text = Missing /\ comparison = Missing
        /\ orphans = {} /\ late = {} /\ faults = 0

-----------------------------------------------------------------------------
(* The children.  Whatever a child does next, it prints: once the driver is *)
(* gone the pipe has no reader, and the next print ends the child.          *)

Running(j)   == child[j].st = "alive" /\ phase # "idle"
\* What a child had done matters only when it ends well.
Ended(p, code) == IF code = 0 THEN [p EXCEPT !.st = "exited"]
                  ELSE [Absent EXCEPT !.st = "exited", !.code = code]
Exit(j, code) == [child EXCEPT ![j] = Ended(@, code)]

\* batch_run opens --out for writing, which empties the file of an earlier invocation.
OpenOut(m) == LET j == [kind |-> "batch", mode |-> m] IN
  /\ Running(j) /\ ~child[j].open
  /\ child' = [child EXCEPT ![j].open = TRUE]
  /\ jsonl' = [jsonl EXCEPT ![m] = [by |-> inv, done |-> {}, ok |-> {}]]
  /\ UNCHANGED <<log>>

\* A run of the batch ends, well or not (its exception becomes a row); its row is flushed.
Row(m, c, good) == LET j == [kind |-> "batch", mode |-> m]
                       won == IF good THEN {c} ELSE {} IN
  /\ Running(j) /\ child[j].open /\ c \notin child[j].done
  /\ child' = [child EXCEPT ![j].done = @ \cup {c}, ![j].ok = @ \cup won]
  /\ jsonl' = [jsonl EXCEPT ![m].done = @ \cup {c}, ![m].ok = @ \cup won]
  /\ UNCHANGED log

\* The batch prints its aggregate and exits 0, also when runs failed.
Finished(m) == LET j == [kind |-> "batch", mode |-> m] IN
  /\ Running(j) /\ child[j].open /\ child[j].done = Configs
  /\ child' = Exit(j, 0)
  /\ UNCHANGED <<jsonl, log>>

\* A summary script reads the rows of its mode and prints one text.
Summarise(m) == LET j == [kind |-> "summary", mode |-> m] IN
  /\ Running(j)
  /\ child' = [Exit(j, 0) EXCEPT ![j].saw = jsonl[m]]
  /\ UNCHANGED <<jsonl, log>>

\* An exception, a broken worker pool, a signal or a broken pipe ends the child.
Fails(j) == /\ child[j].st = "alive"
            /\ child' = Exit(j, 1)
            /\ UNCHANGED <<jsonl, log>>

ChildStep(j) ==
  /\ \/ j.kind = "batch" /\ (OpenOut(j.mode) \/ Finished(j.mode))
     \/ j.kind = "batch" /\ \E c \in Configs, good \in BOOLEAN : Row(j.mode, c, good)
     \/ j.kind = "summary" /\ Summarise(j.mode)
     \/ Fails(j)
  /\ UNCHANGED <<options, phase, pending, running, reaping, text, comparison, orphans, late, faults>>

-----------------------------------------------------------------------------
(* run_labeled_commands and its helpers. *)

Workers == IF sequential THEN 1
           ELSE IF phase = "batch" THEN SuiteWorkers ELSE SummaryWorkers
Looping  == phase \in {"batch", "summary"} /\ reaping = <<>>
CanLaunch == Looping /\ pending # <<>> /\ Len(running) < Workers
\* Those jobs of a list that are in S, in its order.
Only(jobs, S) ==
  LET upTo[n \in 0..Len(jobs)] ==
        IF n = 0 THEN <<>>
        ELSE IF jobs[n] \in S THEN Append(upTo[n - 1], jobs[n]) ELSE upTo[n - 1]
  IN  upTo[Len(jobs)]

\* Opening the log empties it; what the job prints gets there through a reader thread.
Emptied(j) == [log EXCEPT ![j] = [by |-> inv, whole |-> FALSE, saw |-> Missing]]

\* The driver returns or raises; whatever it launched and did not end is lost to it.
Stop(lost) == /\ phase' = "idle" /\ pending' = <<>> /\ running' = <<>> /\ reaping' = <<>>
              /\ orphans' = orphans \cup lost

\* A plausible bug, for the checks: only the first job of the list is ended.
TerminatedFirst(procs, jobs) ==
  [j \in Jobs |-> IF jobs # <<>> /\ j = Head(jobs) /\ procs[j].st = "alive"
                  THEN Ended(procs[j], 1) ELSE procs[j]]

\* _terminate_running: every job still in the list is ended and waited for.
\* One step: an interrupt while it runs is left out.
Terminated(procs, jobs) ==
  [j \in Jobs |-> IF j \in Range(jobs) /\ procs[j].st = "alive"
                  THEN Ended(procs[j], 1) ELSE procs[j]]

Launch == LET j == Head(pending) IN
  /\ CanLaunch
  /\ child' = [child EXCEPT ![j] = Launched]
  /\ log' = Emptied(j)
  /\ pending' = Tail(pending) /\ running' = Append(running, j)
  /\ UNCHANGED <<options, phase, reaping, jsonl, comparison, text, orphans, late, faults>>

\* A plausible bug, for the checks: only jobs that ended well are collected.
PollSuccesses == LET ended == Only(running, {j \in Jobs : child[j].st = "exited" /\ child[j].code = 0}) IN
  /\ Looping /\ ~CanLaunch /\ ended # <<>>
  /\ reaping' = ended
  /\ UNCHANGED <<options, phase, pending, running, child, files, text, orphans, late, faults>>

\* Every ended job of one pass over the list.
Poll == LET ended == Only(running, {j \in Jobs : child[j].st = "exited"}) IN
  /\ Looping /\ ~CanLaunch /\ ended # <<>>
  /\ reaping' = ended
  /\ UNCHANGED <<options, phase, pending, running, child, files, text, orphans, late, faults>>

\* _finish_job: the reader is joined and the log closed, whole unless the join timed out.
Closed(j, cut) == [log EXCEPT ![j].whole = ~cut, ![j].saw = child[j].saw]

\* A plausible bug, for the checks: the exit code is not looked at.
ReapAnyCode(cut) == LET j == Head(reaping) IN
  /\ phase \in {"batch", "summary"} /\ reaping # <<>>
  /\ cut => Cardinality(late) < MaxLate
  /\ log' = Closed(j, cut)
  /\ late' = IF cut THEN late \cup {j} ELSE late
  /\ reaping' = Tail(reaping) /\ running' = Only(running, Jobs \ {j})
  /\ UNCHANGED <<options, phase, pending, child, orphans, jsonl, comparison, text, faults>>

\* A job that failed ends the others, and the driver with its code.
Reap(cut) == LET j == Head(reaping)
                 rest == Only(running, Jobs \ {j}) IN
  /\ phase \in {"batch", "summary"} /\ reaping # <<>>
  /\ cut => Cardinality(late) < MaxLate
  /\ log' = Closed(j, cut)
  /\ late' = IF cut THEN late \cup {j} ELSE late
  /\ IF child[j].code # 0
     THEN child' = Terminated(child, rest) /\ Stop({})
     ELSE /\ reaping' = Tail(reaping) /\ running' = rest
          /\ UNCHANGED <<phase, pending, child, orphans>>
  /\ UNCHANGED <<options, jsonl, comparison, text, faults>>

-----------------------------------------------------------------------------
(* The phases of a suite. *)

Start(s, seq) ==
  /\ phase = "idle" /\ Alive = {} /\ inv < MaxInvocations
  /\ suite' = s /\ sequential' = seq /\ inv' = inv + 1
  /\ phase' = "batch" /\ pending' = BatchJobs(s)
  /\ child' = [j \in Jobs |-> Absent]
  /\ text' = Missing /\ orphans' = {} /\ late' = {}
  /\ UNCHANGED <<running, reaping, files, faults>>

Drained == Looping /\ pending = <<>> /\ running = <<>>

\* validate_outputs_exist: the files of every mode are there, or the driver raises.
Validated == \A m \in Range(Modes(suite)) :
                jsonl[m] # Missing /\ log[[kind |-> "batch", mode |-> m]] # Missing
Summaries ==
  /\ Drained /\ phase = "batch"
  /\ IF Validated THEN phase' = "summary" /\ pending' = SummaryJobs(suite)
                  ELSE phase' = "idle" /\ UNCHANGED pending
  /\ UNCHANGED <<options, running, reaping, child, files, text, orphans, late, faults>>

\* What parse_log_metrics finds: the batch's own aggregate line, taken over the runs that
\* ended well; nothing when every run failed and when the log was cut.
Parsed(m) == IF log[[kind |-> "batch", mode |-> m]].whole THEN jsonl[m].ok ELSE {}
\* aggregate_jsonl_metrics takes its means over all rows.
Averaged(m) == jsonl[m].done
\* The line of the log replaces the mean of the rows.
Metric(m) == IF Parsed(m) # {} THEN [from |-> "log", runs |-> Parsed(m), ok |-> jsonl[m].ok]
                               ELSE [from |-> "rows", runs |-> Averaged(m), ok |-> jsonl[m].ok]
\* "PASS: off and record match on behavior metrics."
Match == Metric("off") = Metric("record")
ReadText(m) == log[[kind |-> "summary", mode |-> m]]
Collected == [by |-> inv, match |-> Match, summary |-> [m \in ReadBack(suite) |-> ReadText(m)]]
Collect ==
  /\ Drained /\ phase = "summary"
  /\ phase' = "writing" /\ text' = Collected
  /\ UNCHANGED <<options, pending, running, reaping, child, files, orphans, late, faults>>

\* write_text empties the file of the last invocation and then writes it.
Truncate ==
  /\ phase = "writing" /\ phase' = "closing"
  /\ comparison' = Missing
  /\ UNCHANGED <<options, pending, running, reaping, child, jsonl, log, text, orphans, late, faults>>
WriteText ==
  /\ phase = "closing" /\ phase' = "idle"
  /\ comparison' = text
  /\ UNCHANGED <<options, pending, running, reaping, child, jsonl, log, text, orphans, late, faults>>

-----------------------------------------------------------------------------
(* What stops the driver from outside. *)

Fault == phase # "idle" /\ faults < MaxFaults /\ faults' = faults + 1

\* A keyboard interrupt: caught by the command loop, which ends the jobs of its list.
Interrupted == /\ Fault
               /\ child' = Terminated(child, running) /\ Stop({})
               /\ UNCHANGED <<options, files, text, late>>

\* The interrupt arrives after Popen and before the job is in the list.
InterruptedLaunch == LET j == Head(pending) IN
  /\ Fault /\ CanLaunch
  /\ child' = Terminated([child EXCEPT ![j] = Launched], running) /\ Stop({j})
  /\ log' = Emptied(j)
  /\ UNCHANGED <<options, jsonl, comparison, text, late>>

\* Popen raises: nothing catches it, and the jobs of the list are left running.
LaunchRaises == LET j == Head(pending) IN
  /\ Fault /\ CanLaunch
  /\ log' = Emptied(j) /\ Stop(Alive)
  /\ UNCHANGED <<options, child, jsonl, comparison, text, late>>

Killed == /\ Fault /\ Stop(Alive)
          /\ UNCHANGED <<options, child, files, text, late>>

Driver == Launch \/ Poll \/ (\E cut \in BOOLEAN : Reap(cut))
          \/ Summaries \/ Collect \/ Truncate \/ WriteText
Next == \/ \E s \in Suites, seq \in BOOLEAN : Start(s, seq)
        \/ Driver
        \/ \E j \in Jobs : ChildStep(j)
        \/ Interrupted \/ InterruptedLaunch \/ LaunchRaises \/ Killed

\* The driver is a loop that polls every 50 ms; a batch ends because its runs are bounded
\* by their cycles, and a summary script reads one file.
Spec == Init /\ [][Next]_vars /\ WF_vars(Driver) /\ \A j \in Jobs : WF_vars(ChildStep(j))

-----------------------------------------------------------------------------
(* A comparison of this invocation is of this invocation: every batch and   *)
(* summary child ended with 0 before it was rendered, each read-back        *)
(* summary was made by this invocation from all the rows of its mode, and,  *)
(* unless a log was cut, off and record "match" exactly when the same runs  *)
(* of this invocation ended well in both.                                   *)
ComparisonOfThisRun ==
  (comparison # Missing /\ comparison.by = inv /\ phase = "idle") =>
    /\ \A m \in Range(Modes(suite)) : LET c == child[[kind |-> "batch", mode |-> m]] IN
         /\ c.st = "exited" /\ c.code = 0 /\ c.done = Configs
         /\ m \in ReadBack(suite) =>
              /\ comparison.summary[m].by = inv
              /\ comparison.summary[m].saw = [by |-> inv, done |-> Configs, ok |-> c.ok]
    /\ late = {} => comparison.match = (child[[kind |-> "batch", mode |-> "off"]].ok
                                          = child[[kind |-> "batch", mode |-> "record"]].ok)

(* When the driver has returned, no child of it runs, but for those lost to *)
(* an interrupt inside a launch, to a launch that raised or to its death.   *)
ChildrenGone == phase = "idle" => Alive \subseteq orphans

(* The driver and all its children come to an end, again and again, with    *)
(* failing jobs, interrupts and lost children.                              *)
SuiteEnds == []<>(phase = "idle" /\ Alive = {})

==========================================================================
