---------------------- MODULE ComparisonSuite_proofs ----------------------
(***************************************************************************)
(* Proofs about ComparisonSuite: when the driver has returned no child of  *)
(* it runs that it could have ended, and a comparison of this invocation   *)
(* is made from what the children of this invocation did.                  *)
(***************************************************************************)
EXTENDS ComparisonSuite, WellFoundedInduction, TLAPS

-----------------------------------------------------------------------------
(* The job lists: what Only keeps of a list, by induction over its length. *)

\* Induction over the naturals, for a set of them.
LEMMA SetInduction ==
  ASSUME NEW S, 0 \in S, \A n \in Nat : n \in S => n + 1 \in S
  PROVE  Nat \subseteq S
<1> SUFFICES ASSUME Nat \ S # {} PROVE FALSE
  OBVIOUS
<1> DEFINE R == OpToRel(<, Nat)
<1> DEFINE T == Nat \ S
<1>1. IsWellFoundedOn(R, Nat)
  BY NatLessThanWellFounded
<1>2. T \subseteq Nat /\ T # {}
  OBVIOUS
<1>3. \E x \in T : \A y \in T : ~(<<y, x>> \in R)
  <2> HIDE DEF R, T
  <2> QED
    BY <1>1, <1>2, WFMin
<1>4. \A x, y \in Nat : <<x, y>> \in R <=> x < y
  BY DEF OpToRel
<1>5. PICK x \in T : \A y \in T : ~(y < x)
  BY <1>3, <1>4
<1>6. x # 0 /\ x \in Nat /\ x - 1 \in Nat /\ x - 1 < x
  BY <1>5
<1>7. x - 1 \in S
  BY <1>5, <1>6
<1>8. (x - 1) + 1 \in S /\ (x - 1) + 1 = x
  BY <1>6, <1>7
<1> QED
  BY <1>5, <1>8

\* g is the fold of Only over the first n jobs of a list.
Keeps(jobs, S, n, g) ==
    g = [k \in 0..n |-> IF k = 0 THEN <<>>
                        ELSE IF jobs[k] \in S THEN Append(g[k - 1], jobs[k]) ELSE g[k - 1]]

LEMMA KeepsExists ==
    ASSUME NEW jobs, NEW S
    PROVE  \A n \in Nat : \E g : Keeps(jobs, S, n, g)
<1> DEFINE Good == {n \in Nat : \E g : Keeps(jobs, S, n, g)}
<1>1. 0 \in Good
  <2>1. Keeps(jobs, S, 0, [k \in 0..0 |-> <<>>])
    BY DEF Keeps
  <2> QED
    BY <2>1
<1>2. ASSUME NEW n \in Nat, n \in Good
      PROVE  n + 1 \in Good
  <2>1. PICK g : Keeps(jobs, S, n, g)
    BY <1>2
  <2> DEFINE last == IF jobs[n + 1] \in S THEN Append(g[n], jobs[n + 1]) ELSE g[n]
             h == [k \in 0..(n + 1) |-> IF k = n + 1 THEN last ELSE g[k]]
  <2>2. \A k \in 0..n : g[k] = IF k = 0 THEN <<>>
                        ELSE IF jobs[k] \in S THEN Append(g[k - 1], jobs[k]) ELSE g[k - 1]
    BY <2>1 DEF Keeps
  <2>3. ASSUME NEW k \in 0..(n + 1)
        PROVE  h[k] = IF k = 0 THEN <<>>
                      ELSE IF jobs[k] \in S THEN Append(h[k - 1], jobs[k]) ELSE h[k - 1]
    <3>1. CASE k = n + 1
      <4>1. k # 0 /\ k - 1 = n /\ n \in 0..(n+1) /\ n # n + 1
        BY <3>1
      <4>2. h[k] = last /\ h[k - 1] = g[n]
        BY <3>1, <4>1
      <4> QED
        BY <3>1, <4>1, <4>2
    <3>2. CASE k # n + 1
      <4>1. k \in 0..n /\ (k # 0 => k - 1 \in 0..n /\ k - 1 \in 0..(n+1) /\ k - 1 # n + 1)
        BY <3>2
      <4>2. h[k] = g[k] /\ (k # 0 => h[k - 1] = g[k - 1])
        BY <3>2, <4>1
      <4> QED
        BY <4>1, <4>2, <2>2
    <3> QED
      BY <3>1, <3>2
  <2>4. Keeps(jobs, S, n + 1, h)
    <3> HIDE DEF last
    <3>1. h = [k \in 0..(n + 1) |-> h[k]]
      OBVIOUS
    <3> HIDE DEF h
    <3> QED
      BY <2>3, <3>1 DEF Keeps
  <2> QED
    BY <2>4
<1> HIDE DEF Good
<1>3. Nat \subseteq Good
  BY <1>1, <1>2, SetInduction
<1> QED
  BY <1>3 DEF Good

LEMMA RangeEmpty == Range(<<>>) = {} /\ \A T : <<>> \in Seq(T)
<1>1. DOMAIN <<>> = {}
  OBVIOUS
<1> QED
  BY <1>1 DEF Range

LEMMA RangeAppend ==
    ASSUME NEW T, NEW s \in Seq(T), NEW e \in T
    PROVE  Range(Append(s, e)) = Range(s) \cup {e} /\ Append(s, e) \in Seq(T)
<1>1. Len(s) \in Nat /\ DOMAIN s = 1..Len(s) /\ DOMAIN Append(s, e) = 1..(Len(s) + 1)
  OBVIOUS
<1>2. Append(s, e)[Len(s) + 1] = e /\ \A i \in 1..Len(s) : Append(s, e)[i] = s[i]
  OBVIOUS
<1>3. ASSUME NEW x \in Range(Append(s, e)) PROVE x \in Range(s) \cup {e}
  <2>1. PICK i \in 1..(Len(s) + 1) : x = Append(s, e)[i]
    BY <1>1 DEF Range
  <2>2. i = Len(s) + 1 \/ i \in 1..Len(s)
    BY <1>1
  <2> QED
    BY <1>1, <1>2, <2>1, <2>2 DEF Range
<1>4. ASSUME NEW x \in Range(s) PROVE x \in Range(Append(s, e))
  <2>1. PICK i \in 1..Len(s) : x = s[i]
    BY <1>1 DEF Range
  <2>2. i \in 1..(Len(s) + 1)
    BY <1>1
  <2> QED
    BY <1>1, <1>2, <2>1, <2>2 DEF Range
<1>5. e \in Range(Append(s, e))
  <2>1. Len(s) + 1 \in 1..(Len(s) + 1)
    BY <1>1
  <2> QED
    BY <1>1, <1>2, <2>1 DEF Range
<1> QED
  BY <1>3, <1>4, <1>5

LEMMA RangeTail ==
    ASSUME NEW T, NEW s \in Seq(T), s # <<>>
    PROVE  /\ Range(s) = {Head(s)} \cup Range(Tail(s))
           /\ Tail(s) \in Seq(T) /\ Head(s) \in T
<1>1. /\ Len(s) \in Nat \ {0} /\ DOMAIN s = 1..Len(s) /\ DOMAIN Tail(s) = 1..(Len(s) - 1)
      /\ Tail(s) \in Seq(T) /\ Head(s) \in T
  OBVIOUS
<1>2. Head(s) = s[1] /\ \A i \in 1..(Len(s) - 1) : Tail(s)[i] = s[i + 1]
  OBVIOUS
<1>3. ASSUME NEW x \in Range(s) PROVE x \in {Head(s)} \cup Range(Tail(s))
  <2>1. PICK i \in 1..Len(s) : x = s[i]
    BY <1>1 DEF Range
  <2>2. CASE i = 1
    BY <1>2, <2>1, <2>2
  <2>3. CASE i # 1
    <3>1. i - 1 \in 1..(Len(s) - 1) /\ (i - 1) + 1 = i
      BY <1>1, <2>3
    <3> QED
      BY <1>1, <1>2, <2>1, <3>1 DEF Range
  <2> QED
    BY <2>2, <2>3
<1>4. ASSUME NEW x \in Range(Tail(s)) PROVE x \in Range(s)
  <2>1. PICK i \in 1..(Len(s) - 1) : x = Tail(s)[i]
    BY <1>1 DEF Range
  <2>2. i + 1 \in 1..Len(s)
    BY <1>1
  <2> QED
    BY <1>1, <1>2, <2>1, <2>2 DEF Range
<1>5. Head(s) \in Range(s)
  <2>1. 1 \in 1..Len(s)
    BY <1>1
  <2> QED
    BY <1>1, <1>2, <2>1 DEF Range
<1> QED
  BY <1>1, <1>3, <1>4, <1>5

LEMMA OnlySound ==
    ASSUME NEW jobs \in Seq(Jobs), NEW S
    PROVE  Only(jobs, S) \in Seq(Jobs) /\ Range(Only(jobs, S)) = Range(jobs) \cap S
<1> DEFINE g == CHOOSE f : Keeps(jobs, S, Len(jobs), f)
           Upto(n) == {jobs[i] : i \in 1..n}
           Good == {n \in Nat : n <= Len(jobs) =>
                      /\ g[n] \in Seq(Jobs)
                      /\ Range(g[n]) = Upto(n) \cap S}
<1>0. Len(jobs) \in Nat /\ \A i \in 1..Len(jobs) : jobs[i] \in Jobs
  OBVIOUS
<1>1. Keeps(jobs, S, Len(jobs), g)
  BY <1>0, KeepsExists
<1>2. Only(jobs, S) = g[Len(jobs)]
  BY DEF Only, Keeps
<1> HIDE DEF g
<1>3. \A k \in 0..Len(jobs) : g[k] = IF k = 0 THEN <<>>
                 ELSE IF jobs[k] \in S THEN Append(g[k - 1], jobs[k]) ELSE g[k - 1]
  BY <1>1 DEF Keeps
<1>4. 0 \in Good
  <2>1. g[0] = <<>>
    BY <1>0, <1>3
  <2>2. Upto(0) = {}
    OBVIOUS
  <2>3. g[0] \in Seq(Jobs) /\ Range(g[0]) = Upto(0) \cap S
    BY <2>1, <2>2, RangeEmpty
  <2> QED
    BY <2>3
<1>5. ASSUME NEW n \in Nat, n \in Good
      PROVE  n + 1 \in Good
  <2> SUFFICES ASSUME n + 1 <= Len(jobs)
               PROVE  /\ g[n + 1] \in Seq(Jobs)
                      /\ Range(g[n + 1]) = Upto(n + 1) \cap S
    OBVIOUS
  <2>1. g[n] \in Seq(Jobs) /\ Range(g[n]) = Upto(n) \cap S
    BY <1>0, <1>5
  <2>2. n + 1 \in 1..Len(jobs) /\ n + 1 \in 0..Len(jobs) /\ n + 1 # 0 /\ (n + 1) - 1 = n
    BY <1>0
  <2>3. Upto(n + 1) = Upto(n) \cup {jobs[n + 1]} /\ jobs[n + 1] \in Jobs
    BY <1>0, <2>2
  <2>4. g[n + 1] = IF jobs[n + 1] \in S THEN Append(g[n], jobs[n + 1]) ELSE g[n]
    BY <1>3, <2>2
  <2>5. CASE jobs[n + 1] \in S
    <3>1. g[n + 1] \in Seq(Jobs)
      BY <2>1, <2>3, <2>4, <2>5
    <3>2. Range(Append(g[n], jobs[n + 1])) = Range(g[n]) \cup {jobs[n + 1]}
      <4> HIDE DEF Upto
      <4> QED
        BY <2>1, <2>3, RangeAppend
    <3> QED
      BY <2>1, <2>3, <2>4, <2>5, <3>1, <3>2
  <2>6. CASE jobs[n + 1] \notin S
    BY <2>1, <2>3, <2>4, <2>6
  <2> QED
    BY <2>5, <2>6
<1>6. Nat \subseteq Good
  <2> HIDE DEF Good
  <2> QED BY <1>4, <1>5, SetInduction
<1>7. Upto(Len(jobs)) = Range(jobs)
  BY <1>0 DEF Range
<1>8. Len(jobs) \in Good
  BY <1>0, <1>6
<1>9. g[Len(jobs)] \in Seq(Jobs) /\ Range(g[Len(jobs)]) = Upto(Len(jobs)) \cap S
  BY <1>0, <1>8
<1> QED
  BY <1>2, <1>7, <1>9

-----------------------------------------------------------------------------
(* The inductive invariant. *)

ModeNames == {"off", "record", "assist"}
BatchOf(m)   == [kind |-> "batch", mode |-> m]
SummaryOf(m) == [kind |-> "summary", mode |-> m]

Seen      == {Missing} \cup [by : Nat, done : SUBSET Configs, ok : SUBSET Configs]
Processes == [st : {"absent", "alive", "exited"}, code : {0, 1}, open : BOOLEAN,
              done : SUBSET Configs, ok : SUBSET Configs, saw : Seen]
Logs      == {Missing} \cup [by : Nat, whole : BOOLEAN, saw : Seen]

TypeOK ==
    /\ inv \in Nat /\ phase \in {"idle", "batch", "summary", "writing", "closing"}
    /\ pending \in Seq(Jobs) /\ running \in Seq(Jobs) /\ reaping \in Seq(Jobs)
    /\ child \in [Jobs -> Processes]
    /\ jsonl \in [ModeNames -> Seen] /\ log \in [Jobs -> Logs]
    /\ late \subseteq Jobs

\* The jobs that ended well.
Done == {j \in Jobs : child[j].st = "exited" /\ child[j].code = 0}

\* What a batch child did is what its file holds.
BatchWrote ==
    \A m \in ModeNames : LET c == child[BatchOf(m)] IN
      /\ c.st = "alive" /\ ~c.open => c.done = {} /\ c.ok = {}
      /\ (c.st = "alive" /\ c.open) \/ BatchOf(m) \in Done
            => jsonl[m] = [by |-> inv, done |-> c.done, ok |-> c.ok]
      /\ BatchOf(m) \in Done => c.done = Configs

\* A summary that ended well read the whole file of its mode.
SummaryRead ==
    \A m \in ModeNames :
      SummaryOf(m) \in Done => BatchOf(m) \in Done /\ child[SummaryOf(m)].saw = jsonl[m]

\* A job is settled when it ended well and its log is closed.
Settled ==
    {j \in Done : log[j].saw = child[j].saw /\ (j \in late \/ log[j].whole)}

\* A launched job has its log opened by this invocation.
LogsOpened ==
    \A j \in Jobs : child[j].st # "absent" => log[j] # Missing /\ log[j].by = inv

Listed == Range(pending) \cup Range(running)

Batches    == {BatchOf(m) : m \in Range(Modes(suite))}
Summarised == {SummaryOf(m) : m \in Range(Tail(Modes(suite)))}

\* What is listed, what is settled and what is rendered, by phase.
Accounted ==
    /\ phase = "batch" =>
         /\ Listed \subseteq Batches /\ Batches \subseteq Listed \cup Settled
         /\ \A m \in ModeNames : SummaryOf(m) \notin Done
    /\ phase = "summary" =>
         /\ Listed \subseteq Summarised /\ Summarised \subseteq Listed \cup Settled
         /\ Batches \subseteq Settled
    /\ phase \in {"writing", "closing"} =>
         Listed = {} /\ Batches \cup Summarised \subseteq Settled /\ text = Collected

\* Every child alive is in the driver's list while it goes on.
AliveListed ==
    /\ phase # "idle" => Alive \subseteq Range(running)
    /\ phase = "idle" => Listed = {} /\ Alive \subseteq orphans
    /\ phase \notin {"batch", "summary"} => reaping = <<>>
    /\ \A j \in Range(reaping) : child[j].st = "exited"

\* The file of this invocation is the last thing it writes.
Compared ==
    \/ comparison = Missing
    \/ /\ comparison.by \in Nat /\ comparison.by < inv
    \/ /\ comparison.by = inv /\ phase = "idle"
       /\ comparison = Collected /\ Batches \cup Summarised \subseteq Settled

IInv ==
    /\ TypeOK /\ BatchWrote /\ SummaryRead /\ LogsOpened /\ Accounted
    /\ AliveListed /\ Compared


-----------------------------------------------------------------------------
(* The jobs of a suite, and the records they leave. *)

LEMMA JobFacts ==
    /\ \A m \in ModeNames : BatchOf(m) \in Jobs /\ SummaryOf(m) \in Jobs
    /\ \A j \in Jobs : j.mode \in ModeNames /\ (j = BatchOf(j.mode) \/ j = SummaryOf(j.mode))
    /\ \A j \in Jobs : j.kind = "batch" => j = BatchOf(j.mode)
    /\ \A j \in Jobs : j.kind = "summary" => j = SummaryOf(j.mode)
    /\ \A m, n : BatchOf(m) # SummaryOf(n)
    /\ \A m, n : (BatchOf(m) = BatchOf(n) \/ SummaryOf(m) = SummaryOf(n)) => m = n
BY DEF ModeNames, Jobs, BatchOf, SummaryOf

LEMMA JobsOfSound ==
    ASSUME NEW kind \in {"batch", "summary"}, NEW modes \in Seq(ModeNames)
    PROVE  /\ JobsOf(kind, modes) \in Seq(Jobs)
           /\ Range(JobsOf(kind, modes)) = {[kind |-> kind, mode |-> m] : m \in Range(modes)}
<1>1. Len(modes) \in Nat /\ DOMAIN modes = 1..Len(modes) /\ \A i \in DOMAIN modes : modes[i] \in ModeNames
  OBVIOUS
<1>2. \A m \in ModeNames : [kind |-> kind, mode |-> m] \in Jobs
  BY DEF Jobs, ModeNames
<1>3. JobsOf(kind, modes) \in [1..Len(modes) -> Jobs]
  BY <1>1, <1>2 DEF JobsOf
<1> QED
  BY <1>1, <1>3 DEF JobsOf, Range

LEMMA ModeFacts ==
    ASSUME NEW s
    PROVE  /\ Range(Tail(Modes(s))) \subseteq Range(Modes(s)) /\ Range(Modes(s)) \subseteq ModeNames
           /\ {"off", "record"} \subseteq Range(Modes(s))
           /\ ReadBack(s) \subseteq Range(Tail(Modes(s)))
           /\ BatchJobs(s) \in Seq(Jobs) /\ SummaryJobs(s) \in Seq(Jobs)
           /\ Range(BatchJobs(s)) = {BatchOf(m) : m \in Range(Modes(s))}
           /\ Range(SummaryJobs(s)) = {SummaryOf(m) : m \in Range(Tail(Modes(s)))}
<1>1. Modes(s) \in Seq(ModeNames) /\ Modes(s) # <<>> /\ Modes(s)[1] = "off" /\ Modes(s)[2] = "record"
      /\ Len(Modes(s)) \in Nat /\ Len(Modes(s)) >= 2
  <2>1. CASE s = "background_nethra"
    BY <2>1 DEF Modes, ModeNames
  <2>2. CASE s # "background_nethra"
    BY <2>2 DEF Modes, ModeNames
  <2> QED
    BY <2>1, <2>2
<1>2. Range(Modes(s)) = {Head(Modes(s))} \cup Range(Tail(Modes(s)))
      /\ Tail(Modes(s)) \in Seq(ModeNames)
  BY <1>1, RangeTail
<1>3. DOMAIN Modes(s) = 1..Len(Modes(s)) /\ \A i \in DOMAIN Modes(s) : Modes(s)[i] \in ModeNames
  BY <1>1
<1>4. Range(Modes(s)) \subseteq ModeNames /\ {"off", "record"} \subseteq Range(Modes(s))
  BY <1>1, <1>3 DEF Range
<1>5. ReadBack(s) \subseteq Range(Tail(Modes(s)))
  BY DEF ReadBack
<1> HIDE DEF Modes
<1> QED
  BY <1>1, <1>2, <1>4, <1>5, JobsOfSound DEF BatchJobs, SummaryJobs, BatchOf, SummaryOf

LEMMA RecordFacts ==
    /\ Missing \in Seen /\ Missing \in Logs
    /\ Absent \in Processes /\ Launched \in Processes
    /\ Absent.st = "absent"
    /\ Launched.st = "alive" /\ ~Launched.open /\ Launched.done = {} /\ Launched.ok = {}
    /\ \A p \in Processes : /\ Ended(p, 1) \in Processes
                            /\ Ended(p, 1).st = "exited" /\ Ended(p, 1).code = 1
    /\ \A p \in Processes : /\ Ended(p, 0) \in Processes
                            /\ Ended(p, 0) = [p EXCEPT !.st = "exited"]
    /\ \A r \in [by : Nat, whole : BOOLEAN, saw : Seen] : r # Missing
<1>1. Missing \in Seen /\ Missing \in Logs
  BY DEF Seen, Logs
<1>2. /\ Absent \in Processes /\ Absent.st = "absent"
      /\ ~Absent.open /\ Absent.done = {} /\ Absent.ok = {}
  BY <1>1 DEF Absent, Processes
<1>3. /\ Launched \in Processes /\ Launched.st = "alive"
      /\ ~Launched.open /\ Launched.done = {} /\ Launched.ok = {}
  BY <1>2 DEF Launched, Processes
<1>4. ASSUME NEW p \in Processes
      PROVE  /\ Ended(p, 1) \in Processes /\ Ended(p, 0) \in Processes
             /\ Ended(p, 1).st = "exited" /\ Ended(p, 1).code = 1
             /\ Ended(p, 0) = [p EXCEPT !.st = "exited"]
  <2>1. Ended(p, 0) = [p EXCEPT !.st = "exited"]
    BY DEF Ended
  <2>2. [p EXCEPT !.st = "exited"] \in Processes
    BY DEF Processes
  <2>3. Ended(p, 1) = [Absent EXCEPT !.st = "exited", !.code = 1]
    BY DEF Ended
  <2>4. \A q \in Processes : /\ [q EXCEPT !.st = "exited", !.code = 1] \in Processes
                              /\ [q EXCEPT !.st = "exited", !.code = 1].st = "exited"
                              /\ [q EXCEPT !.st = "exited", !.code = 1].code = 1
    BY DEF Processes
  <2> QED
    BY <1>2, <2>1, <2>2, <2>3, <2>4
<1>5. ASSUME NEW r \in [by : Nat, whole : BOOLEAN, saw : Seen] PROVE r # Missing
  <2>1. DOMAIN r = {"by", "whole", "saw"} /\ DOMAIN Missing = {"by"}
    BY DEF Missing
  <2> QED
    BY <2>1
<1> QED
  BY <1>1, <1>2, <1>3, <1>4, <1>5

\* What _terminate_running does to one job.
LEMMA TerminatedSound ==
    ASSUME NEW procs \in [Jobs -> Processes], NEW list
    PROVE  /\ Terminated(procs, list) \in [Jobs -> Processes]
           /\ \A j \in Jobs :
                \/ /\ Terminated(procs, list)[j] = procs[j]
                   /\ j \in Range(list) => procs[j].st # "alive"
                \/ /\ procs[j].st = "alive"
                   /\ Terminated(procs, list)[j].st = "exited"
                   /\ Terminated(procs, list)[j].code = 1
BY RecordFacts DEF Terminated

LEMMA InitHolds == Init => IInv
<1> SUFFICES ASSUME Init PROVE IInv
  OBVIOUS
<1>1. TypeOK
  <2>1. /\ inv \in Nat /\ phase \in {"idle", "batch", "summary", "writing", "closing"}
        /\ pending \in Seq(Jobs) /\ running \in Seq(Jobs) /\ reaping \in Seq(Jobs)
        /\ late \subseteq Jobs
    BY RangeEmpty DEF Init
  <2>2. /\ child \in [Jobs -> Processes]
        /\ jsonl \in [ModeNames -> Seen] /\ log \in [Jobs -> Logs]
    BY RecordFacts DEF Init, ModeNames
  <2> QED
    BY <2>1, <2>2 DEF TypeOK
<1>2. \A j \in Jobs : child[j].st = "absent"
  BY RecordFacts DEF Init
<1>3. BatchWrote /\ SummaryRead /\ LogsOpened
  BY <1>2, JobFacts DEF BatchWrote, SummaryRead, LogsOpened, Done
<1>4. Listed = {} /\ reaping = <<>> /\ phase = "idle" /\ comparison = Missing /\ Range(reaping) = {}
  BY RangeEmpty DEF Init, Listed
<1>5. Accounted
  BY <1>4 DEF Accounted
<1>6. AliveListed
  BY <1>2, <1>4 DEF AliveListed, Alive
<1> QED
  BY <1>1, <1>3, <1>4, <1>5, <1>6 DEF IInv, Compared

-----------------------------------------------------------------------------
(* The steps that end the work of the driver. *)

\* Whatever stops the driver before its file is closed: each job is as it was,
\* ended, or launched in the same step, and what is alive is an orphan.
LEMMA StopKeeps ==
    ASSUME IInv, phase # "idle",
           phase' = "idle", pending' = <<>>, running' = <<>>, reaping' = <<>>,
           UNCHANGED <<suite, inv, jsonl, comparison>>,
           late' \subseteq Jobs,
           child' \in [Jobs -> Processes], log' \in [Jobs -> Logs],
           \A j \in Jobs : \/ child'[j] = child[j]
                           \/ /\ child[j].st = "alive" \/ j \in Range(pending)
                              /\ \/ child'[j] = Launched
                                 \/ child'[j].st = "exited" /\ child'[j].code = 1,
           LogsOpened', (Alive \subseteq orphans)'
    PROVE  IInv'
<1> USE DEF IInv
<1>1. TypeOK'
  BY RangeEmpty DEF TypeOK
<1>2. BatchWrote'
  BY JobFacts, RecordFacts DEF BatchWrote, Done
<1>3. ASSUME NEW m \in ModeNames, SummaryOf(m) \in Done'
      PROVE  (BatchOf(m) \in Done /\ child[SummaryOf(m)].saw = jsonl[m])'
  <2>1. SummaryOf(m) \in Done /\ child'[SummaryOf(m)] = child[SummaryOf(m)]
    BY <1>3, JobFacts, RecordFacts DEF Done
  <2>2. BatchOf(m) \in Done /\ child[SummaryOf(m)].saw = jsonl[m]
    BY <2>1 DEF SummaryRead
  <2>3. BatchOf(m) \notin Range(pending)
    BY <2>1, JobFacts DEF TypeOK, Accounted, Listed, Summarised
  <2> QED
    BY <2>1, <2>2, <2>3, JobFacts DEF Done
<1>4. SummaryRead'
  BY <1>3 DEF SummaryRead
<1>5. Listed' = {} /\ Range(reaping') = {}
  BY RangeEmpty DEF Listed
<1>6. Accounted'
  BY DEF Accounted
<1>7. AliveListed'
  BY <1>5 DEF AliveListed
<1>8. Compared'
  BY DEF Compared
<1> QED
  BY <1>1, <1>2, <1>4, <1>6, <1>7, <1>8

\* Opening the log of a launched job.
LEMMA EmptiedSound ==
    ASSUME IInv, NEW j \in Jobs, log' = Emptied(j)
    PROVE  /\ log' \in [Jobs -> Logs]
           /\ log'[j] # Missing /\ log'[j].by = inv
           /\ \A i \in Jobs : i # j => log'[i] = log[i]
<1>1. inv \in Nat /\ log \in [Jobs -> Logs]
  BY DEF IInv, TypeOK
<1>2. [by |-> inv, whole |-> FALSE, saw |-> Missing] \in [by : Nat, whole : BOOLEAN, saw : Seen]
  BY <1>1, RecordFacts
<1> QED
  BY <1>1, <1>2, RecordFacts DEF Emptied, Logs

\* The next job to launch is in the queue, and not running any more if it was.
LEMMA NextJob ==
    ASSUME IInv, CanLaunch
    PROVE  /\ Head(pending) \in Jobs /\ Head(pending) \in Range(pending)
           /\ Range(pending) = {Head(pending)} \cup Range(Tail(pending))
           /\ Tail(pending) \in Seq(Jobs)
           /\ phase \in {"batch", "summary"} /\ reaping = <<>>
BY RangeTail DEF IInv, TypeOK, CanLaunch, Looping

LEMMA InterruptedKeeps == ASSUME IInv, Interrupted PROVE IInv'
<1>1. phase # "idle" /\ phase' = "idle" /\ pending' = <<>> /\ running' = <<>> /\ reaping' = <<>>
      /\ orphans' = orphans /\ child' = Terminated(child, running)
      /\ UNCHANGED <<suite, inv, jsonl, log, comparison, late>>
  BY DEF Interrupted, Fault, Stop, options, files
<1>2. child \in [Jobs -> Processes]
  BY DEF IInv, TypeOK
<1>3. \A j \in Jobs : \/ child'[j] = child[j] /\ (j \in Range(running) => child[j].st # "alive")
                      \/ /\ child[j].st = "alive"
                         /\ child'[j].st = "exited" /\ child'[j].code = 1
  BY <1>1, <1>2, TerminatedSound
<1>4. Alive' = {}
  BY <1>1, <1>3 DEF IInv, AliveListed, Alive
<1>5. LogsOpened'
  BY <1>1, <1>3 DEF IInv, LogsOpened
<1>6. child' \in [Jobs -> Processes] /\ log' \in [Jobs -> Logs] /\ late' \subseteq Jobs
  BY <1>1, <1>2, TerminatedSound DEF IInv, TypeOK
<1> QED
  BY <1>1, <1>3, <1>4, <1>5, <1>6, StopKeeps

LEMMA InterruptedLaunchKeeps == ASSUME IInv, InterruptedLaunch PROVE IInv'
<1> DEFINE j == Head(pending)
           procs == [child EXCEPT ![j] = Launched]
<1>1. phase # "idle" /\ phase' = "idle" /\ pending' = <<>> /\ running' = <<>> /\ reaping' = <<>>
      /\ orphans' = orphans \cup {j} /\ child' = Terminated(procs, running)
      /\ log' = Emptied(j) /\ CanLaunch
      /\ UNCHANGED <<suite, inv, jsonl, comparison, late>>
  BY DEF InterruptedLaunch, Fault, Stop, options
<1>2. child \in [Jobs -> Processes] /\ j \in Jobs /\ j \in Range(pending)
  BY <1>1, NextJob DEF IInv, TypeOK
<1>3. procs \in [Jobs -> Processes] /\ procs[j] = Launched /\ \A i \in Jobs : i # j => procs[i] = child[i]
  BY <1>2, RecordFacts
<1> HIDE DEF j, procs
<1>4. \A i \in Jobs : \/ child'[i] = procs[i] /\ (i \in Range(running) => procs[i].st # "alive")
                      \/ /\ procs[i].st = "alive"
                         /\ child'[i].st = "exited" /\ child'[i].code = 1
  BY <1>1, <1>3, TerminatedSound
<1>5. \A i \in Jobs : \/ child'[i] = child[i]
                      \/ /\ child[i].st = "alive" \/ i \in Range(pending)
                         /\ \/ child'[i] = Launched
                            \/ child'[i].st = "exited" /\ child'[i].code = 1
  BY <1>2, <1>3, <1>4
<1>6. Alive' \subseteq orphans'
  <2>1. Alive \subseteq Range(running)
    BY <1>1 DEF IInv, AliveListed
  <2> QED
    BY <1>1, <1>3, <1>4, <2>1 DEF Alive
<1>7. LogsOpened'
  <2>1. log'[j] # Missing /\ log'[j].by = inv /\ \A i \in Jobs : i # j => log'[i] = log[i]
    BY <1>1, <1>2, EmptiedSound
  <2> QED
    BY <1>1, <1>3, <1>4, <2>1 DEF IInv, LogsOpened
<1>8. child' \in [Jobs -> Processes] /\ log' \in [Jobs -> Logs] /\ late' \subseteq Jobs
  BY <1>1, <1>2, <1>3, TerminatedSound, EmptiedSound DEF IInv, TypeOK
<1> QED
  BY <1>1, <1>5, <1>6, <1>7, <1>8, StopKeeps

LEMMA LaunchRaisesKeeps == ASSUME IInv, LaunchRaises PROVE IInv'
<1> DEFINE j == Head(pending)
<1>1. phase # "idle" /\ phase' = "idle" /\ pending' = <<>> /\ running' = <<>> /\ reaping' = <<>>
      /\ orphans' = orphans \cup Alive /\ log' = Emptied(j) /\ CanLaunch
      /\ UNCHANGED <<suite, inv, child, jsonl, comparison, late>>
  BY DEF LaunchRaises, Fault, Stop, options
<1>2. j \in Jobs
  BY <1>1, NextJob
<1> HIDE DEF j
<1>3. log' \in [Jobs -> Logs] /\ LogsOpened'
  BY <1>1, <1>2, EmptiedSound DEF IInv, LogsOpened
<1>4. child' \in [Jobs -> Processes] /\ late' \subseteq Jobs /\ Alive' \subseteq orphans'
  BY <1>1 DEF IInv, TypeOK, Alive
<1> QED
  BY <1>1, <1>3, <1>4, StopKeeps

LEMMA KilledKeeps == ASSUME IInv, Killed PROVE IInv'
<1>1. phase # "idle" /\ phase' = "idle" /\ pending' = <<>> /\ running' = <<>> /\ reaping' = <<>>
      /\ orphans' = orphans \cup Alive
      /\ UNCHANGED <<suite, inv, child, jsonl, log, comparison, late>>
  BY DEF Killed, Fault, Stop, options, files
<1>2. /\ child' \in [Jobs -> Processes] /\ log' \in [Jobs -> Logs] /\ late' \subseteq Jobs
      /\ Alive' \subseteq orphans' /\ LogsOpened'
  BY <1>1 DEF IInv, TypeOK, Alive, LogsOpened
<1> QED
  BY <1>1, <1>2, StopKeeps

-----------------------------------------------------------------------------
(* The command loop. *)

LEMMA LaunchKeeps == ASSUME IInv, Launch PROVE IInv'
<1> DEFINE j == Head(pending)
<1>1. /\ CanLaunch
      /\ child' = [child EXCEPT ![j] = Launched] /\ log' = Emptied(j)
      /\ pending' = Tail(pending) /\ running' = Append(running, j)
      /\ UNCHANGED <<suite, inv, phase, reaping, jsonl, comparison, late, orphans>>
  BY DEF Launch, options
<1>2. /\ j \in Jobs /\ j \in Range(pending) /\ Range(pending) = {j} \cup Range(pending')
      /\ pending' \in Seq(Jobs) /\ phase \in {"batch", "summary"} /\ reaping = <<>>
  BY <1>1, NextJob
<1>3. Range(running') = Range(running) \cup {j} /\ running' \in Seq(Jobs)
  BY <1>1, <1>2, RangeAppend DEF IInv, TypeOK
<1>4. child' \in [Jobs -> Processes] /\ child'[j] = Launched /\ \A i \in Jobs : i # j => child'[i] = child[i]
  BY <1>1, <1>2, RecordFacts DEF IInv, TypeOK
<1>5. log' \in [Jobs -> Logs] /\ log'[j] # Missing /\ log'[j].by = inv
      /\ \A i \in Jobs : i # j => log'[i] = log[i]
  BY <1>1, <1>2, EmptiedSound
<1>6. Listed' = Listed
  BY <1>2, <1>3 DEF Listed
<1> HIDE DEF j
<1> USE DEF IInv
<1>7. TypeOK'
  BY <1>1, <1>2, <1>3, <1>4, <1>5 DEF TypeOK
<1>8. BatchWrote' /\ LogsOpened'
  BY <1>1, <1>4, <1>5, JobFacts, RecordFacts DEF BatchWrote, Done, LogsOpened
<1>9. j \notin Done' /\ \A i \in Jobs : i # j => (i \in Done' <=> i \in Done)
  BY <1>4, RecordFacts DEF Done
<1>9a. Settled \subseteq Settled' \cup {j}
  BY <1>1, <1>4, <1>5, <1>9 DEF Settled, Done
<1>10. SummaryRead'
  <2> SUFFICES ASSUME NEW m \in ModeNames, SummaryOf(m) \in Done'
               PROVE  (BatchOf(m) \in Done /\ child[SummaryOf(m)].saw = jsonl[m])'
    BY DEF SummaryRead
  <2>1. SummaryOf(m) # j /\ SummaryOf(m) \in Done
    BY <1>9, JobFacts
  <2>2. BatchOf(m) # j
    BY <1>2, <2>1, JobFacts DEF Accounted, Listed, Summarised
  <2> QED
    BY <1>1, <1>4, <1>9, <2>1, <2>2, JobFacts DEF SummaryRead
<1>11. Accounted'
  <2>1. j \in Listed /\ Batches' = Batches /\ Summarised' = Summarised
    BY <1>1, <1>2 DEF Listed, Batches, Summarised
  <2>2. CASE phase = "batch"
    <3>1. \A m \in ModeNames : SummaryOf(m) \notin Done'
      BY <1>9, <2>2, JobFacts DEF Accounted
    <3> QED
      BY <1>1, <1>6, <1>9a, <2>1, <2>2, <3>1 DEF Accounted
  <2>3. CASE phase = "summary"
    <3>1. j \notin Batches
      BY <2>1, <2>3, JobFacts DEF Accounted, Batches, Summarised
    <3> QED
      BY <1>1, <1>6, <1>9a, <2>1, <2>3, <3>1 DEF Accounted
  <2> QED
    BY <1>2, <2>2, <2>3
<1>12. AliveListed'
  <2>1. Range(reaping') = {}
    BY <1>1, <1>2, RangeEmpty
  <2>2. Alive' \subseteq Alive \cup {j}
    BY <1>4 DEF Alive
  <2> QED
    BY <1>1, <1>2, <1>3, <2>1, <2>2 DEF AliveListed
<1>13. Compared'
  BY <1>1, <1>2 DEF Compared
<1> QED
  BY <1>7, <1>8, <1>10, <1>11, <1>12, <1>13

LEMMA PollKeeps == ASSUME IInv, Poll PROVE IInv'
<1> DEFINE S == {j \in Jobs : child[j].st = "exited"}
<1>1. /\ Looping /\ reaping' = Only(running, S)
      /\ UNCHANGED <<suite, inv, phase, pending, running, child, jsonl, log, comparison, orphans, late>>
  BY DEF Poll, options, files
<1>2. reaping' \in Seq(Jobs) /\ Range(reaping') = Range(running) \cap S
  <2> HIDE DEF S
  <2> QED
    BY <1>1, OnlySound DEF IInv, TypeOK
<1>3. phase \in {"batch", "summary"}
  BY <1>1 DEF Looping
<1>4. TypeOK' /\ BatchWrote' /\ SummaryRead' /\ LogsOpened'
  BY <1>1, <1>2 DEF IInv, TypeOK, BatchWrote, SummaryRead, LogsOpened, Done
<1>5. Listed' = Listed /\ Alive' = Alive
  BY <1>1 DEF Listed, Alive
<1>6. Accounted'
  BY <1>1, <1>3, <1>5 DEF IInv, Accounted, Batches, Summarised, Settled, Done, ModeNames
<1>7. AliveListed'
  BY <1>1, <1>2, <1>3, <1>5 DEF IInv, AliveListed
<1>8. Compared'
  BY <1>1, <1>3 DEF IInv, Compared
<1> QED
  BY <1>4, <1>6, <1>7, <1>8 DEF IInv

\* Closing the log of a job that was launched.
LEMMA ClosedSound ==
    ASSUME IInv, NEW j \in Jobs, child[j].st # "absent", NEW cut \in BOOLEAN, log' = Closed(j, cut)
    PROVE  /\ log' \in [Jobs -> Logs]
           /\ log'[j] # Missing /\ log'[j].by = inv
           /\ log'[j].whole = ~cut /\ log'[j].saw = child[j].saw
           /\ \A i \in Jobs : i # j => log'[i] = log[i]
<1> DEFINE Opened == [by : Nat, whole : BOOLEAN, saw : Seen]
<1>1. log \in [Jobs -> Logs] /\ log[j] \in Opened /\ log[j].by = inv /\ child[j].saw \in Seen
  BY DEF IInv, TypeOK, LogsOpened, Logs, Processes
<1>2. /\ log' = [i \in Jobs |-> log'[i]] /\ \A i \in Jobs : i # j => log'[i] = log[i]
      /\ log'[j] = [log[j] EXCEPT !.whole = ~cut, !.saw = child[j].saw]
  <2> DEFINE half == [log EXCEPT ![j].whole = ~cut]
  <2>1. log' = [half EXCEPT ![j].saw = child[j].saw]
    BY DEF Closed
  <2>2. half \in [Jobs -> {half[i] : i \in Jobs}] /\ half[j] = [log[j] EXCEPT !.whole = ~cut]
        /\ \A i \in Jobs : i # j => half[i] = log[i]
    BY <1>1
  <2> HIDE DEF half
  <2>3. log' \in [Jobs -> {log'[i] : i \in Jobs}] /\ log'[j] = [half[j] EXCEPT !.saw = child[j].saw]
        /\ \A i \in Jobs : i # j => log'[i] = half[i]
    BY <2>1, <2>2
  <2> QED
    BY <2>2, <2>3
<1> DEFINE w == ~cut
<1>3. w \in BOOLEAN /\ log'[j] = [log[j] EXCEPT !.whole = w, !.saw = child[j].saw]
  BY <1>2
<1> HIDE DEF w
<1>4. /\ log'[j] \in Opened /\ log'[j].by = inv
      /\ log'[j].whole = w /\ log'[j].saw = child[j].saw
  BY <1>1, <1>3
<1>5. log' \in [Jobs -> Logs]
  BY <1>1, <1>2, <1>4 DEF Logs, Opened
<1> QED
  BY <1>2, <1>4, <1>5, RecordFacts DEF w

\* What both outcomes of a job that ended have in common.
LEMMA ReapCommon ==
    ASSUME IInv, NEW cut \in BOOLEAN, Reap(cut)
    PROVE  LET j == Head(reaping)
               rest == Only(running, Jobs \ {j}) IN
           /\ j \in Jobs /\ child[j].st = "exited" /\ phase \in {"batch", "summary"}
           /\ rest \in Seq(Jobs) /\ Range(rest) = Range(running) \ {j}
           /\ Tail(reaping) \in Seq(Jobs) /\ Range(Tail(reaping)) \subseteq Range(reaping)
           /\ late' \subseteq Jobs /\ late \subseteq late' /\ (cut => j \in late')
           /\ log' = Closed(j, cut)
           /\ UNCHANGED <<suite, inv, jsonl, comparison>>
<1> DEFINE j == Head(reaping)
           rest == Only(running, Jobs \ {j})
<1>1. /\ phase \in {"batch", "summary"} /\ reaping # <<>> /\ log' = Closed(j, cut)
      /\ late' = IF cut THEN late \cup {j} ELSE late
      /\ UNCHANGED <<suite, inv, jsonl, comparison>>
  BY DEF Reap, options
<1>2. /\ j \in Jobs /\ Range(reaping) = {j} \cup Range(Tail(reaping))
      /\ Tail(reaping) \in Seq(Jobs)
  BY <1>1, RangeTail DEF IInv, TypeOK
<1>3. child[j].st = "exited"
  BY <1>2 DEF IInv, AliveListed
<1> HIDE DEF j
<1>4. rest \in Seq(Jobs) /\ Range(rest) = Range(running) \cap (Jobs \ {j})
  BY OnlySound DEF IInv, TypeOK
<1>5. Range(running) \subseteq Jobs
  BY DEF IInv, TypeOK, Range
<1> HIDE DEF rest
<1>6. Range(rest) = Range(running) \ {j}
  BY <1>4, <1>5
<1>7. late' \subseteq Jobs /\ late \subseteq late' /\ (cut => j \in late')
  BY <1>1, <1>2 DEF IInv, TypeOK
<1> QED
  BY <1>1, <1>2, <1>3, <1>4, <1>6, <1>7 DEF j, rest

LEMMA ReapKeeps == ASSUME IInv, NEW cut \in BOOLEAN, Reap(cut) PROVE IInv'
<1> DEFINE j == Head(reaping)
           rest == Only(running, Jobs \ {j})
<1>1. /\ j \in Jobs /\ child[j].st = "exited" /\ phase \in {"batch", "summary"}
      /\ rest \in Seq(Jobs) /\ Range(rest) = Range(running) \ {j}
      /\ Tail(reaping) \in Seq(Jobs) /\ Range(Tail(reaping)) \subseteq Range(reaping)
      /\ late' \subseteq Jobs /\ late \subseteq late' /\ (cut => j \in late')
      /\ log' = Closed(j, cut)
      /\ UNCHANGED <<suite, inv, jsonl, comparison>>
  BY ReapCommon
<1>2. \/ /\ child[j].code # 0 /\ child' = Terminated(child, rest)
         /\ phase' = "idle" /\ pending' = <<>> /\ running' = <<>> /\ reaping' = <<>>
         /\ orphans' = orphans \cup {}
      \/ /\ child[j].code = 0 /\ reaping' = Tail(reaping) /\ running' = rest
         /\ UNCHANGED <<phase, pending, child, orphans>>
  BY DEF Reap, Stop
<1> HIDE DEF j, rest
<1>3. /\ log' \in [Jobs -> Logs] /\ log'[j] # Missing /\ log'[j].by = inv
      /\ log'[j].whole = ~cut /\ log'[j].saw = child[j].saw
      /\ \A i \in Jobs : i # j => log'[i] = log[i]
  BY <1>1, ClosedSound
<1>4. child \in [Jobs -> Processes] /\ Alive \subseteq Range(running)
  BY <1>1 DEF IInv, TypeOK, AliveListed
<1>5. CASE child[j].code # 0
  <2>1. child' = Terminated(child, rest) /\ orphans' = orphans
        /\ phase' = "idle" /\ pending' = <<>> /\ running' = <<>> /\ reaping' = <<>>
    BY <1>2, <1>5
  <2>2. \A i \in Jobs : \/ child'[i] = child[i] /\ (i \in Range(rest) => child[i].st # "alive")
                        \/ /\ child[i].st = "alive"
                           /\ child'[i].st = "exited" /\ child'[i].code = 1
    BY <1>4, <2>1, TerminatedSound
  <2>3. Alive' = {}
    BY <1>1, <1>4, <2>2 DEF Alive
  <2>4. LogsOpened'
    BY <1>1, <1>3, <2>2 DEF IInv, LogsOpened
  <2>5. child' \in [Jobs -> Processes]
    BY <1>4, <2>1, TerminatedSound
  <2> QED
    BY <1>1, <1>3, <2>1, <2>2, <2>3, <2>4, <2>5, StopKeeps
<1>6. CASE child[j].code = 0
  <2>1. /\ reaping' = Tail(reaping) /\ running' = rest
        /\ UNCHANGED <<phase, pending, child, orphans>>
    BY <1>2, <1>6
  <2>2. Done' = Done /\ Alive' = Alive /\ Batches' = Batches /\ Summarised' = Summarised
    BY <1>1, <2>1 DEF Done, Alive, Batches, Summarised
  <2>3. Settled \cup {j} \subseteq Settled'
    BY <1>1, <1>3, <1>6, <2>1, <2>2 DEF Settled, Done
  <2>4. Listed \subseteq Listed' \cup {j} /\ Listed' \subseteq Listed
    BY <1>1, <2>1 DEF Listed
  <2>5. TypeOK'
    BY <1>1, <1>3, <2>1 DEF IInv, TypeOK
  <2>6. BatchWrote' /\ SummaryRead'
    BY <1>1, <2>1, <2>2 DEF IInv, BatchWrote, SummaryRead
  <2>7. LogsOpened'
    BY <1>1, <1>3, <2>1 DEF IInv, LogsOpened
  <2>8. Accounted'
    BY <1>1, <2>1, <2>2, <2>3, <2>4 DEF IInv, Accounted
  <2>9. AliveListed'
    <3>1. Alive \subseteq Range(rest)
      BY <1>1, <1>4 DEF Alive
    <3> QED
      BY <1>1, <2>1, <2>2, <3>1 DEF IInv, AliveListed
  <2>10. Compared'
    BY <1>1, <2>1 DEF IInv, Compared
  <2> QED
    BY <2>5, <2>6, <2>7, <2>8, <2>9, <2>10 DEF IInv
<1> QED
  BY <1>5, <1>6

-----------------------------------------------------------------------------
(* The phases of a suite. *)

LEMMA StartKeeps ==
    ASSUME IInv, NEW s \in Suites, NEW seq \in BOOLEAN, Start(s, seq)
    PROVE  IInv'
<1>1. /\ phase = "idle" /\ suite' = s /\ inv' = inv + 1 /\ inv \in Nat
      /\ phase' = "batch" /\ pending' = BatchJobs(s)
      /\ child' = [j \in Jobs |-> Absent] /\ late' = {}
      /\ UNCHANGED <<running, reaping, jsonl, log, comparison>>
  BY DEF Start, files, IInv, TypeOK
<1>2. \A j \in Jobs : child'[j].st = "absent"
  BY <1>1, RecordFacts
<1>3. Range(running) = {} /\ reaping = <<>>
  BY <1>1 DEF IInv, AliveListed, Listed
<1>4. TypeOK'
  BY <1>1, RecordFacts, ModeFacts DEF IInv, TypeOK
<1>5. BatchWrote' /\ SummaryRead' /\ LogsOpened' /\ Done' = {} /\ Alive' = {}
  BY <1>2, JobFacts DEF BatchWrote, SummaryRead, LogsOpened, Done, Alive
<1>6. Listed' = Batches'
  <2>1. Range(BatchJobs(s)) = {BatchOf(m) : m \in Range(Modes(s))}
    BY ModeFacts
  <2> QED
    BY <1>1, <1>3, <2>1 DEF Listed, Batches
<1>7. Accounted'
  BY <1>1, <1>5, <1>6 DEF Accounted
<1>8. AliveListed'
  BY <1>1, <1>3, <1>5, RangeEmpty DEF AliveListed
<1>9. Compared'
  <2>1. CASE comparison = Missing
    BY <1>1, <2>1 DEF Compared
  <2>2. CASE comparison.by \in Nat /\ comparison.by <= inv
    <3>1. comparison'.by \in Nat /\ comparison'.by < inv'
      BY <1>1, <2>2
    <3> QED
      BY <3>1 DEF Compared
  <2>3. comparison = Missing \/ (comparison.by \in Nat /\ comparison.by <= inv)
    BY <1>1 DEF IInv, Compared
  <2> QED
    BY <2>1, <2>2, <2>3
<1> QED
  BY <1>4, <1>5, <1>7, <1>8, <1>9 DEF IInv

LEMMA SummariesKeeps == ASSUME IInv, Summaries PROVE IInv'
<1>1. /\ phase = "batch" /\ reaping = <<>> /\ pending = <<>> /\ running = <<>>
      /\ \/ phase' = "summary" /\ pending' = SummaryJobs(suite)
         \/ phase' = "idle" /\ pending' = pending
      /\ UNCHANGED <<suite, inv, running, reaping, child, jsonl, log, comparison, orphans, late>>
  BY DEF Summaries, Drained, Looping, options, files
<1>2. Range(pending) = {} /\ Range(running) = {} /\ Listed = {}
  BY <1>1, RangeEmpty DEF Listed
<1>3. TypeOK'
  BY <1>1, ModeFacts DEF IInv, TypeOK
<1>4. Done' = Done /\ Alive' = Alive /\ Batches' = Batches /\ Summarised' = Summarised /\ Settled' = Settled
  BY <1>1 DEF Done, Alive, Batches, Summarised, Settled
<1>5. BatchWrote' /\ SummaryRead' /\ LogsOpened'
  BY <1>1, <1>4 DEF IInv, BatchWrote, SummaryRead, LogsOpened
<1>6. phase' = "summary" => Listed' = Summarised'
  BY <1>1, <1>2, ModeFacts DEF Listed, Summarised
<1>7. phase' = "idle" => Listed' = {}
  BY <1>1, <1>2 DEF Listed
<1>8. Accounted'
  BY <1>1, <1>2, <1>4, <1>6, <1>7 DEF IInv, Accounted
<1>9. AliveListed'
  BY <1>1, <1>2, <1>4, <1>7 DEF IInv, AliveListed
<1>10. Compared'
  BY <1>1 DEF IInv, Compared
<1> QED
  BY <1>3, <1>5, <1>8, <1>9, <1>10 DEF IInv

\* Nothing but the text, the file and what the driver is doing changes.
LEMMA RestKeeps ==
    ASSUME IInv, UNCHANGED <<suite, inv, pending, running, reaping, child, jsonl, log, late, orphans>>,
           phase' \in {"idle", "writing", "closing"}
    PROVE  /\ TypeOK' /\ BatchWrote' /\ SummaryRead' /\ LogsOpened'
           /\ Done' = Done /\ Alive' = Alive /\ Settled' = Settled /\ Listed' = Listed
           /\ Batches' = Batches /\ Summarised' = Summarised /\ Collected' = Collected
<1>1. /\ Done' = Done /\ Alive' = Alive /\ Settled' = Settled /\ Listed' = Listed
      /\ Batches' = Batches /\ Summarised' = Summarised
  BY DEF Done, Alive, Batches, Summarised, Settled, Listed
<1>2. Collected' = Collected
  BY DEF Collected, Match, Metric, Parsed, Averaged, ReadText
<1>3. TypeOK' /\ BatchWrote' /\ SummaryRead' /\ LogsOpened'
  BY <1>1 DEF IInv, TypeOK, BatchWrote, SummaryRead, LogsOpened
<1> QED
  BY <1>1, <1>2, <1>3

LEMMA CollectKeeps == ASSUME IInv, Collect PROVE IInv'
<1>1. /\ phase = "summary" /\ phase' = "writing" /\ text' = Collected
      /\ reaping = <<>> /\ pending = <<>> /\ running = <<>>
      /\ UNCHANGED <<suite, inv, pending, running, reaping, child, jsonl, log, comparison, late, orphans>>
  BY DEF Collect, Drained, Looping, options, files
<1>2. Listed = {}
  BY <1>1, RangeEmpty DEF Listed
<1>3. Accounted'
  BY <1>1, <1>2, RestKeeps DEF IInv, Accounted
<1>4. AliveListed'
  BY <1>1, RestKeeps DEF IInv, AliveListed
<1>5. Compared'
  BY <1>1 DEF IInv, Compared
<1> QED
  BY <1>1, <1>3, <1>4, <1>5, RestKeeps DEF IInv

LEMMA TruncateKeeps == ASSUME IInv, Truncate PROVE IInv'
<1>1. /\ phase = "writing" /\ phase' = "closing" /\ comparison' = Missing
      /\ UNCHANGED <<suite, inv, pending, running, reaping, child, jsonl, log, text, late, orphans>>
  BY DEF Truncate, options
<1>2. Accounted'
  BY <1>1, RestKeeps DEF IInv, Accounted
<1>3. AliveListed'
  BY <1>1, RestKeeps DEF IInv, AliveListed
<1>4. Compared'
  BY <1>1 DEF Compared
<1> QED
  BY <1>1, <1>2, <1>3, <1>4, RestKeeps DEF IInv

LEMMA WriteTextKeeps == ASSUME IInv, WriteText PROVE IInv'
<1>1. /\ phase = "closing" /\ phase' = "idle" /\ comparison' = text
      /\ UNCHANGED <<suite, inv, pending, running, reaping, child, jsonl, log, text, late, orphans>>
  BY DEF WriteText, options
<1>2. Listed = {} /\ Batches \cup Summarised \subseteq Settled /\ text = Collected
  BY <1>1 DEF IInv, Accounted
<1>3. Accounted'
  BY <1>1 DEF Accounted
<1>4. Alive = {}
  BY <1>1, <1>2 DEF IInv, AliveListed, Listed
<1>5. AliveListed'
  BY <1>1, <1>2, <1>4, RestKeeps DEF IInv, AliveListed
<1>6. Compared'
  <2>1. Collected.by = inv
    BY DEF Collected
  <2>2. comparison' = Collected' /\ comparison'.by = inv'
    BY <1>1, <1>2, <2>1, RestKeeps
  <2> QED
    BY <1>1, <1>2, <2>2, RestKeeps DEF Compared
<1> QED
  BY <1>1, <1>3, <1>5, <1>6, RestKeeps DEF IInv

-----------------------------------------------------------------------------
(* The children. *)

\* A child that moves changes itself and the file of its mode.
LEMMA ChildKeeps ==
    ASSUME IInv, NEW j \in Jobs, child[j].st = "alive",
           child' \in [Jobs -> Processes], child'[j].st # "absent",
           \A i \in Jobs : i # j => child'[i] = child[i],
           UNCHANGED <<suite, inv, phase, pending, running, reaping, log, text, comparison, orphans, late>>,
           jsonl' \in [ModeNames -> Seen], phase = "idle" => jsonl' = jsonl,
           BatchWrote', SummaryRead'
    PROVE  IInv'
<1> USE DEF IInv
<1>1. TypeOK' /\ LogsOpened'
  BY DEF TypeOK, LogsOpened
<1>2. /\ Listed' = Listed /\ Alive' \subseteq Alive /\ Batches' = Batches /\ Summarised' = Summarised
      /\ j \in Alive
  BY DEF Listed, Alive, Batches, Summarised
<1>3. Settled \subseteq Settled' /\ Done' \subseteq Done \cup {j}
  BY DEF Settled, Done
<1>4. phase # "idle" => j \in Listed
  BY <1>2 DEF AliveListed, Listed
<1>5. Accounted'
  <2>1. phase = "batch" => \A m \in ModeNames : SummaryOf(m) \notin Done'
    BY <1>3, <1>4, JobFacts DEF Accounted, Batches
  <2> QED
    BY <1>2, <1>3, <1>4, <2>1 DEF Accounted
<1>6. AliveListed'
  <2>1. \A i \in Range(reaping) : i # j /\ i \in Jobs
    BY DEF AliveListed, TypeOK, Range
  <2> QED
    BY <1>2, <2>1 DEF AliveListed
<1>7. Compared'
  <2>1. phase = "idle" => Collected' = Collected
    BY DEF Collected, Match, Metric, Parsed, Averaged, ReadText
  <2> QED
    BY <1>2, <1>3, <2>1 DEF Compared
<1> QED
  BY <1>1, <1>5, <1>6, <1>7

\* A batch runs in the first phase only, a summary in the second.
LEMMA RunningPhase ==
    ASSUME IInv, NEW m \in ModeNames
    PROVE  /\ Running(BatchOf(m)) => \A n \in ModeNames : SummaryOf(n) \notin Done
           /\ Running(SummaryOf(m)) => BatchOf(m) \in Done
<1>1. ASSUME NEW j \in Jobs, Running(j)
      PROVE  j \in Listed /\ phase \in {"batch", "summary"}
  BY <1>1 DEF Running, IInv, AliveListed, Alive, Listed, Accounted, TypeOK
<1>2. BatchOf(m) \in Jobs /\ SummaryOf(m) \in Jobs
  BY JobFacts
<1>3. Running(BatchOf(m)) => phase = "batch"
  BY <1>1, <1>2, JobFacts DEF IInv, Accounted, Summarised
<1>4. Running(SummaryOf(m)) => phase = "summary" /\ m \in Range(Tail(Modes(suite)))
  BY <1>1, <1>2, JobFacts DEF IInv, Accounted, Batches, Summarised
<1>5. m \in Range(Tail(Modes(suite))) => BatchOf(m) \in Batches
  BY ModeFacts DEF Batches
<1> QED
  BY <1>3, <1>4, <1>5 DEF IInv, Accounted, Settled

\* What is left to show when a batch moves: its file and its record still agree.
LEMMA BatchStep ==
    ASSUME IInv, NEW m \in ModeNames, Running(BatchOf(m)),
           NEW c \in Processes, child' = [child EXCEPT ![BatchOf(m)] = c],
           NEW f \in Seen, jsonl' = [jsonl EXCEPT ![m] = f],
           c.st = "alive" \/ (c.st = "exited" /\ c.done = Configs),
           c.st = "alive" => c.open,
           f = [by |-> inv, done |-> c.done, ok |-> c.ok],
           UNCHANGED <<suite, inv, phase, pending, running, reaping, log, text, comparison, orphans, late>>
    PROVE  IInv'
<1> DEFINE j == BatchOf(m)
<1>1. /\ j \in Jobs /\ child[j].st = "alive" /\ phase # "idle"
      /\ child' \in [Jobs -> Processes] /\ child'[j] = c
      /\ \A i \in Jobs : i # j => child'[i] = child[i]
      /\ jsonl' \in [ModeNames -> Seen] /\ jsonl'[m] = f
      /\ \A n \in ModeNames : n # m => jsonl'[n] = jsonl[n]
  BY JobFacts DEF IInv, TypeOK, Running
<1>2. BatchWrote'
  <2> SUFFICES ASSUME NEW n \in ModeNames
               PROVE  LET d == child'[BatchOf(n)] IN
                        /\ d.st = "alive" /\ ~d.open => d.done = {} /\ d.ok = {}
                        /\ (d.st = "alive" /\ d.open) \/ BatchOf(n) \in Done'
                              => jsonl'[n] = [by |-> inv, done |-> d.done, ok |-> d.ok]
                        /\ BatchOf(n) \in Done' => d.done = Configs
    BY DEF BatchWrote
  <2>1. CASE n = m
    BY <1>1, <2>1 DEF Done
  <2>2. CASE n # m
    <3>1. BatchOf(n) # j /\ BatchOf(n) \in Jobs
      BY <2>2, JobFacts
    <3>2. child'[BatchOf(n)] = child[BatchOf(n)] /\ jsonl'[n] = jsonl[n]
          /\ (BatchOf(n) \in Done' <=> BatchOf(n) \in Done)
      BY <1>1, <2>2, <3>1 DEF Done
    <3> QED
      BY <3>2 DEF IInv, BatchWrote
  <2> QED
    BY <2>1, <2>2
<1>3. SummaryRead'
  BY <1>1, RunningPhase, JobFacts DEF SummaryRead, Done
<1> QED
  BY <1>1, <1>2, <1>3, ChildKeeps

LEMMA ChildStepKeeps == ASSUME IInv, NEW j \in Jobs, ChildStep(j) PROVE IInv'
<1> DEFINE m == j.mode
<1>0. UNCHANGED <<suite, inv, phase, pending, running, reaping, log, text, comparison, orphans, late>>
  BY DEF ChildStep, options, OpenOut, Row, Finished, Summarise, Fails
<1>1. m \in ModeNames /\ (j.kind = "batch" => j = BatchOf(m)) /\ (j.kind = "summary" => j = SummaryOf(m))
  BY JobFacts
<1>2. child \in [Jobs -> Processes] /\ jsonl \in [ModeNames -> Seen] /\ inv \in Nat
  BY DEF IInv, TypeOK
<1>3. child[j] \in Processes /\ jsonl[m] \in Seen
  BY <1>1, <1>2
<1>4. ASSUME j.kind = "batch", Running(j)
      PROVE  /\ ~child[j].open => child[j].done = {} /\ child[j].ok = {}
             /\ child[j].open => jsonl[m] = [by |-> inv, done |-> child[j].done, ok |-> child[j].ok]
  BY <1>1, <1>4 DEF IInv, BatchWrote, Running
<1> HIDE DEF m
<1>5. CASE j.kind = "batch" /\ OpenOut(m)
  <2> DEFINE c == [child[j] EXCEPT !.open = TRUE]
             f == [by |-> inv, done |-> {}, ok |-> {}]
  <2>1. j = BatchOf(m) /\ Running(j) /\ ~child[j].open
        /\ child' = [child EXCEPT ![j].open = TRUE] /\ jsonl' = [jsonl EXCEPT ![m] = f]
    BY <1>1, <1>5 DEF OpenOut, BatchOf
  <2>2. child' = [child EXCEPT ![j] = c]
    BY <1>2, <2>1
  <2>3. c \in Processes /\ c.st = "alive" /\ c.open /\ c.done = {} /\ c.ok = {} /\ f \in Seen
    BY <1>2, <1>3, <1>4, <1>5, <2>1 DEF Processes, Seen, Running
  <2> HIDE DEF c
  <2> QED
    BY <1>0, <1>1, <2>1, <2>2, <2>3, BatchStep
<1>6. CASE j.kind = "batch" /\ \E x \in Configs, good \in BOOLEAN : Row(m, x, good)
  <2>1. PICK x \in Configs, good \in BOOLEAN : Row(m, x, good)
    BY <1>6
  <2> DEFINE won == IF good THEN {x} ELSE {}
             c == [child[j] EXCEPT !.done = @ \cup {x}, !.ok = @ \cup won]
             f == [jsonl[m] EXCEPT !.done = @ \cup {x}, !.ok = @ \cup won]
  <2>2. j = BatchOf(m) /\ Running(j) /\ child[j].open /\ won \subseteq Configs
    BY <1>1, <1>6, <2>1 DEF Row, BatchOf
  <2>3. /\ child' = [child EXCEPT ![j].done = @ \cup {x}, ![j].ok = @ \cup won]
        /\ jsonl' = [jsonl EXCEPT ![m].done = @ \cup {x}, ![m].ok = @ \cup won]
    BY <1>1, <1>6, <2>1 DEF Row, BatchOf
  <2> HIDE DEF won
  <2>4. child' = [child EXCEPT ![j] = c]
    BY <1>2, <2>3
  <2>5. jsonl' = [jsonl EXCEPT ![m] = f]
    BY <1>1, <1>2, <2>3
  <2>6. c \in Processes /\ c.st = "alive" /\ c.open
        /\ c.done = child[j].done \cup {x} /\ c.ok = child[j].ok \cup won
    BY <1>3, <2>2 DEF Processes, Running
  <2> DEFINE Rows == [by : Nat, done : SUBSET Configs, ok : SUBSET Configs]
  <2>7a. jsonl[m] \in Rows /\ jsonl[m].by = inv /\ jsonl[m].done = child[j].done
         /\ jsonl[m].ok = child[j].ok
    BY <1>2, <1>3, <1>4, <1>6, <2>2 DEF Processes
  <2>7b. f \in Rows /\ f.by = inv /\ f.done = child[j].done \cup {x} /\ f.ok = child[j].ok \cup won
    BY <2>2, <2>7a
  <2>7. f = [by |-> inv, done |-> child[j].done \cup {x}, ok |-> child[j].ok \cup won]
    <3> HIDE DEF f
    <3> QED
      BY <2>7b
  <2>8. f \in Seen
    BY <2>7b DEF Seen
  <2> HIDE DEF c, f
  <2> QED
    BY <1>0, <1>1, <2>2, <2>4, <2>5, <2>6, <2>7, <2>8, BatchStep
<1>7. CASE j.kind = "batch" /\ Finished(m)
  <2> DEFINE c == Ended(child[j], 0)
             f == jsonl[m]
  <2>1. j = BatchOf(m) /\ Running(j) /\ child[j].open /\ child[j].done = Configs
        /\ child' = [child EXCEPT ![j] = c] /\ jsonl' = jsonl
    BY <1>1, <1>7 DEF Finished, BatchOf, Exit
  <2>2. jsonl' = [jsonl EXCEPT ![m] = f]
    BY <1>1, <1>2, <2>1
  <2>3. c \in Processes /\ c = [child[j] EXCEPT !.st = "exited"]
    BY <1>3, RecordFacts
  <2> HIDE DEF c
  <2>4. c.st = "exited" /\ c.done = child[j].done /\ c.ok = child[j].ok
    BY <1>3, <2>3 DEF Processes
  <2> QED
    BY <1>0, <1>1, <1>3, <1>4, <1>7, <2>1, <2>2, <2>3, <2>4, BatchStep
<1>8. CASE j.kind = "summary" /\ Summarise(m)
  <2> DEFINE c == Ended(child[j], 0)
             d == [c EXCEPT !.saw = jsonl[m]]
  <2>1. j = SummaryOf(m) /\ Running(j) /\ jsonl' = jsonl
        /\ child' = [[child EXCEPT ![j] = c] EXCEPT ![j].saw = jsonl[m]]
    BY <1>1, <1>8 DEF Summarise, SummaryOf, Exit
  <2>2. c \in Processes /\ c = [child[j] EXCEPT !.st = "exited"]
    BY <1>3, RecordFacts
  <2> HIDE DEF c
  <2>3. child'[j] = d /\ \A i \in Jobs : i # j => child'[i] = child[i]
    BY <1>2, <2>1
  <2>4. d \in Processes /\ d.st = "exited" /\ d.saw = jsonl[m]
    BY <1>3, <2>2 DEF Processes
  <2>5. child' \in [Jobs -> Processes]
    BY <1>2, <2>1, <2>2, <2>3, <2>4
  <2> HIDE DEF d
  <2>6a. /\ \A i \in Jobs : i # j => (i \in Done' <=> i \in Done)
         /\ \A n \in ModeNames : BatchOf(n) # j /\ BatchOf(n) \in Jobs /\ SummaryOf(n) \in Jobs
                                 /\ (n # m => SummaryOf(n) # j)
    BY <2>1, <2>3, JobFacts DEF Done
  <2>6. BatchWrote'
    BY <1>0, <2>1, <2>3, <2>6a DEF IInv, BatchWrote
  <2>7. BatchOf(m) \in Done
    BY <1>1, <2>1, RunningPhase
  <2>8. SummaryRead'
    BY <1>1, <2>1, <2>3, <2>4, <2>6a, <2>7 DEF IInv, SummaryRead
  <2> QED
    BY <1>0, <1>2, <2>1, <2>3, <2>4, <2>5, <2>6, <2>8, ChildKeeps DEF Running
<1>9. CASE Fails(j)
  <2> DEFINE c == Ended(child[j], 1)
  <2>1. child[j].st = "alive" /\ child' = [child EXCEPT ![j] = c] /\ jsonl' = jsonl
    BY <1>9 DEF Fails, Exit
  <2>2. c \in Processes /\ c.st = "exited" /\ c.code = 1
    BY <1>3, RecordFacts
  <2> HIDE DEF c
  <2>3. /\ child' \in [Jobs -> Processes] /\ child'[j] = c
        /\ \A i \in Jobs : i # j => child'[i] = child[i]
        /\ j \notin Done /\ Done' = Done
    BY <1>2, <2>1, <2>2 DEF Done
  <2>4. BatchWrote' /\ SummaryRead'
    BY <1>0, <2>1, <2>2, <2>3, JobFacts DEF IInv, BatchWrote, SummaryRead, Done
  <2> QED
    BY <1>0, <1>2, <2>1, <2>2, <2>3, <2>4, ChildKeeps
<1> QED
  BY <1>5, <1>6, <1>7, <1>8, <1>9 DEF ChildStep, m

-----------------------------------------------------------------------------
(* The theorems. *)

LEMMA NextKeeps == IInv /\ [Next]_vars => IInv'
<1> SUFFICES ASSUME IInv, [Next]_vars PROVE IInv'
  OBVIOUS
<1>1. CASE UNCHANGED vars
  BY <1>1 DEF vars, options, files, IInv, TypeOK, BatchWrote, SummaryRead, LogsOpened, Accounted,
     AliveListed, Compared, Done, Settled, Listed, Batches, Summarised, Alive,
     Collected, Match, Metric, Parsed, Averaged, ReadText
<1>2. CASE Next
  BY <1>2, StartKeeps, LaunchKeeps, PollKeeps, ReapKeeps, SummariesKeeps, CollectKeeps,
     TruncateKeeps, WriteTextKeeps, ChildStepKeeps, InterruptedKeeps, InterruptedLaunchKeeps,
     LaunchRaisesKeeps, KilledKeeps
     DEF Next, Driver
<1> QED
  BY <1>1, <1>2

(* What is listed, launched, written and closed agrees, in every phase.  *)
THEOREM SuiteInvariant == Spec => []IInv
<1> QED
  BY InitHolds, NextKeeps, PTL DEF Spec

(* ChildrenGone: when run_labeled_commands has returned or raised, every   *)
(* child that runs was lost inside a launch or with the driver.            *)
THEOREM ChildrenGoneHolds == Spec => []ChildrenGone
<1>1. IInv => ChildrenGone
  BY DEF IInv, AliveListed, ChildrenGone
<1> QED
  BY <1>1, SuiteInvariant, PTL

LEMMA ComparisonSound == IInv => ComparisonOfThisRun
<1> SUFFICES ASSUME IInv, comparison # Missing, comparison.by = inv, phase = "idle"
             PROVE  /\ \A m \in Range(Modes(suite)) : LET c == child[[kind |-> "batch", mode |-> m]] IN
                         /\ c.st = "exited" /\ c.code = 0 /\ c.done = Configs
                         /\ m \in ReadBack(suite) =>
                              /\ comparison.summary[m].by = inv
                              /\ comparison.summary[m].saw = [by |-> inv, done |-> Configs, ok |-> c.ok]
                    /\ late = {} => comparison.match = (child[[kind |-> "batch", mode |-> "off"]].ok
                                          = child[[kind |-> "batch", mode |-> "record"]].ok)
  BY DEF ComparisonOfThisRun
<1>1. comparison = Collected /\ Batches \cup Summarised \subseteq Settled
  BY DEF IInv, TypeOK, Compared
<1>2. ASSUME NEW m \in Range(Modes(suite))
      PROVE  /\ m \in ModeNames /\ BatchOf(m) \in Settled /\ BatchOf(m) \in Done
             /\ child[BatchOf(m)].st = "exited" /\ child[BatchOf(m)].code = 0
             /\ child[BatchOf(m)].done = Configs
             /\ jsonl[m] = [by |-> inv, done |-> Configs, ok |-> child[BatchOf(m)].ok]
  <2>1. m \in ModeNames /\ BatchOf(m) \in Settled /\ BatchOf(m) \in Done
    BY <1>1, ModeFacts DEF Batches, Settled
  <2> QED
    BY <2>1 DEF IInv, BatchWrote, Done
<1>3. ASSUME NEW m \in ReadBack(suite)
      PROVE  /\ comparison.summary[m].by = inv
             /\ comparison.summary[m].saw = [by |-> inv, done |-> Configs, ok |-> child[BatchOf(m)].ok]
  <2>1. m \in Range(Modes(suite)) /\ SummaryOf(m) \in Settled /\ SummaryOf(m) \in Done
    BY <1>1, ModeFacts DEF Summarised, Settled
  <2>2. m \in ModeNames /\ SummaryOf(m) \in Jobs
    BY <1>2, <2>1, JobFacts
  <2>3. child[SummaryOf(m)].saw = jsonl[m] /\ log[SummaryOf(m)].saw = child[SummaryOf(m)].saw
    BY <2>1, <2>2 DEF IInv, SummaryRead, Settled
  <2>4. log[SummaryOf(m)].by = inv
    BY <2>1, <2>2 DEF IInv, LogsOpened, Done
  <2>5. comparison.summary[m] = log[SummaryOf(m)]
    BY <1>1 DEF Collected, ReadText, SummaryOf
  <2> QED
    BY <1>2, <2>1, <2>3, <2>4, <2>5
<1>4. ASSUME late = {}
      PROVE  comparison.match = (child[BatchOf("off")].ok = child[BatchOf("record")].ok)
  <2>1. ASSUME NEW m \in {"off", "record"}
        PROVE  Parsed(m) = child[BatchOf(m)].ok /\ jsonl[m].ok = child[BatchOf(m)].ok
               /\ Averaged(m) = Configs
    <3>1. m \in Range(Modes(suite))
      BY ModeFacts
    <3>1a. jsonl[m] = [by |-> inv, done |-> Configs, ok |-> child[BatchOf(m)].ok]
      BY <1>2, <3>1
    <3>2. jsonl[m].ok = child[BatchOf(m)].ok /\ jsonl[m].done = Configs
      BY <3>1a
    <3>3. BatchOf(m) \in Settled /\ BatchOf(m) \notin late
      BY <1>2, <1>4, <3>1
    <3>4. log[BatchOf(m)].whole
      BY <3>3, Zenon DEF Settled
    <3> QED
      BY <3>2, <3>4 DEF Parsed, Averaged, BatchOf
  <2>2. Match <=> child[BatchOf("off")].ok = child[BatchOf("record")].ok
    BY <2>1 DEF Match, Metric
  <2> QED
    BY <1>1, <2>2 DEF Collected, Match
<1> QED
  BY <1>2, <1>3, <1>4 DEF BatchOf

(* ComparisonOfThisRun: main renders the comparison after every batch and  *)
(* summary child of this invocation ended with 0, from the summaries this  *)
(* invocation made of all its rows; and "match" says what it means.        *)
THEOREM ComparisonOfThisRunHolds == Spec => []ComparisonOfThisRun
<1> QED
  BY ComparisonSound, SuiteInvariant, PTL
==========================================================================
