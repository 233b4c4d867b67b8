--------------------------- MODULE InventoryScan ----------------------------
(***************************************************************************)
(* drive_inventory_concurrent.py scan: a pool of scanner threads walks the *)
(* roots and puts batches of rows on one bounded queue, a daemon thread    *)
(* writes them to SQLite, and the main thread waits for both.  The user    *)
(* may interrupt, the writer may fail and the process may be killed; a     *)
(* later command starts from what was committed.                           *)
(*                                                                         *)
(* A row is its file, a count of files the set of them.  The roots of a    *)
(* command are distinct and do not contain one another, so INSERT OR       *)
(* REPLACE never takes a row from another root.                            *)
(***************************************************************************)
EXTENDS Naturals, Sequences, FiniteSets

CONSTANTS Roots,
          File,
          Under,      \* Under[r]: the files iter_files(r) yields
          Faulty,     \* the roots whose walk may raise
          Workers,
          BatchSize,  \* BATCH_SIZE
          QueueMax    \* QUEUE_MAX_BATCHES

ASSUME InventoryAssumption ==
    /\ Under \in [Roots -> SUBSET File]
    /\ \A r, s \in Roots : r # s => Under[r] \cap Under[s] = {}
    /\ Faulty \subseteq Roots
    /\ Workers \in Nat \ {0} /\ BatchSize \in Nat \ {0} /\ QueueMax \in Nat \ {0}

VARIABLES db,       \* the committed tables files and scan_roots
          tx,       \* the same as the writer's connection sees them
          told,     \* told[r]: the files its last [done] line counted
          wiped,    \* the recorded roots whose rows a reset has dropped and
                    \* whose entries in scan_roots it has not
          main,     \* where the main thread is in scan_roots
          asked,    \* cleaned_roots
          scanner,  \* scanner[r]: where the scanner of r is
          got,      \* got[r]: the files it has counted
          batch,    \* batch[r]: those it has not put on the queue
          q,
          writer,
          stop,     \* stop_event
          interrupts \* the KeyboardInterrupts this scan has received

tables   == <<db, tx, told, wiped>>
scanning == <<scanner, got, batch>>
vars     == <<tables, main, asked, scanning, q, writer, stop, interrupts>>

Tables  == [rows : [Roots -> SUBSET File], marked : SUBSET Roots]
Message == [kind : {"batch", "error", "root_done"}, root : Roots, files : SUBSET File]

Running    == {r \in Roots : scanner[r] \in {"walking", "broken", "flush", "report"}}
AllStopped == \A r \in Roots : scanner[r] \in {"idle", "ended"}

None == [r \in Roots |-> {}]

Init ==
    /\ db = [rows |-> None, marked |-> {}] /\ tx = db /\ told = None /\ wiped = {}
    /\ main = "off" /\ asked = {}
    /\ scanner = [r \in Roots |-> "idle"] /\ got = None /\ batch = None
    /\ q = <<>> /\ writer = "off" /\ stop = FALSE /\ interrupts = 0

-----------------------------------------------------------------------------
(* The main thread                                                         *)

\* init_db(reset=True): executescript commits each DROP TABLE by itself.
DropFiles ==
    /\ main = "off" /\ main' = "dropping"
    /\ db' = [db EXCEPT !.rows = None] /\ tx' = db' /\ wiped' = db.marked
    /\ UNCHANGED <<told, asked, scanning, q, writer, stop, interrupts>>

DropMarks ==
    /\ main = "dropping" /\ main' = "opening"
    /\ db' = [db EXCEPT !.marked = {}] /\ tx' = db' /\ wiped' = {}
    /\ UNCHANGED <<told, asked, scanning, q, writer, stop, interrupts>>

ClearedRows(t, S) == [r \in Roots |-> IF r \in S THEN {} ELSE t.rows[r]]

Cleared(t, S) == [rows |-> ClearedRows(t, S), marked |-> t.marked \ S]

\* Forget the roots in one transaction, and start the writer.
Begin(S) ==
    /\ main \in {"off", "opening"} /\ main' = "submitting"
    /\ S # {} /\ asked' = S
    /\ db' = Cleared(db, S) /\ tx' = db' /\ wiped' = wiped \ S
    /\ writer' = "starting"
    /\ UNCHANGED <<told, scanning, q, stop, interrupts>>

Submit(r) ==
    /\ main = "submitting" /\ r \in asked /\ scanner[r] = "idle"
    /\ scanner' = [scanner EXCEPT ![r] = "queued"]
    /\ main' = IF \A s \in asked \ {r} : scanner[s] # "idle" THEN "collecting" ELSE main
    /\ UNCHANGED <<tables, asked, got, batch, q, writer, stop, interrupts>>

Collected ==
    /\ main = "collecting" /\ AllStopped
    /\ main' = "waiting"
    /\ UNCHANGED <<tables, asked, scanning, q, writer, stop, interrupts>>

\* Mutant: the scanners are asked to stop at once.
InterruptStops ==
    /\ main \in {"submitting", "collecting"} /\ main' = "joining"
    /\ interrupts' = 1 /\ stop' = TRUE
    /\ UNCHANGED <<tables, asked, scanning, q, writer>>

\* The interrupt first leaves the with block, which joins the whole pool ...
Interrupt ==
    /\ main \in {"submitting", "collecting"} /\ main' = "joining"
    /\ interrupts' = 1
    /\ UNCHANGED <<tables, asked, scanning, q, writer, stop>>

\* ... so that the handler asks the scanners to stop when none is left,
Joined ==
    /\ main = "joining" /\ AllStopped
    /\ stop' = TRUE /\ main' = "waiting"
    /\ UNCHANGED <<tables, asked, scanning, q, writer, interrupts>>

\* unless a second interrupt breaks the join.
InterruptAgain ==
    /\ main = "joining"
    /\ stop' = TRUE /\ main' = "waiting" /\ interrupts' = 2
    /\ UNCHANGED <<tables, asked, scanning, q, writer>>

\* writer_done.wait(timeout=300) returns: the event is set, the time is up, or
\* one more interrupt raises.
Waited ==
    /\ main = "waiting" /\ main' = "exiting"
    /\ UNCHANGED <<tables, asked, scanning, q, writer, stop, interrupts>>

\* The process is gone, and with it an open transaction.
Gone ==
    /\ main' = "off" /\ asked' = {} /\ tx' = db
    /\ scanner' = [r \in Roots |-> "idle"] /\ got' = None /\ batch' = None
    /\ q' = <<>> /\ writer' = "off" /\ stop' = FALSE /\ interrupts' = 0
    /\ UNCHANGED <<db, told, wiped>>

\* The interpreter joins the threads of the pool, not the daemon.
Exit  == main = "exiting" /\ AllStopped /\ Gone
Crash == main # "off" /\ Gone

-----------------------------------------------------------------------------
(* A scanner thread: scanner_worker                                        *)

Full(r) == Cardinality(batch[r]) >= BatchSize

\* queue.Queue.put blocks while the queue is full.
Put(kind, r, files) ==
    /\ Len(q) < QueueMax
    /\ q' = Append(q, [kind |-> kind, root |-> r, files |-> files])

scanElse == <<tables, main, asked, writer, stop, interrupts>>

Goes(r, from, to) == scanner[r] = from /\ scanner' = [scanner EXCEPT ![r] = to]

\* A thread of the pool takes the next future.
Start(r) ==
    /\ Cardinality(Running) < Workers
    /\ Goes(r, "queued", "walking")
    /\ UNCHANGED <<got, batch, q, scanElse>>

Take(r) ==
    /\ scanner[r] = "walking" /\ ~Full(r) /\ ~stop
    /\ \E f \in Under[r] \ got[r] :
        /\ got'   = [got EXCEPT ![r] = @ \cup {f}]
        /\ batch' = [batch EXCEPT ![r] = @ \cup {f}]
    /\ UNCHANGED <<scanner, q, scanElse>>

PutBatch(r) ==
    /\ scanner[r] = "walking" /\ Full(r)
    /\ Put("batch", r, batch[r])
    /\ batch' = [batch EXCEPT ![r] = {}]
    /\ UNCHANGED <<scanner, got, scanElse>>

\* The walk has no more files, or has one and finds stop_event set.
WalkEnds(r) ==
    /\ ~Full(r) /\ (got[r] = Under[r] \/ stop)
    /\ Goes(r, "walking", "flush")
    /\ UNCHANGED <<got, batch, q, scanElse>>

WalkFails(r) ==
    /\ r \in Faulty /\ ~Full(r)
    /\ Goes(r, "walking", "broken")
    /\ UNCHANGED <<got, batch, q, scanElse>>

PutError(r) ==
    /\ Goes(r, "broken", "flush")
    /\ Put("error", r, {})
    /\ UNCHANGED <<got, batch, scanElse>>

\* Mutant: what is left of the last batch is not put.
FlushForgets(r) ==
    /\ Goes(r, "flush", "report")
    /\ batch' = [batch EXCEPT ![r] = {}]
    /\ UNCHANGED <<q, got, scanElse>>

Flush(r) ==
    /\ Goes(r, "flush", "report")
    /\ IF batch[r] = {} THEN UNCHANGED q ELSE Put("batch", r, batch[r])
    /\ batch' = [batch EXCEPT ![r] = {}]
    /\ UNCHANGED <<got, scanElse>>

Report(r) ==
    /\ Goes(r, "report", "ended")
    /\ Put("root_done", r, got[r])
    /\ UNCHANGED <<got, batch, scanElse>>

Scan(r) ==
    \/ Start(r) \/ Take(r) \/ PutBatch(r) \/ WalkEnds(r)
    \/ PutError(r) \/ Flush(r) \/ Report(r)

-----------------------------------------------------------------------------
(* The writer thread: writer_worker                                        *)

writeElse == <<main, asked, scanning, stop, interrupts>>

Get(kind) == writer = "running" /\ q # <<>> /\ Head(q).kind = kind /\ q' = Tail(q)

Connect ==
    /\ writer = "starting" /\ writer' = "running"
    /\ UNCHANGED <<tables, q, writeElse>>

\* connect(db) is outside the try: nobody sets done_event.
ConnectFails ==
    /\ writer = "starting" /\ writer' = "lost"
    /\ UNCHANGED <<tables, q, writeElse>>

\* Rows are committed with the first batch after two seconds.
InsertBatch ==
    /\ Get("batch")
    /\ tx' = [tx EXCEPT !.rows[Head(q).root] = @ \cup Head(q).files]
    /\ db' \in {db, tx'}
    /\ UNCHANGED <<told, wiped, writer, writeElse>>

\* Mutant: the writer stops with a root to go.
RootDoneEarly ==
    /\ Get("root_done")
    /\ tx' = [tx EXCEPT !.marked = @ \cup {Head(q).root}]
    /\ db' = tx'
    /\ told' = [told EXCEPT ![Head(q).root] = Head(q).files]
    /\ writer' = IF Cardinality(asked \ tx'.marked) <= 1 THEN "done" ELSE writer
    /\ UNCHANGED <<wiped, writeElse>>

RootDone ==
    /\ Get("root_done")
    /\ tx' = [tx EXCEPT !.marked = @ \cup {Head(q).root}]
    /\ db' = tx'
    /\ told' = [told EXCEPT ![Head(q).root] = Head(q).files]
    /\ writer' = IF asked \subseteq tx'.marked THEN "done" ELSE writer
    /\ UNCHANGED <<wiped, writeElse>>

ShowError ==
    /\ Get("error")
    /\ UNCHANGED <<tables, writer, writeElse>>

\* A statement raises: close() rolls back, and the event is set all the same.
WriteFails ==
    /\ writer = "running" /\ q # <<>> /\ q' = Tail(q)
    /\ Head(q).kind # "error"
    /\ writer' = "dead" /\ tx' = db
    /\ UNCHANGED <<db, told, wiped, writeElse>>

Write == Connect \/ InsertBatch \/ RootDone \/ ShowError

-----------------------------------------------------------------------------

Next ==
    \/ DropFiles \/ DropMarks
    \/ \E S \in SUBSET Roots : Begin(S)
    \/ \E r \in Roots : Submit(r) \/ Scan(r) \/ WalkFails(r)
    \/ Collected \/ Interrupt \/ Joined \/ InterruptAgain \/ Waited \/ Exit \/ Crash
    \/ Write \/ ConnectFails \/ WriteFails

\* Each thread that can go on goes on, and the wait is timed; nobody has to
\* interrupt, fail or start another scan.
Fairness ==
    /\ \A r \in Roots : WF_vars(Submit(r)) /\ WF_vars(Scan(r))
    /\ WF_vars(Collected) /\ WF_vars(Joined) /\ WF_vars(Waited) /\ WF_vars(Exit)
    /\ WF_vars(Write)

Spec     == Init /\ [][Next]_vars
FairSpec == Spec /\ Fairness

-----------------------------------------------------------------------------
(* Properties                                                              *)

TypeOK ==
    /\ db \in Tables /\ tx \in Tables /\ told \in [Roots -> SUBSET File]
    /\ wiped \in SUBSET Roots
    /\ main \in {"off", "dropping", "opening", "submitting", "collecting",
                 "joining", "waiting", "exiting"}
    /\ asked \in SUBSET Roots
    /\ scanner \in [Roots -> {"idle", "queued", "walking", "broken", "flush",
                              "report", "ended"}]
    /\ got \in [Roots -> SUBSET File] /\ batch \in [Roots -> SUBSET File]
    /\ q \in Seq(Message) /\ Len(q) <= QueueMax
    /\ writer \in {"off", "starting", "running", "done", "dead", "lost"}
    /\ stop \in BOOLEAN /\ interrupts \in 0 .. 2

\* scan_roots names a root only when the files table holds every file its
\* [done] line counted: whatever is interrupted, fails or is killed, and though
\* its batches are written one by one, a recorded root is never recorded in
\* part.  The one exception is a reset killed between two of its DROP TABLEs:
\* the roots recorded until then are left without a row, and no others.
RecordedWhole ==
    \A r \in db.marked : db.rows[r] = IF r \in wiped THEN {} ELSE told[r]

\* A root whose walk does not raise reports fewer files than it has only after
\* two interrupts: the first lets every scanner finish.
CutByTwoInterrupts ==
    [][\A r \in Roots \ Faulty :
        scanner[r] = "report" /\ scanner'[r] = "ended" =>
            got[r] = Under[r] \/ interrupts = 2]_vars

\* A scan comes to its end unless the writer fails: then nobody empties the
\* queue, and scanners and the main thread may wait for each other for ever.
ScanEnds == main = "submitting" ~> (main = "off" \/ writer \in {"dead", "lost"})
=============================================================================
