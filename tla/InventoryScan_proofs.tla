------------------------ MODULE InventoryScan_proofs ------------------------
(***************************************************************************)
(* Theorems about InventoryScan, for every set of roots and files, every   *)
(* number of workers, batch size and queue bound.  A recorded root is      *)
(* whole because every counted file is in one of three places, the         *)
(* writer's table, the queue or the scanner's batch, and root_done is the  *)
(* last message of its root.                                               *)
(***************************************************************************)
EXTENDS InventoryScan, SequenceTheorems, TLAPS

\* The files of root r on the queue s.
Queued(s, r) ==
    {f \in File : \E i \in 1 .. Len(s) :
        s[i].kind = "batch" /\ s[i].root = r /\ f \in s[i].files}

Mentions(s, r) == \E i \in 1 .. Len(s) : s[i].root = r

Live == writer \in {"starting", "running"}

\* No scan is open: nothing is left of the last one but the tables.
Quiescent ==
    main \in {"off", "dropping", "opening"} =>
        /\ scanner = [r \in Roots |-> "idle"] /\ got = None /\ batch = None
        /\ q = <<>> /\ writer = "off"

WholeIn(t) == \A r \in t.marked : t.rows[r] = IF r \in wiped THEN {} ELSE told[r]

\* The roots of this scan have been forgotten altogether.
NotWiped == Live => asked \cap wiped = {}

NoTransaction == writer # "running" => tx = db

\* Only roots of this scan are walked, and a scanner that reports has flushed.
Walked ==
    \A r \in Roots :
        /\ scanner[r] # "idle" => r \in asked
        /\ scanner[r] \in {"report", "ended"} => batch[r] = {}
        /\ scanner[r] = "idle" => ~Mentions(q, r)

\* root_done tells what was counted, and nothing of its root comes after it.
DoneIsLast ==
    \A i \in 1 .. Len(q) : q[i].kind = "root_done" =>
        /\ scanner[q[i].root] = "ended"
        /\ q[i].files = got[q[i].root]
        /\ \A j \in 1 .. Len(q) : j > i => q[j].root # q[i].root

\* Every counted file is accounted for.
Accounted ==
    Live => \A r \in asked : got[r] = tx.rows[r] \cup Queued(q, r) \cup batch[r]

RecordedEnded ==
    Live => \A r \in asked \cap tx.marked : scanner[r] = "ended" /\ ~Mentions(q, r)

IInv ==
    /\ TypeOK /\ Quiescent /\ WholeIn(db) /\ WholeIn(tx) /\ NoTransaction
    /\ Walked /\ DoneIsLast /\ Accounted /\ RecordedEnded /\ NotWiped

-----------------------------------------------------------------------------
(* The queue                                                               *)

LEMMA EmptyQueue == <<>> \in Seq(Message) /\ Len(<<>>) = 0
BY EmptySeq

LEMMA RootsQueued ==
    ASSUME TypeOK
    PROVE  \A i \in 1 .. Len(q) : q[i].root \in Roots
<1> SUFFICES ASSUME NEW i \in 1 .. Len(q)
             PROVE  q[i].root \in Roots
  OBVIOUS
<1>1. q \in Seq(Message)
  BY DEF TypeOK
<1>2. q[i] \in Message
  BY <1>1, ElementOfSeq
<1>3. QED
  BY <1>2 DEF Message

LEMMA AppendQueue ==
    ASSUME NEW s \in Seq(Message), NEW m \in Message
    PROVE  /\ Append(s, m) \in Seq(Message)
           /\ Len(Append(s, m)) = Len(s) + 1
           /\ \A i \in 1 .. Len(s) : Append(s, m)[i] = s[i]
           /\ Append(s, m)[Len(s) + 1] = m
BY AppendProperties

LEMMA TailQueue ==
    ASSUME NEW s \in Seq(Message), s # <<>>
    PROVE  /\ Tail(s) \in Seq(Message) /\ Head(s) \in Message
           /\ Len(s) \in Nat /\ Len(s) >= 1 /\ Head(s) = s[1]
           /\ Len(Tail(s)) = Len(s) - 1
           /\ \A i \in 1 .. Len(Tail(s)) : Tail(s)[i] = s[i + 1]
BY HeadTailProperties, LenProperties, EmptySeq

\* What putting a message adds to the files on the queue.
LEMMA AppendQueued ==
    ASSUME NEW s \in Seq(Message), NEW m \in Message, NEW r \in Roots
    PROVE  /\ Queued(Append(s, m), r) =
                Queued(s, r) \cup (IF m.kind = "batch" /\ m.root = r THEN m.files ELSE {})
           /\ Mentions(Append(s, m), r) <=> Mentions(s, r) \/ m.root = r
<1> DEFINE a == Append(s, m)
<1>1. /\ Len(a) = Len(s) + 1 /\ Len(s) \in Nat
      /\ \A i \in 1 .. Len(s) : a[i] = s[i]
      /\ a[Len(s) + 1] = m
  BY AppendQueue, LenProperties
<1>2. m.files \subseteq File
  BY DEF Message
<1> HIDE DEF a
<1>3. \A i : i \in 1 .. Len(a) <=> (i \in 1 .. Len(s) \/ i = Len(s) + 1)
  BY <1>1
<1>4. Len(s) + 1 \notin 1 .. Len(s)
  BY <1>1
<1>5. Mentions(a, r) <=> Mentions(s, r) \/ m.root = r
  BY <1>1, <1>3 DEF Mentions
<1>6. Queued(a, r) = Queued(s, r) \cup (IF m.kind = "batch" /\ m.root = r THEN m.files ELSE {})
  <2>1. CASE m.kind = "batch" /\ m.root = r
    BY <2>1, <1>1, <1>2, <1>3 DEF Queued
  <2>2. CASE ~(m.kind = "batch" /\ m.root = r)
    BY <2>2, <1>1, <1>3 DEF Queued
  <2>3. QED
    BY <2>1, <2>2
<1>7. QED
  BY <1>5, <1>6 DEF a

\* What taking a message removes from it.
LEMMA TailQueued ==
    ASSUME NEW s \in Seq(Message), s # <<>>, NEW r \in Roots
    PROVE  /\ Queued(s, r) = Queued(Tail(s), r) \cup
                (IF Head(s).kind = "batch" /\ Head(s).root = r THEN Head(s).files ELSE {})
           /\ Mentions(s, r) <=> Mentions(Tail(s), r) \/ Head(s).root = r
<1> DEFINE t == Tail(s)
<1>1. /\ Len(s) \in Nat /\ Len(s) >= 1 /\ Len(t) = Len(s) - 1 /\ s[1] = Head(s)
      /\ \A i \in 1 .. Len(t) : t[i] = s[i + 1]
      /\ Head(s) \in Message
  BY TailQueue
<1>2. Head(s).files \subseteq File
  BY <1>1 DEF Message
<1> HIDE DEF t
<1>3. \A i \in 1 .. Len(s) : i = 1 \/ (i - 1 \in 1 .. Len(t) /\ s[i] = t[i - 1])
  BY <1>1
<1>4. 1 \in 1 .. Len(s) /\ \A i \in 1 .. Len(t) : i + 1 \in 1 .. Len(s)
  BY <1>1
<1>5. Mentions(s, r) <=> Mentions(t, r) \/ Head(s).root = r
  <2>1. Mentions(s, r) => Mentions(t, r) \/ Head(s).root = r
    BY <1>1, <1>3 DEF Mentions
  <2>2. Mentions(t, r) \/ Head(s).root = r => Mentions(s, r)
    BY <1>1, <1>4 DEF Mentions
  <2>3. QED
    BY <2>1, <2>2
<1> DEFINE first == IF Head(s).kind = "batch" /\ Head(s).root = r THEN Head(s).files ELSE {}
<1>6. Queued(s, r) \subseteq Queued(t, r) \cup first
  <2> SUFFICES ASSUME NEW f \in Queued(s, r) PROVE f \in Queued(t, r) \cup first
    OBVIOUS
  <2>1. PICK i \in 1 .. Len(s) : s[i].kind = "batch" /\ s[i].root = r /\ f \in s[i].files
    BY DEF Queued
  <2>2. CASE i = 1
    BY <2>1, <2>2, <1>1
  <2>3. CASE i # 1
    BY <2>1, <2>3, <1>3 DEF Queued
  <2>4. QED
    BY <2>2, <2>3
<1>7. Queued(t, r) \cup first \subseteq Queued(s, r)
  <2>1. Queued(t, r) \subseteq Queued(s, r)
    BY <1>1, <1>4 DEF Queued
  <2>2. first \subseteq Queued(s, r)
    BY <1>1, <1>2, <1>4 DEF Queued
  <2>3. QED
    BY <2>1, <2>2
<1>8. QED
  BY <1>5, <1>6, <1>7 DEF t

LEMMA TailOther ==
    ASSUME NEW s \in Seq(Message), s # <<>>, Head(s).kind # "batch", NEW r \in Roots
    PROVE  /\ Queued(s, r) = Queued(Tail(s), r)
           /\ Mentions(s, r) <=> Mentions(Tail(s), r) \/ Head(s).root = r
<1>1. Queued(s, r) = Queued(Tail(s), r) \cup {}
  BY TailQueued
<1>2. QED
  BY <1>1, TailQueued

-----------------------------------------------------------------------------
(* The main thread                                                         *)

LEMMA InitIInv == Init => IInv
<1> SUFFICES ASSUME Init PROVE IInv
  OBVIOUS
<1>1. Len(q) = 0 /\ q \in Seq(Message)
  BY EmptyQueue DEF Init
<1>2. TypeOK
  <2>1. None \in [Roots -> SUBSET File]
    BY DEF None
  <2>2. Len(q) <= QueueMax
    BY <1>1, InventoryAssumption DEF InventoryAssumption
  <2>3. db \in Tables /\ tx \in Tables
    BY <2>1 DEF Init, Tables
  <2>4. scanner \in [Roots -> {"idle", "queued", "walking", "broken", "flush",
                              "report", "ended"}]
    BY DEF Init
  <2>5. /\ told \in [Roots -> SUBSET File] /\ got \in [Roots -> SUBSET File]
        /\ batch \in [Roots -> SUBSET File] /\ wiped \in SUBSET Roots
    BY <2>1 DEF Init
  <2>6. stop \in BOOLEAN
    BY DEF Init
  <2>7. /\ asked \in SUBSET Roots /\ interrupts \in 0 .. 2
        /\ main \in {"off", "dropping", "opening", "submitting", "collecting",
                     "joining", "waiting", "exiting"}
        /\ writer \in {"off", "starting", "running", "done", "dead", "lost"}
    BY DEF Init
  <2>8. QED
    BY <1>1, <2>2, <2>3, <2>4, <2>5, <2>6, <2>7 DEF TypeOK
<1>3. Quiescent /\ WholeIn(db) /\ WholeIn(tx) /\ NoTransaction
  BY DEF Init, Quiescent, WholeIn, NoTransaction
<1>4. Walked /\ DoneIsLast
  BY <1>1 DEF Init, Walked, DoneIsLast, Mentions
<1>5. Accounted /\ RecordedEnded /\ NotWiped
  BY DEF Init, Accounted, RecordedEnded, NotWiped, Live
<1>6. QED
  BY <1>2, <1>3, <1>4, <1>5 DEF IInv

\* A step of which the tables, the threads and the queue take no notice.
LEMMA Unnoticed ==
    ASSUME IInv, UNCHANGED <<tables, asked, scanning, q, writer>>, TypeOK', Quiescent'
    PROVE  IInv'
<1>1. WholeIn(db)' /\ WholeIn(tx)' /\ NoTransaction'
  BY DEF IInv, WholeIn, NoTransaction, Live, tables
<1>2. Walked' /\ DoneIsLast'
  BY DEF IInv, Walked, DoneIsLast, Mentions, scanning
<1>3. Accounted' /\ RecordedEnded' /\ NotWiped'
  BY DEF IInv, Accounted, RecordedEnded, NotWiped, Live, Queued, Mentions, tables, scanning
<1>4. QED
  BY <1>1, <1>2, <1>3 DEF IInv

LEMMA MainMoves ==
    ASSUME IInv, UNCHANGED <<tables, asked, scanning, q, writer>>,
           main' \in {"collecting", "joining", "waiting", "exiting"},
           stop' \in BOOLEAN, interrupts' \in 0 .. 2
    PROVE  IInv'
<1>1. TypeOK'
  BY DEF IInv, TypeOK, tables, scanning
<1>2. Quiescent'
  BY DEF Quiescent
<1>3. QED
  BY <1>1, <1>2, Unnoticed

LEMMA DropIInv ==
    ASSUME IInv, DropFiles \/ DropMarks
    PROVE  IInv'
<1>1. /\ UNCHANGED <<told, asked, scanning, q, writer, stop, interrupts>>
      /\ main \in {"off", "dropping"} /\ main' \in {"dropping", "opening"}
      /\ tx' = db' /\ wiped' \in {db.marked, {}}
  BY DEF DropFiles, DropMarks
<1>2. db' \in Tables /\ wiped' \in SUBSET Roots /\ WholeIn(db)'
  <2>1. CASE DropFiles
    <3>1. db'.rows = None /\ db'.marked = db.marked /\ wiped' = db.marked
      BY <2>1 DEF DropFiles, IInv, TypeOK, Tables
    <3>2. db' \in Tables /\ wiped' \in SUBSET Roots
      BY <2>1 DEF DropFiles, IInv, TypeOK, Tables, None
    <3>3. QED
      BY <3>1, <3>2 DEF Tables, None, WholeIn
  <2>2. CASE DropMarks
    BY <2>2 DEF DropMarks, IInv, TypeOK, Tables, WholeIn
  <2>3. QED
    BY <1>1, <2>1, <2>2
<1>3. TypeOK'
  BY <1>1, <1>2 DEF IInv, TypeOK, scanning
<1>4. ~Live' /\ Quiescent'
  BY <1>1 DEF IInv, Quiescent, Live, scanning
<1>5. Walked' /\ DoneIsLast'
  BY <1>1 DEF IInv, Walked, DoneIsLast, Mentions, scanning
<1>6. QED
  BY <1>1, <1>2, <1>3, <1>4, <1>5
     DEF IInv, WholeIn, NoTransaction, Accounted, RecordedEnded, NotWiped

LEMMA BeginIInv ==
    ASSUME IInv, NEW S \in SUBSET Roots, Begin(S)
    PROVE  IInv'
<1>1. /\ UNCHANGED <<told, scanning, q, stop, interrupts>>
      /\ main \in {"off", "opening"} /\ main' = "submitting"
      /\ asked' = S /\ writer' = "starting" /\ tx' = db' /\ db' = Cleared(db, S)
      /\ wiped' = wiped \ S
  BY DEF Begin
<1>2. /\ db'.rows = [r \in Roots |-> IF r \in S THEN {} ELSE db.rows[r]]
      /\ db'.marked = db.marked \ S
      /\ db' \in Tables
  BY <1>1 DEF Cleared, ClearedRows, IInv, TypeOK, Tables
<1>3. TypeOK' /\ Quiescent' /\ NoTransaction'
  BY <1>1, <1>2 DEF IInv, TypeOK, Quiescent, NoTransaction, Live, scanning
<1>4. WholeIn(db)' /\ WholeIn(tx)'
  BY <1>1, <1>2 DEF IInv, TypeOK, Tables, WholeIn
<1>5. /\ \A r \in Roots : scanner[r] = "idle" /\ got[r] = {} /\ batch[r] = {}
      /\ q = <<>> /\ Len(q) = 0
  BY <1>1 DEF IInv, Quiescent, None
<1>6. Walked' /\ DoneIsLast'
  BY <1>1, <1>5 DEF Walked, DoneIsLast, Mentions, scanning
<1>7. Accounted'
  BY <1>1, <1>2, <1>5 DEF Accounted, Queued, scanning
<1>8. RecordedEnded' /\ NotWiped'
  BY <1>1, <1>2 DEF RecordedEnded, NotWiped
<1>9. QED
  BY <1>3, <1>4, <1>6, <1>7, <1>8 DEF IInv

LEMMA SubmitIInv ==
    ASSUME IInv, NEW r \in Roots, Submit(r)
    PROVE  IInv'
<1>1. /\ UNCHANGED <<tables, asked, got, batch, q, writer, stop, interrupts>>
      /\ r \in asked /\ scanner[r] = "idle" /\ main' \in {"submitting", "collecting"}
      /\ scanner' = [scanner EXCEPT ![r] = "queued"]
  BY DEF Submit
<1>2. TypeOK' /\ Quiescent'
  BY <1>1 DEF IInv, TypeOK, Quiescent, tables
<1>3. WholeIn(db)' /\ WholeIn(tx)' /\ NoTransaction' /\ Accounted' /\ NotWiped'
  BY <1>1 DEF IInv, WholeIn, NoTransaction, Accounted, NotWiped, Live, Queued, tables
<1>4. \A s \in Roots : scanner'[s] = IF s = r THEN "queued" ELSE scanner[s]
  BY <1>1 DEF IInv, TypeOK
<1>5. Walked'
  BY <1>1, <1>4 DEF IInv, Walked, Mentions
<1>6. \A i \in 1 .. Len(q) : q[i].root \in Roots
  BY RootsQueued DEF IInv
<1>7. DoneIsLast'
  BY <1>1, <1>4, <1>6 DEF IInv, DoneIsLast
<1>8. RecordedEnded'
  BY <1>1, <1>4 DEF IInv, TypeOK, RecordedEnded, Live, Mentions, tables
<1>9. QED
  BY <1>2, <1>3, <1>5, <1>7, <1>8 DEF IInv

LEMMA GoneIInv ==
    ASSUME IInv, Gone
    PROVE  IInv'
<1>1. Len(q') = 0 /\ q' \in Seq(Message)
  BY EmptyQueue DEF Gone
<1>2. TypeOK'
  <2>1. None \in [Roots -> SUBSET File]
    BY DEF None
  <2>2. Len(q') <= QueueMax
    BY <1>1, InventoryAssumption DEF InventoryAssumption
  <2>3. /\ db' \in Tables /\ tx' \in Tables /\ told' \in [Roots -> SUBSET File]
        /\ wiped' \in SUBSET Roots
    BY DEF Gone, IInv, TypeOK
  <2>4. scanner' \in [Roots -> {"idle", "queued", "walking", "broken", "flush",
                               "report", "ended"}]
    BY DEF Gone
  <2>5. got' \in [Roots -> SUBSET File] /\ batch' \in [Roots -> SUBSET File]
    BY <2>1 DEF Gone
  <2>6. stop' \in BOOLEAN
    BY DEF Gone
  <2>7. /\ asked' \in SUBSET Roots /\ interrupts' \in 0 .. 2
        /\ main' \in {"off", "dropping", "opening", "submitting", "collecting",
                     "joining", "waiting", "exiting"}
        /\ writer' \in {"off", "starting", "running", "done", "dead", "lost"}
    BY DEF Gone
  <2>8. QED
    BY <1>1, <2>2, <2>3, <2>4, <2>5, <2>6, <2>7 DEF TypeOK
<1>7. Quiescent'
  BY DEF Gone, Quiescent, None
<1>3. WholeIn(db)' /\ WholeIn(tx)' /\ NoTransaction'
  BY DEF Gone, IInv, WholeIn, NoTransaction
<1>4. Walked' /\ DoneIsLast'
  BY <1>1 DEF Gone, Walked, DoneIsLast, Mentions
<1>5. Accounted' /\ RecordedEnded' /\ NotWiped'
  BY DEF Gone, Accounted, RecordedEnded, NotWiped, Live
<1>6. QED
  BY <1>2, <1>3, <1>4, <1>5, <1>7 DEF IInv

-----------------------------------------------------------------------------
(* The scanners                                                            *)

\* A scanner that is past "idle" leaves the tables and the main thread alone.
LEMMA ScanFrame ==
    ASSUME IInv, NEW r \in Roots, scanner[r] # "idle", UNCHANGED scanElse,
           TypeOK', Walked', DoneIsLast', Accounted', RecordedEnded'
    PROVE  IInv'
<1>1. WholeIn(db)' /\ WholeIn(tx)' /\ NoTransaction' /\ NotWiped'
  BY DEF IInv, WholeIn, NoTransaction, NotWiped, Live, scanElse, tables
<1>2. Quiescent'
  BY DEF IInv, Quiescent, scanElse
<1>3. QED
  BY <1>1, <1>2 DEF IInv

\* Start, WalkEnds, WalkFails, and Flush with nothing to put.
LEMMA MovesIInv ==
    ASSUME IInv, NEW r \in Roots, NEW to \in {"walking", "broken", "flush", "report"},
           scanner[r] \notin {"idle", "ended"},
           scanner' = [scanner EXCEPT ![r] = to],
           to = "report" => batch[r] = {},
           UNCHANGED <<got, batch, q, scanElse>>
    PROVE  IInv'
<1>1. \A s \in Roots : scanner'[s] = IF s = r THEN to ELSE scanner[s]
  BY DEF IInv, TypeOK
<1>2. TypeOK'
  BY DEF IInv, TypeOK, scanElse, tables
<1>3. Walked'
  BY <1>1 DEF IInv, Walked, Mentions, scanElse
<1>4. \A i \in 1 .. Len(q) : q[i].root \in Roots
  BY RootsQueued DEF IInv
<1>5. DoneIsLast'
  BY <1>1, <1>4 DEF IInv, DoneIsLast
<1>6. Accounted'
  BY DEF IInv, Accounted, Live, Queued, scanElse, tables
<1>7. RecordedEnded'
  BY <1>1 DEF IInv, TypeOK, RecordedEnded, Live, Mentions, scanElse, tables
<1>8. QED
  BY <1>2, <1>3, <1>5, <1>6, <1>7, ScanFrame

LEMMA TakeIInv ==
    ASSUME IInv, NEW r \in Roots, Take(r)
    PROVE  IInv'
<1>1. PICK f \in Under[r] \ got[r] :
        /\ got'   = [got EXCEPT ![r] = @ \cup {f}]
        /\ batch' = [batch EXCEPT ![r] = @ \cup {f}]
  BY DEF Take
<1>2. scanner[r] = "walking" /\ UNCHANGED <<scanner, q, scanElse>>
  BY DEF Take
<1>3. f \in File
  BY InventoryAssumption DEF InventoryAssumption
<1>4. \A s \in Roots : /\ got'[s] = IF s = r THEN got[r] \cup {f} ELSE got[s]
                       /\ batch'[s] = IF s = r THEN batch[r] \cup {f} ELSE batch[s]
  BY <1>1 DEF IInv, TypeOK
<1>5. TypeOK'
  BY <1>1, <1>2, <1>3 DEF IInv, TypeOK, scanElse, tables
<1>6. Walked'
  BY <1>2, <1>4 DEF IInv, Walked, Mentions, scanElse
<1>7. \A i \in 1 .. Len(q) : q[i].root \in Roots
  BY RootsQueued DEF IInv
<1>8. DoneIsLast'
  BY <1>2, <1>4, <1>7 DEF IInv, DoneIsLast
<1>9. Accounted'
  BY <1>2, <1>4 DEF IInv, TypeOK, Accounted, Live, Queued, scanElse, tables
<1>10. RecordedEnded'
  BY <1>2 DEF IInv, RecordedEnded, Live, Mentions, scanElse, tables
<1>11. QED
  BY <1>2, <1>5, <1>6, <1>8, <1>9, <1>10, ScanFrame

\* PutBatch, PutError, Flush and Report: what leaves the batch is on the queue.
LEMMA PutIInv ==
    ASSUME IInv, NEW r \in Roots, scanner[r] \notin {"idle", "ended"},
           NEW kind \in {"batch", "error", "root_done"}, NEW files \in SUBSET File,
           NEW to \in {"walking", "flush", "report", "ended"},
           Put(kind, r, files),
           scanner' = [scanner EXCEPT ![r] = to],
           kind = "batch" => files = batch[r] /\ batch' = [batch EXCEPT ![r] = {}],
           kind # "batch" => UNCHANGED batch,
           to = "ended" => kind # "batch" /\ batch[r] = {},
           to = "report" => kind = "batch",
           kind = "root_done" => to = "ended" /\ files = got[r],
           UNCHANGED <<got, scanElse>>
    PROVE  IInv'
<1> DEFINE m == [kind |-> kind, root |-> r, files |-> files]
<1>1. m \in Message /\ q \in Seq(Message) /\ q' = Append(q, m) /\ Len(q) < QueueMax
  BY DEF Message, Put, IInv, TypeOK
<1>2. /\ q' \in Seq(Message) /\ Len(q) \in Nat /\ Len(q') = Len(q) + 1
      /\ \A i \in 1 .. Len(q) : q'[i] = q[i]
      /\ q'[Len(q) + 1] = m
  BY <1>1, AppendQueue, LenProperties
<1>3. \A s \in Roots :
        /\ scanner'[s] = IF s = r THEN to ELSE scanner[s]
        /\ batch'[s] = IF s = r /\ kind = "batch" THEN {} ELSE batch[s]
  BY DEF IInv, TypeOK
<1>4. \A s \in Roots :
        /\ Queued(q', s) = Queued(q, s) \cup (IF kind = "batch" /\ s = r THEN files ELSE {})
        /\ Mentions(q', s) <=> Mentions(q, s) \/ s = r
  BY <1>1, AppendQueued
<1>5. TypeOK'
  BY <1>1, <1>2, InventoryAssumption
     DEF InventoryAssumption, IInv, TypeOK, scanElse, tables
<1>6. Walked'
  BY <1>3, <1>4 DEF IInv, Walked, scanElse
<1>7. \A i \in 1 .. Len(q) : q[i].root \in Roots
  BY RootsQueued DEF IInv
<1>8. DoneIsLast'
  <2> SUFFICES ASSUME NEW i \in 1 .. Len(q'), q'[i].kind = "root_done"
               PROVE  /\ scanner'[q'[i].root] = "ended"
                      /\ q'[i].files = got'[q'[i].root]
                      /\ \A j \in 1 .. Len(q') : j > i => q'[j].root # q'[i].root
    BY DEF DoneIsLast
  <2>1. CASE i = Len(q) + 1
    BY <2>1, <1>2, <1>3
  <2>2. CASE i # Len(q) + 1
    <3>1. i \in 1 .. Len(q) /\ q'[i] = q[i]
      BY <2>2, <1>2
    <3>2. scanner[q[i].root] = "ended" /\ q[i].root # r
      BY <3>1 DEF IInv, DoneIsLast
    <3>3. \A j \in 1 .. Len(q) : j > i => q[j].root # q[i].root
      BY <3>1 DEF IInv, DoneIsLast
    <3>4. \A j \in 1 .. Len(q') : j > i => q'[j].root # q'[i].root
      BY <3>1, <3>2, <3>3, <1>2
    <3>5. QED
      BY <3>1, <3>2, <3>4, <1>3, <1>7 DEF IInv, DoneIsLast
  <2>3. QED
    BY <2>1, <2>2
<1>9. Accounted'
  BY <1>3, <1>4 DEF IInv, TypeOK, Accounted, Live, scanElse, tables
<1>10. RecordedEnded'
  BY <1>3, <1>4 DEF IInv, TypeOK, RecordedEnded, Live, scanElse, tables
<1>11. QED
  BY <1>5, <1>6, <1>8, <1>9, <1>10, ScanFrame

LEMMA ScanIInv ==
    ASSUME IInv, NEW r \in Roots, Scan(r) \/ WalkFails(r)
    PROVE  IInv'
<1>1. batch[r] \in SUBSET File /\ got[r] \in SUBSET File
  BY DEF IInv, TypeOK
<1>2. CASE Start(r)
  BY <1>2, MovesIInv DEF Start, Goes
<1>3. CASE Take(r)
  BY <1>3, TakeIInv
<1>4. CASE PutBatch(r)
  <2>1. scanner' = [scanner EXCEPT ![r] = "walking"]
    BY <1>4 DEF PutBatch, IInv, TypeOK
  <2>2. /\ scanner[r] = "walking" /\ Put("batch", r, batch[r])
        /\ batch' = [batch EXCEPT ![r] = {}] /\ UNCHANGED <<got, scanElse>>
    BY <1>4 DEF PutBatch
  <2>3. QED
    BY <1>1, <2>1, <2>2, PutIInv
<1>5. CASE WalkEnds(r)
  BY <1>5, MovesIInv DEF WalkEnds, Goes
<1>6. CASE WalkFails(r)
  BY <1>6, MovesIInv DEF WalkFails, Goes
<1>7. CASE PutError(r)
  <2>1. /\ scanner[r] = "broken" /\ scanner' = [scanner EXCEPT ![r] = "flush"]
        /\ Put("error", r, {}) /\ UNCHANGED <<got, batch, scanElse>>
    BY <1>7 DEF PutError, Goes
  <2>2. QED
    BY <1>1, <2>1, PutIInv
<1>8. CASE Flush(r)
  <2>1. CASE batch[r] = {}
    <3>1. batch' = batch
      BY <1>8, <2>1 DEF Flush, IInv, TypeOK
    <3>2. QED
      BY <1>8, <2>1, <3>1, MovesIInv DEF Flush, Goes
  <2>2. CASE batch[r] # {}
    <3>1. /\ scanner[r] = "flush" /\ scanner' = [scanner EXCEPT ![r] = "report"]
          /\ Put("batch", r, batch[r])
          /\ batch' = [batch EXCEPT ![r] = {}] /\ UNCHANGED <<got, scanElse>>
      BY <1>8, <2>2 DEF Flush, Goes
    <3>2. QED
      BY <1>1, <3>1, PutIInv
  <2>3. QED
    BY <2>1, <2>2
<1>9. CASE Report(r)
  <2>1. batch[r] = {}
    BY <1>9 DEF Report, Goes, IInv, Walked
  <2>2. UNCHANGED batch
    BY <1>9 DEF Report
  <2>3. /\ scanner[r] = "report" /\ scanner' = [scanner EXCEPT ![r] = "ended"]
        /\ Put("root_done", r, got[r]) /\ UNCHANGED <<got, scanElse>>
    BY <1>9 DEF Report, Goes
  <2>4. QED
    BY <1>1, <2>1, <2>2, <2>3, PutIInv
<1>10. QED
  BY <1>2, <1>3, <1>4, <1>5, <1>6, <1>7, <1>8, <1>9 DEF Scan

-----------------------------------------------------------------------------
(* The writer                                                              *)

\* Taking a message keeps what is known of the scanners and of the queue.
LEMMA GetKeeps ==
    ASSUME IInv, q # <<>>, q' = Tail(q), UNCHANGED writeElse
    PROVE  /\ q' \in Seq(Message) /\ Len(q') <= QueueMax
           /\ Head(q) \in Message /\ Head(q).root \in asked
           /\ Quiescent' /\ Walked' /\ DoneIsLast'
<1>1. /\ q' \in Seq(Message) /\ Head(q) \in Message
      /\ Len(q) \in Nat /\ Len(q) >= 1 /\ Head(q) = q[1] /\ Len(q') = Len(q) - 1
      /\ \A i \in 1 .. Len(q') : q'[i] = q[i + 1]
  BY TailQueue DEF IInv, TypeOK
<1>2. Len(q') <= QueueMax
  BY <1>1, InventoryAssumption DEF InventoryAssumption, IInv, TypeOK
<1>3. Head(q).root \in Roots
  BY <1>1 DEF Message
<1>4. Head(q).root \in asked
  <2>1. Mentions(q, Head(q).root)
    BY <1>1 DEF Mentions
  <2>2. QED
    BY <1>3, <2>1 DEF IInv, Walked
<1>5. Quiescent'
  BY DEF IInv, Quiescent, writeElse
<1>6. \A i \in 1 .. Len(q') : i + 1 \in 1 .. Len(q)
  BY <1>1
<1>7. \A r \in Roots : Mentions(q', r) => Mentions(q, r)
  BY <1>1, <1>6 DEF Mentions
<1>8. Walked'
  BY <1>7 DEF IInv, Walked, writeElse, scanning
<1>9. DoneIsLast'
  <2> SUFFICES ASSUME NEW i \in 1 .. Len(q'), q'[i].kind = "root_done"
               PROVE  /\ scanner[q'[i].root] = "ended"
                      /\ q'[i].files = got[q'[i].root]
                      /\ \A j \in 1 .. Len(q') : j > i => q'[j].root # q'[i].root
    BY DEF DoneIsLast, writeElse, scanning
  <2>1. i + 1 \in 1 .. Len(q) /\ q'[i] = q[i + 1]
    BY <1>1, <1>6
  <2>2. \A j \in 1 .. Len(q') : j > i =>
            j + 1 \in 1 .. Len(q) /\ j + 1 > i + 1 /\ q'[j] = q[j + 1]
    BY <1>1, <1>6
  <2>3. QED
    BY <2>1, <2>2 DEF IInv, DoneIsLast
<1>10. QED
  BY <1>1, <1>2, <1>4, <1>5, <1>8, <1>9

LEMMA InsertBatchIInv ==
    ASSUME IInv, InsertBatch
    PROVE  IInv'
<1> DEFINE r == Head(q).root
           files == Head(q).files
<1>1. /\ writer = "running" /\ q # <<>> /\ Head(q).kind = "batch" /\ q' = Tail(q)
      /\ tx' = [tx EXCEPT !.rows[r] = @ \cup files]
      /\ db' \in {db, tx'} /\ UNCHANGED <<told, wiped, writer, writeElse>>
  BY DEF InsertBatch, Get
<1>2. /\ q' \in Seq(Message) /\ Len(q') <= QueueMax /\ Head(q) \in Message
      /\ r \in asked /\ Quiescent' /\ Walked' /\ DoneIsLast'
  BY <1>1, GetKeeps
<1>3. r \in Roots /\ files \in SUBSET File
  BY <1>2 DEF Message
<1>4. \A s \in Roots :
        /\ Queued(q, s) = Queued(q', s) \cup (IF s = r THEN files ELSE {})
        /\ Mentions(q, s) <=> Mentions(q', s) \/ s = r
  BY <1>1, TailQueued DEF IInv, TypeOK
<1> HIDE DEF r, files
<1>5. /\ tx' \in Tables /\ tx'.marked = tx.marked
      /\ \A s \in Roots : tx'.rows[s] = IF s = r THEN tx.rows[r] \cup files ELSE tx.rows[s]
  BY <1>1, <1>3 DEF IInv, TypeOK, Tables
<1>6. r \notin tx.marked
  BY <1>1, <1>2, <1>3, <1>4 DEF IInv, RecordedEnded, Live
<1>7. WholeIn(tx)' /\ WholeIn(db)'
  <2>1. WholeIn(tx)'
    BY <1>1, <1>5, <1>6 DEF IInv, TypeOK, Tables, WholeIn
  <2>2. CASE db' = db
    BY <2>1, <2>2, <1>1 DEF IInv, WholeIn
  <2>3. CASE db' = tx'
    BY <2>1, <2>3 DEF WholeIn
  <2>4. QED
    BY <2>1, <2>2, <2>3, <1>1
<1>8. TypeOK'
  BY <1>1, <1>2, <1>5 DEF IInv, TypeOK, writeElse, scanning
<1>9. NoTransaction'
  BY <1>1 DEF NoTransaction, Live
<1>10. Accounted'
  BY <1>1, <1>4, <1>5 DEF IInv, TypeOK, Accounted, Live, writeElse, scanning
<1>11. RecordedEnded' /\ NotWiped'
  BY <1>1, <1>4, <1>5 DEF IInv, TypeOK, RecordedEnded, NotWiped, Live, writeElse, scanning
<1>12. QED
  BY <1>2, <1>7, <1>8, <1>9, <1>10, <1>11 DEF IInv

\* When the last message of a root is taken, all it counted is in the table.
LEMMA RootDoneIInv ==
    ASSUME IInv, RootDone
    PROVE  IInv'
<1> DEFINE r == Head(q).root
           files == Head(q).files
<1>1. /\ writer = "running" /\ q # <<>> /\ Head(q).kind = "root_done" /\ q' = Tail(q)
      /\ tx' = [tx EXCEPT !.marked = @ \cup {r}] /\ db' = tx'
      /\ told' = [told EXCEPT ![r] = files]
      /\ writer' \in {"running", "done"} /\ UNCHANGED <<wiped, writeElse>>
  BY DEF RootDone, Get
<1>2. /\ q' \in Seq(Message) /\ Len(q') <= QueueMax /\ Head(q) \in Message
      /\ r \in asked /\ Quiescent' /\ Walked' /\ DoneIsLast'
  BY <1>1, GetKeeps
<1>3. r \in Roots /\ files \in SUBSET File
  BY <1>2 DEF Message
<1>4. \A s \in Roots :
        /\ Queued(q, s) = Queued(q', s)
        /\ Mentions(q, s) <=> Mentions(q', s) \/ s = r
  BY <1>1, TailOther DEF IInv, TypeOK
<1>5. scanner[r] = "ended" /\ files = got[r] /\ ~Mentions(q', r)
  <2>1. /\ Len(q) \in Nat /\ Len(q) >= 1 /\ Head(q) = q[1] /\ Len(q') = Len(q) - 1
        /\ \A i \in 1 .. Len(q') : q'[i] = q[i + 1]
    BY <1>1, TailQueue DEF IInv, TypeOK
  <2>2. /\ scanner[r] = "ended" /\ files = got[r]
        /\ \A j \in 1 .. Len(q) : j > 1 => q[j].root # r
    BY <1>1, <2>1 DEF IInv, DoneIsLast
  <2>3. \A i \in 1 .. Len(q') : i + 1 \in 1 .. Len(q) /\ i + 1 > 1
    BY <2>1
  <2>4. ~Mentions(q', r)
    BY <2>1, <2>2, <2>3 DEF Mentions
  <2>5. QED
    BY <2>2, <2>4
<1> HIDE DEF r, files
<1>6. tx' \in Tables /\ tx'.marked = tx.marked \cup {r} /\ tx'.rows = tx.rows
  BY <1>1, <1>3 DEF IInv, TypeOK, Tables
<1>7. tx.rows[r] = files
  <2>1. Queued(q', r) = {}
    BY <1>5 DEF Queued, Mentions
  <2>2. batch[r] = {}
    BY <1>3, <1>5 DEF IInv, Walked
  <2>3. got[r] = tx.rows[r] \cup Queued(q, r) \cup batch[r]
    BY <1>1, <1>2 DEF IInv, Accounted, Live
  <2>4. QED
    BY <1>3, <1>4, <1>5, <2>1, <2>2, <2>3
<1>8. \A s \in Roots : told'[s] = IF s = r THEN files ELSE told[s]
  BY <1>1 DEF IInv, TypeOK
<1>9. WholeIn(tx)' /\ WholeIn(db)'
  <2>1. r \notin wiped
    BY <1>1, <1>2 DEF IInv, NotWiped, Live
  <2>2. WholeIn(tx)'
    BY <1>1, <1>6, <1>7, <1>8, <2>1 DEF IInv, TypeOK, Tables, WholeIn
  <2>3. QED
    BY <1>1, <2>2 DEF WholeIn
<1>10. TypeOK'
  BY <1>1, <1>2, <1>3, <1>6 DEF IInv, TypeOK, writeElse, scanning
<1>11. NoTransaction'
  BY <1>1 DEF NoTransaction
<1>12. Accounted'
  BY <1>1, <1>4, <1>6 DEF IInv, TypeOK, Accounted, Live, writeElse, scanning
<1>13. RecordedEnded' /\ NotWiped'
  BY <1>1, <1>4, <1>5, <1>6
     DEF IInv, TypeOK, RecordedEnded, NotWiped, Live, writeElse, scanning
<1>14. QED
  BY <1>2, <1>9, <1>10, <1>11, <1>12, <1>13 DEF IInv

LEMMA ShowErrorIInv ==
    ASSUME IInv, ShowError
    PROVE  IInv'
<1>1. /\ writer = "running" /\ q # <<>> /\ Head(q).kind = "error" /\ q' = Tail(q)
      /\ UNCHANGED <<tables, writer, writeElse>>
  BY DEF ShowError, Get
<1>2. /\ q' \in Seq(Message) /\ Len(q') <= QueueMax
      /\ Quiescent' /\ Walked' /\ DoneIsLast'
  BY <1>1, GetKeeps
<1>3. \A s \in Roots : Queued(q, s) = Queued(q', s) /\ (Mentions(q', s) => Mentions(q, s))
  BY <1>1, TailOther DEF IInv, TypeOK
<1>4. TypeOK'
  BY <1>1, <1>2 DEF IInv, TypeOK, tables, writeElse, scanning
<1>5. WholeIn(db)' /\ WholeIn(tx)' /\ NoTransaction'
  BY <1>1 DEF IInv, WholeIn, NoTransaction, Live, tables
<1>6. Accounted'
  BY <1>1, <1>3 DEF IInv, TypeOK, Accounted, Live, tables, writeElse, scanning
<1>7. RecordedEnded' /\ NotWiped'
  BY <1>1, <1>3 DEF IInv, TypeOK, RecordedEnded, NotWiped, Live, tables, writeElse, scanning
<1>8. QED
  BY <1>2, <1>4, <1>5, <1>6, <1>7 DEF IInv

LEMMA ConnectIInv ==
    ASSUME IInv, Connect \/ ConnectFails
    PROVE  IInv'
<1>1. /\ writer = "starting" /\ writer' \in {"running", "lost"}
      /\ UNCHANGED <<tables, q, writeElse>>
  BY DEF Connect, ConnectFails
<1>2. TypeOK' /\ Quiescent'
  BY <1>1 DEF IInv, TypeOK, Quiescent, tables, writeElse, scanning
<1>3. WholeIn(db)' /\ WholeIn(tx)' /\ Walked' /\ DoneIsLast'
  BY <1>1 DEF IInv, WholeIn, Walked, DoneIsLast, Mentions, tables, writeElse, scanning
<1>4. Accounted' /\ RecordedEnded' /\ NotWiped'
  BY <1>1 DEF IInv, Accounted, RecordedEnded, NotWiped, Live, Queued, Mentions,
              tables, writeElse, scanning
<1>5. QED
  BY <1>1, <1>2, <1>3, <1>4 DEF IInv, NoTransaction, Live, tables

LEMMA WriteFailsIInv ==
    ASSUME IInv, WriteFails
    PROVE  IInv'
<1>1. /\ writer = "running" /\ q # <<>> /\ q' = Tail(q)
      /\ writer' = "dead" /\ tx' = db /\ UNCHANGED <<db, told, wiped, writeElse>>
  BY DEF WriteFails
<1>2. /\ q' \in Seq(Message) /\ Len(q') <= QueueMax
      /\ Quiescent' /\ Walked' /\ DoneIsLast'
  BY <1>1, GetKeeps
<1>3. TypeOK'
  BY <1>1, <1>2 DEF IInv, TypeOK, writeElse, scanning
<1>4. WholeIn(db)' /\ WholeIn(tx)' /\ NoTransaction'
  BY <1>1 DEF IInv, WholeIn, NoTransaction
<1>5. Accounted' /\ RecordedEnded' /\ NotWiped'
  BY <1>1 DEF Accounted, RecordedEnded, NotWiped, Live
<1>6. QED
  BY <1>2, <1>3, <1>4, <1>5 DEF IInv

-----------------------------------------------------------------------------
(* The theorems                                                            *)

LEMMA NextIInv ==
    ASSUME IInv, [Next]_vars
    PROVE  IInv'
<1>1. stop \in BOOLEAN
  BY DEF IInv, TypeOK
<1>2. CASE DropFiles \/ DropMarks
  BY <1>2, DropIInv
<1>3. CASE \E S \in SUBSET Roots : Begin(S)
  BY <1>3, BeginIInv
<1>4. CASE \E r \in Roots : Submit(r) \/ Scan(r) \/ WalkFails(r)
  BY <1>4, SubmitIInv, ScanIInv
<1>5. CASE Collected \/ Waited
  <2>1. /\ UNCHANGED <<tables, asked, scanning, q, writer, stop, interrupts>>
        /\ main' \in {"waiting", "exiting"}
    BY <1>5 DEF Collected, Waited
  <2>2. stop' \in BOOLEAN /\ interrupts' \in 0 .. 2
    BY <2>1 DEF IInv, TypeOK
  <2>3. QED
    BY <2>1, <2>2, MainMoves
<1>6. CASE Interrupt \/ InterruptAgain
  <2>1. /\ UNCHANGED <<tables, asked, scanning, q, writer>>
        /\ main' \in {"joining", "waiting"} /\ interrupts' \in 0 .. 2
    BY <1>6 DEF Interrupt, InterruptAgain
  <2>2. stop' \in BOOLEAN
    BY <1>1, <1>6 DEF Interrupt, InterruptAgain
  <2>3. QED
    BY <2>1, <2>2, MainMoves
<1>7. CASE Joined
  <2>1. /\ UNCHANGED <<tables, asked, scanning, q, writer, interrupts>>
        /\ main' = "waiting"
    BY <1>7 DEF Joined
  <2>2. stop' \in BOOLEAN
    BY <1>7 DEF Joined
  <2>3. interrupts' \in 0 .. 2
    BY <2>1 DEF IInv, TypeOK
  <2>4. QED
    BY <2>1, <2>2, <2>3, MainMoves
<1>8. CASE Exit \/ Crash
  BY <1>8, GoneIInv DEF Exit, Crash
<1>9. CASE Write
  BY <1>9, ConnectIInv, InsertBatchIInv, RootDoneIInv, ShowErrorIInv DEF Write
<1>10. CASE ConnectFails \/ WriteFails
  BY <1>10, ConnectIInv, WriteFailsIInv
<1>11. CASE UNCHANGED vars
  <2>1. TypeOK' /\ Quiescent'
    BY <1>11 DEF vars, tables, scanning, IInv, TypeOK, Quiescent
  <2>2. QED
    BY <1>11, <2>1, Unnoticed DEF vars
<1>12. QED
  BY <1>2, <1>3, <1>4, <1>5, <1>6, <1>7, <1>8, <1>9, <1>10, <1>11 DEF Next

\* The accounting of rows holds throughout every run of the scanner.
THEOREM Invariance == Spec => []IInv
<1>1. Init => IInv
  BY InitIInv
<1>2. IInv /\ [Next]_vars => IInv'
  BY NextIInv
<1>3. QED
  BY <1>1, <1>2, PTL DEF Spec

\* Every variable keeps its type, and the queue its bound.
THEOREM TypeCorrect == Spec => []TypeOK
<1>1. IInv => TypeOK
  BY DEF IInv
<1>2. QED
  BY <1>1, Invariance, PTL

\* A root named in scan_roots has every file its scanner counted: whatever is
\* interrupted, fails or is killed, and however the scanners and the writer
\* interleave.  Only what a reset killed halfway leaves has no rows.
THEOREM ScanIsWhole == Spec => []RecordedWhole
<1>1. IInv => RecordedWhole
  BY DEF IInv, WholeIn, RecordedWhole
<1>2. QED
  BY <1>1, Invariance, PTL

-----------------------------------------------------------------------------
(* Interrupts                                                              *)

\* stop_event is set only after the join, or by the interrupt that breaks it.
StopLate ==
    /\ main \in {"off", "dropping", "opening", "submitting", "collecting", "joining"} =>
            ~stop /\ interrupts # 2
    /\ stop => AllStopped \/ interrupts = 2

WalkedOut ==
    \A r \in Roots \ Faulty :
        /\ scanner[r] # "broken"
        /\ scanner[r] \in {"flush", "report"} => got[r] = Under[r] \/ interrupts = 2

CutInv == TypeOK /\ StopLate /\ WalkedOut

LEMMA ScanCut ==
    ASSUME CutInv, NEW r \in Roots, Scan(r) \/ WalkFails(r)
    PROVE  StopLate' /\ WalkedOut'
<1>1. UNCHANGED scanElse
  BY DEF Scan, Start, Take, PutBatch, WalkEnds, WalkFails, PutError, Flush, Report
<1>2. scanner[r] \in {"queued", "walking", "broken", "flush", "report"}
  BY DEF Scan, Start, Take, PutBatch, WalkEnds, WalkFails, PutError, Flush, Report, Goes
<1>3. StopLate'
  <2>1. ~AllStopped
    BY <1>2 DEF AllStopped
  <2>2. main' = main /\ stop' = stop /\ interrupts' = interrupts
    BY <1>1 DEF scanElse
  <2>3. ~stop \/ interrupts = 2
    BY <2>1 DEF CutInv, StopLate
  <2>4. QED
    BY <2>2, <2>3 DEF CutInv, StopLate
<1>4. WalkedOut'
  <2> SUFFICES ASSUME NEW s \in Roots \ Faulty
               PROVE  /\ scanner'[s] # "broken"
                      /\ scanner'[s] \in {"flush", "report"} =>
                            got'[s] = Under[s] \/ interrupts' = 2
    BY DEF WalkedOut
  <2>1. interrupts' = interrupts
    BY <1>1 DEF scanElse
  <2>2. CASE s # r
    <3>1. scanner'[s] = scanner[s] /\ got'[s] = got[s]
      BY <2>2 DEF Scan, Start, Take, PutBatch, WalkEnds, WalkFails, PutError, Flush,
                  Report, Goes, CutInv, TypeOK
    <3>2. QED
      BY <2>1, <3>1 DEF CutInv, WalkedOut
  <2>3. CASE s = r
    <3>1. CASE Start(r) \/ Take(r) \/ PutBatch(r) \/ Report(r)
      <4>1. scanner'[r] \in {"walking", "ended"}
        BY <3>1 DEF Start, Take, PutBatch, Report, Goes, CutInv, TypeOK
      <4>2. QED
        BY <2>3, <4>1
    <3>2. CASE WalkEnds(r)
      <4>1. scanner'[r] = "flush" /\ got' = got /\ (got[r] = Under[r] \/ stop)
        BY <3>2 DEF WalkEnds, Goes, CutInv, TypeOK
      <4>2. stop => interrupts = 2
        BY <1>2 DEF CutInv, StopLate, AllStopped
      <4>3. QED
        BY <2>1, <2>3, <4>1, <4>2
    <3>3. CASE WalkFails(r) \/ PutError(r)
      BY <2>3, <3>3 DEF WalkFails, PutError, Goes, CutInv, WalkedOut
    <3>4. CASE Flush(r)
      <4>1. scanner[r] = "flush" /\ scanner'[r] = "report" /\ got' = got
        BY <3>4 DEF Flush, Goes, CutInv, TypeOK
      <4>2. QED
        BY <2>1, <2>3, <4>1 DEF CutInv, WalkedOut
    <3>5. QED
      BY <3>1, <3>2, <3>3, <3>4 DEF Scan
  <2>4. QED
    BY <2>2, <2>3
<1>5. QED
  BY <1>3, <1>4

LEMMA NextCut ==
    ASSUME CutInv, [Next]_vars
    PROVE  StopLate' /\ WalkedOut'
<1>1. CASE DropFiles \/ DropMarks \/ \E S \in SUBSET Roots : Begin(S)
  BY <1>1 DEF DropFiles, DropMarks, Begin, scanning, CutInv, StopLate, WalkedOut
<1>2. CASE \E r \in Roots : Submit(r)
  <2>1. PICK r \in Roots : Submit(r)
    BY <1>2
  <2>2. /\ main = "submitting" /\ main' \in {"submitting", "collecting"}
        /\ scanner' = [scanner EXCEPT ![r] = "queued"]
        /\ UNCHANGED <<got, stop, interrupts>>
    BY <2>1 DEF Submit
  <2>3. QED
    BY <2>2 DEF CutInv, TypeOK, StopLate, WalkedOut
<1>3. CASE \E r \in Roots : Scan(r) \/ WalkFails(r)
  BY <1>3, ScanCut
<1>4. CASE Collected \/ Interrupt \/ Joined \/ InterruptAgain \/ Waited
  BY <1>4 DEF Collected, Interrupt, Joined, InterruptAgain, Waited, scanning,
              AllStopped, CutInv, StopLate, WalkedOut
<1>5. CASE Exit \/ Crash
  BY <1>5 DEF Exit, Crash, Gone, StopLate, WalkedOut
<1>6. CASE Write \/ ConnectFails \/ WriteFails
  <2>1. UNCHANGED writeElse
    BY <1>6 DEF Write, Connect, InsertBatch, RootDone, ShowError, ConnectFails, WriteFails
  <2>2. QED
    BY <2>1 DEF writeElse, scanning, AllStopped, CutInv, StopLate, WalkedOut
<1>7. CASE UNCHANGED vars
  BY <1>7 DEF vars, scanning, AllStopped, CutInv, StopLate, WalkedOut
<1>8. QED
  BY <1>1, <1>2, <1>3, <1>4, <1>5, <1>6, <1>7 DEF Next

\* One interrupt cuts no scan short: a root whose walk does not raise reports
\* all its files unless the user interrupts twice.
THEOREM OneInterruptCutsNothing == Spec => CutByTwoInterrupts
<1>1. Init => CutInv
  <2>1. Init => StopLate /\ WalkedOut
    BY DEF Init, StopLate, WalkedOut
  <2>2. QED
    BY <2>1, InitIInv DEF CutInv, IInv
<1>2. IInv' /\ CutInv /\ [Next]_vars => CutInv'
  BY NextCut DEF CutInv, IInv
<1>3. CutInv => \A r \in Roots \ Faulty :
        scanner[r] = "report" /\ scanner'[r] = "ended" =>
            got[r] = Under[r] \/ interrupts = 2
  BY DEF CutInv, WalkedOut
<1>4. QED
  BY <1>1, <1>2, <1>3, Invariance, PTL DEF Spec, CutByTwoInterrupts
=============================================================================
