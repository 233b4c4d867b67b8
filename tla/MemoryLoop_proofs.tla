-------------------------- MODULE MemoryLoop_proofs --------------------------
(***************************************************************************)
(* Theorems about MemoryLoop, for any number of seeds, targets, workers,   *)
(* generations and restarts, and any length of the event queue.            *)
(***************************************************************************)
EXTENDS MemoryLoop, FiniteSetTheorems, FunctionTheorems, SequenceTheorems,
        WellFoundedInduction, TLAPS

-----------------------------------------------------------------------------
(* Evidence in a sequence of rows                                          *)

EvidenceAt(q) == {i \in DOMAIN q : IsEvidence(q[i])}

LEMMA EvidenceFinite ==
    ASSUME NEW q \in Seq(Rows)
    PROVE  IsFiniteSet(EvidenceAt(q)) /\ EvidenceIn(q) \in Nat
<1>1. DOMAIN q = 1 .. Len(q) /\ Len(q) \in Nat
  BY LenProperties
<1>2. IsFiniteSet(1 .. Len(q))
  BY <1>1, FS_Interval
<1>3. IsFiniteSet(EvidenceAt(q))
  BY <1>1, <1>2, FS_Subset DEF EvidenceAt
<1> QED
  BY <1>3, FS_CardinalityType DEF EvidenceIn, EvidenceAt

\* Appended rows add their evidence.
LEMMA EvidenceConcat ==
    ASSUME NEW q \in Seq(Rows), NEW r \in Seq(Rows)
    PROVE  q \o r \in Seq(Rows) /\ EvidenceIn(q \o r) = EvidenceIn(q) + EvidenceIn(r)
<1> DEFINE A == EvidenceAt(q)
           B == EvidenceAt(r)
           n == Len(q)
           f == [i \in B |-> i + n]
           C == {f[i] : i \in B}
<1>1. /\ DOMAIN q = 1 .. n /\ n \in Nat
      /\ DOMAIN r = 1 .. Len(r) /\ Len(r) \in Nat
      /\ q \o r \in Seq(Rows)
      /\ DOMAIN (q \o r) = 1 .. (n + Len(r))
      /\ \A i \in 1 .. (n + Len(r)) : (q \o r)[i] = IF i <= n THEN q[i] ELSE r[i - n]
  BY LenProperties, ConcatProperties
<1>2. A \subseteq 1 .. n /\ B \subseteq 1 .. Len(r)
  BY <1>1 DEF EvidenceAt
<1>3. \A i \in B : i \in Nat /\ f[i] = i + n /\ f[i] \notin 1 .. n
  BY <1>1, <1>2
<1>4. EvidenceAt(q \o r) = A \cup C
  <2>1. ASSUME NEW i \in EvidenceAt(q \o r) PROVE i \in A \cup C
    <3>1. i \in 1 .. (n + Len(r)) /\ IsEvidence((q \o r)[i])
      BY <1>1, <2>1 DEF EvidenceAt
    <3>2. CASE i <= n
      BY <1>1, <3>1, <3>2 DEF EvidenceAt
    <3>3. CASE ~(i <= n)
      <4>1. i - n \in 1 .. Len(r) /\ i = (i - n) + n
        BY <1>1, <3>1, <3>3
      <4>2. i - n \in B
        BY <1>1, <3>1, <3>3, <4>1 DEF EvidenceAt
      <4> QED
        BY <4>1, <4>2
    <3> QED
      BY <3>2, <3>3
  <2>2. ASSUME NEW i \in A PROVE i \in EvidenceAt(q \o r)
    <3>1. i \in 1 .. n /\ i \in 1 .. (n + Len(r)) /\ i <= n /\ IsEvidence(q[i])
      BY <1>1, <2>2 DEF EvidenceAt
    <3> QED
      BY <1>1, <3>1 DEF EvidenceAt
  <2>3. ASSUME NEW i \in B PROVE f[i] \in EvidenceAt(q \o r)
    <3>1. i \in 1 .. Len(r) /\ IsEvidence(r[i])
      BY <1>1, <2>3 DEF EvidenceAt
    <3>2. f[i] \in 1 .. (n + Len(r)) /\ ~(f[i] <= n) /\ f[i] - n = i
      BY <1>1, <3>1
    <3> QED
      BY <1>1, <3>1, <3>2 DEF EvidenceAt
  <2> QED
    BY <2>1, <2>2, <2>3
<1>5. A \cap C = {}
  BY <1>2, <1>3
<1>6. /\ IsFiniteSet(A) /\ Cardinality(A) = EvidenceIn(q) /\ Cardinality(A) \in Nat
      /\ IsFiniteSet(B) /\ Cardinality(B) = EvidenceIn(r) /\ Cardinality(B) \in Nat
  BY EvidenceFinite DEF EvidenceIn, EvidenceAt
<1>7. IsFiniteSet(C) /\ Cardinality(C) = Cardinality(B)
  <2>1. f \in [B -> C] /\ \A i, j \in B : f[i] = f[j] => i = j
    BY <1>1, <1>3
  <2>2. \A c \in C : \E i \in B : f[i] = c
    OBVIOUS
  <2> HIDE DEF f, B, C
  <2>3. f \in Bijection(B, C)
    BY <2>1, <2>2, Fun_IsBij
  <2>4. ExistsBijection(B, C)
    BY <2>3 DEF ExistsBijection
  <2> QED
    BY <1>6, <2>4, FS_Bijection
<1> HIDE DEF A, B, C
<1>8. Cardinality(A \cup C) = Cardinality(A) + Cardinality(C) - Cardinality(A \cap C)
  BY <1>6, <1>7, FS_Union
<1>9. Cardinality(A \cup C) = Cardinality(A) + Cardinality(B)
  <2>1. Cardinality(A \cap C) = 0
    BY <1>5, FS_EmptySet
  <2> QED
    BY <1>6, <1>7, <1>8, <2>1
<1>10. EvidenceIn(q \o r) = Cardinality(A \cup C)
  BY <1>4 DEF EvidenceIn, EvidenceAt
<1> QED
  BY <1>1, <1>6, <1>9, <1>10

LEMMA EvidenceSplit ==
    ASSUME NEW a \in Seq(Rows), NEW b \in Seq(Rows)
    PROVE  /\ a \o b \in Seq(Rows) /\ EvidenceIn(a \o b) = EvidenceIn(a) + EvidenceIn(b)
           /\ EvidenceIn(a) \in Nat /\ EvidenceIn(b) \in Nat
           /\ EvidenceIn(a) <= EvidenceIn(a \o b) /\ EvidenceIn(b) <= EvidenceIn(a \o b)
<1>1. /\ a \o b \in Seq(Rows) /\ EvidenceIn(a \o b) = EvidenceIn(a) + EvidenceIn(b)
      /\ EvidenceIn(a) \in Nat /\ EvidenceIn(b) \in Nat
  BY EvidenceConcat, EvidenceFinite
<1> QED
  BY <1>1

LEMMA EvidenceCut ==
    /\ Cut \in Rows /\ <<Cut>> \in Seq(Rows) /\ EvidenceIn(<<Cut>>) = 0
    /\ <<>> \in Seq(Rows) /\ EvidenceIn(<<>>) = 0
<1>1. Cut \in Rows /\ ~IsEvidence(Cut)
  BY DEF Cut, Rows, IsEvidence
<1>2. <<Cut>> \in Seq(Rows) /\ DOMAIN <<Cut>> = {1} /\ <<Cut>>[1] = Cut
  BY <1>1
<1>3. EvidenceAt(<<Cut>>) = {}
  BY <1>1, <1>2 DEF EvidenceAt
<1>4. EvidenceAt(<<>>) = {}
  BY DEF EvidenceAt
<1> QED
  BY <1>1, <1>2, <1>3, <1>4, FS_EmptySet DEF EvidenceIn, EvidenceAt

\* The first rows of a sequence, and all but the first.
LEMMA EvidencePrefix ==
    ASSUME NEW r \in Seq(Rows), NEW k \in 0 .. Len(r)
    PROVE  SubSeq(r, 1, k) \in Seq(Rows) /\ EvidenceIn(SubSeq(r, 1, k)) <= EvidenceIn(r)
<1>1. Len(r) \in Nat /\ \A i \in 1 .. Len(r) : r[i] \in Rows
  BY LenProperties, ElementOfSeq
<1>2. SubSeq(r, 1, k) \in Seq(Rows) /\ SubSeq(r, k + 1, Len(r)) \in Seq(Rows)
  BY <1>1, SubSeqProperties
<1>3. SubSeq(r, 1, k) \o SubSeq(r, k + 1, Len(r)) = SubSeq(r, 1, Len(r))
  <2>1. 1 \in 1 .. Len(r) + 1 /\ k \in 1 - 1 .. Len(r) /\ Len(r) \in k .. Len(r)
    BY <1>1
  <2> QED
    BY <2>1, ConcatAdjacentSubSeq
<1>4. SubSeq(r, 1, Len(r)) = r
  BY SubSeqFull
<1>5. EvidenceIn(SubSeq(r, 1, k)) <= EvidenceIn(SubSeq(r, 1, k) \o SubSeq(r, k + 1, Len(r)))
  BY <1>2, EvidenceSplit
<1> QED
  BY <1>2, <1>3, <1>4, <1>5

LEMMA EvidenceTail ==
    ASSUME NEW r \in Seq(Rows), r # <<>>
    PROVE  Tail(r) \in Seq(Rows) /\ EvidenceIn(Tail(r)) <= EvidenceIn(r)
<1>1. Head(r) \in Rows /\ Tail(r) \in Seq(Rows)
  BY HeadTailProperties
<1>2. r = <<Head(r)>> \o Tail(r) /\ <<Head(r)>> \in Seq(Rows)
  BY <1>1
<1>3. EvidenceIn(Tail(r)) <= EvidenceIn(<<Head(r)>> \o Tail(r))
  BY <1>1, <1>2, EvidenceSplit
<1> QED
  BY <1>1, <1>2, <1>3

\* A file that ends in a line cut short loses that line and no evidence.
LEMMA EvidenceFront ==
    ASSUME NEW q \in Seq(Rows), q # <<>>, Last(q) = Cut
    PROVE  /\ Front(q) \in Seq(Rows) /\ q = Front(q) \o <<Cut>>
           /\ EvidenceIn(Front(q)) = EvidenceIn(q)
<1>1. Len(q) \in Nat \ {0} /\ Front(q) = SubSeq(q, 1, Len(q) - 1) /\ q[Len(q)] = Cut
  BY EmptySeq DEF Front, Last
<1>2. Front(q) \in Seq(Rows)
  BY <1>1, EvidencePrefix
<1>3. q = Front(q) \o <<Cut>>
  <2>1. SubSeq(q, 1, Len(q)) = SubSeq(q, 1, Len(q) - 1) \o <<q[Len(q)]>>
    BY <1>1, SubSeqRecursiveSecond
  <2> QED
    BY <1>1, <2>1, SubSeqFull
<1>4. /\ EvidenceIn(Front(q) \o <<Cut>>) = EvidenceIn(Front(q)) + EvidenceIn(<<Cut>>)
      /\ EvidenceIn(Front(q)) \in Nat
  BY <1>2, EvidenceSplit, EvidenceCut
<1>5. EvidenceIn(<<Cut>>) = 0
  BY EvidenceCut
<1>6. EvidenceIn(q) = EvidenceIn(Front(q) \o <<Cut>>)
  BY <1>3
<1>7. EvidenceIn(Front(q)) = EvidenceIn(q)
  <2> DEFINE a == EvidenceIn(q)
             b == EvidenceIn(Front(q))
             c == EvidenceIn(<<Cut>>)
             d == EvidenceIn(Front(q) \o <<Cut>>)
  <2>1. a = d /\ d = b + c /\ b \in Nat /\ c = 0
    BY <1>4, <1>5, <1>6
  <2> HIDE DEF a, b, c, d
  <2>2. b = a
    BY <2>1
  <2> QED
    BY <2>2 DEF a, b
<1> QED
  BY <1>2, <1>3, <1>7

\* Rows are only ever added to the file: its evidence does not shrink, and grows
\* by no more than the rows carry.
LEMMA WrittenEvidence ==
    ASSUME NEW q \in Seq(Rows), NEW r \in Seq(Rows)
    PROVE  /\ Written(q, r) \in Seq(Rows)
           /\ EvidenceIn(q) <= EvidenceIn(Written(q, r))
           /\ EvidenceIn(Written(q, r)) <= EvidenceIn(q) + EvidenceIn(r)
<1>1. EvidenceIn(q) \in Nat /\ EvidenceIn(r) \in Nat
  BY EvidenceFinite
<1>2. CASE q # <<>> /\ r # <<>> /\ Last(q) = Cut
  <2>1. Written(q, r) = Front(q) \o Tail(r)
    BY <1>2 DEF Written
  <2>2. /\ Front(q) \in Seq(Rows) /\ Tail(r) \in Seq(Rows)
        /\ EvidenceIn(Front(q)) = EvidenceIn(q) /\ EvidenceIn(Tail(r)) <= EvidenceIn(r)
        /\ EvidenceIn(Tail(r)) \in Nat
    BY <1>2, EvidenceFront, EvidenceTail, EvidenceFinite
  <2>3. /\ Front(q) \o Tail(r) \in Seq(Rows)
        /\ EvidenceIn(Front(q) \o Tail(r)) = EvidenceIn(Front(q)) + EvidenceIn(Tail(r))
    BY <2>2, EvidenceConcat
  <2> QED
    BY <1>1, <2>1, <2>2, <2>3
<1>3. CASE ~(q # <<>> /\ r # <<>> /\ Last(q) = Cut)
  <2>1. Written(q, r) = q \o r
    BY <1>3 DEF Written
  <2> QED
    BY <1>1, <2>1, EvidenceConcat
<1> QED
  BY <1>2, <1>3

LEMMA CutShortEvidence ==
    ASSUME NEW q \in Seq(Rows), NEW r \in Seq(Rows), NEW w \in CutShort(q, r)
    PROVE  /\ w \in Seq(Rows)
           /\ EvidenceIn(q) <= EvidenceIn(w) /\ EvidenceIn(w) <= EvidenceIn(q) + EvidenceIn(r)
<1>1. EvidenceIn(q) \in Nat /\ EvidenceIn(r) \in Nat /\ Len(r) \in Nat
  BY EvidenceFinite, LenProperties
<1>2. PICK k \in 0 .. Len(r) : \/ w = Written(q, SubSeq(r, 1, k))
                               \/ w = Written(q, Append(SubSeq(r, 1, k), Cut))
  BY <1>1 DEF CutShort
<1> DEFINE p == SubSeq(r, 1, k)
<1>3. p \in Seq(Rows) /\ EvidenceIn(p) <= EvidenceIn(r)
  BY EvidencePrefix
<1> HIDE DEF p
<1>4. /\ Append(p, Cut) \in Seq(Rows)
      /\ EvidenceIn(Append(p, Cut)) = EvidenceIn(p)
  <2>1. Append(p, Cut) = p \o <<Cut>>
    BY <1>3, EvidenceCut, AppendIsConcat
  <2>2. /\ p \o <<Cut>> \in Seq(Rows)
        /\ EvidenceIn(p \o <<Cut>>) = EvidenceIn(p) + EvidenceIn(<<Cut>>)
        /\ EvidenceIn(p) \in Nat
    BY <1>3, EvidenceSplit, EvidenceCut
  <2>3. EvidenceIn(<<Cut>>) = 0
    BY EvidenceCut
  <2> QED
    BY <2>1, <2>2, <2>3
<1>5. PICK x \in Seq(Rows) : w = Written(q, x) /\ EvidenceIn(x) <= EvidenceIn(r)
  BY <1>2, <1>3, <1>4 DEF p
<1> QED
  BY <1>1, <1>5, WrittenEvidence, EvidenceFinite

-----------------------------------------------------------------------------
(* The rows that are written                                               *)

\* Induction over the naturals, for a set of them.
LEMMA SetInduction ==
  ASSUME NEW S, 0 \in S, \A n \in Nat : n \in S => n + 1 \in S
  PROVE  Nat \subseteq S
<1> SUFFICES ASSUME Nat \ S # {} PROVE FALSE
  OBVIOUS
<1> DEFINE R == OpToRel(<, Nat)
           T == Nat \ S
<1>1. IsWellFoundedOn(R, Nat)
  BY NatLessThanWellFounded
<1>2. T \subseteq Nat /\ T # {}
  OBVIOUS
<1>3. \E x \in T : \A y \in T : ~(<<y, x>> \in R)
  <2> HIDE DEF R, T
  <2> QED
    BY <1>1, <1>2, WFMin
<1>4. \A x, y \in Nat : <<x, y>> \in R <=> x < y
  BY DEF OpToRel
<1>5. PICK x \in T : \A y \in T : ~(y < x)
  BY <1>3, <1>4
<1>6. x # 0 /\ x \in Nat /\ x - 1 \in Nat /\ x - 1 < x
  BY <1>5
<1>7. x - 1 \in S
  BY <1>5, <1>6
<1>8. (x - 1) + 1 \in S /\ (x - 1) + 1 = x
  BY <1>6, <1>7
<1> QED
  BY <1>5, <1>8

\* SetToSeq lists the members of a finite set.
LEMMA Listed ==
    ASSUME NEW S, IsFiniteSet(S)
    PROVE  /\ Cardinality(S) \in Nat
           /\ \A i \in 1 .. Cardinality(S) : SetToSeq(S)[i] \in S
<1>1. Cardinality(S) \in Nat /\ ExistsBijection(1 .. Cardinality(S), S)
  BY FS_CardinalityType
<1>2. PICK f : f \in Bijection(1 .. Cardinality(S), S)
  BY <1>1 DEF ExistsBijection
<1>3. f \in [1 .. Cardinality(S) -> S] /\ IsInjective(f)
  BY <1>2 DEF Bijection, Injection, IsInjective
<1>4. SetToSeq(S) \in [1 .. Cardinality(S) -> S]
  BY <1>3 DEF SetToSeq
<1> QED
  BY <1>1, <1>4

LEMMA RowsForTyped ==
    ASSUME NEW kind \in {"record", "product"}, NEW S \in SUBSET Targets
    PROVE  RowsFor(kind, S) \in Seq(Rows)
<1>1. IsFiniteSet(S)
  BY MemoryLoopAssumption, FS_Subset DEF MemoryLoopAssumption
<1>2. \A i \in 1 .. Cardinality(S) : Row(kind, SetToSeq(S)[i]) \in Rows
  BY <1>1, Listed DEF Row, Rows
<1> QED
  BY <1>1, <1>2, Listed, IsASeq DEF RowsFor

LEMMA EventRowsTyped ==
    ASSUME NEW q \in Seq(Event)
    PROVE  /\ EventRows(q) \in Seq(Rows) /\ Len(EventRows(q)) = Len(q)
           /\ \A i \in 1 .. Len(q) : EventRows(q)[i] = Row(q[i].kind, q[i].target)
<1>1. Len(q) \in Nat /\ DOMAIN q = 1 .. Len(q) /\ \A i \in 1 .. Len(q) : q[i] \in Event
  BY LenProperties, ElementOfSeq
<1>2. \A i \in 1 .. Len(q) : Row(q[i].kind, q[i].target) \in Rows
  BY <1>1 DEF Event, Row, Rows
<1>3. EventRows(q) = [i \in 1 .. Len(q) |-> Row(q[i].kind, q[i].target)]
  BY <1>1 DEF EventRows
<1> QED
  BY <1>1, <1>2, <1>3, IsASeq

LEMMA RunRowsTyped ==
    ASSUME NEW s \in Seeds, events[s] \in Seq(Event), NEW R \in SUBSET Targets
    PROVE  RunRows(s, R) \in Seq(Rows)
<1>1. <<[kind |-> "summary"]>> \in Seq(Rows) /\ <<>> \in Seq(Rows)
  BY DEF Rows
<1>2. RowsFor("record", R) \in Seq(Rows) /\ EventRows(events[s]) \in Seq(Rows)
  BY RowsForTyped, EventRowsTyped
<1>3. RowsFor("record", R) \o EventRows(events[s]) \in Seq(Rows)
  BY <1>2, ConcatProperties
<1>4. RowsFor("record", R) \o EventRows(events[s]) \o <<[kind |-> "summary"]>> \in Seq(Rows)
  BY <1>1, <1>3, ConcatProperties
<1> QED
  BY <1>1, <1>4 DEF RunRows

LEMMA SleepRowsTyped ==
    ASSUME NEW P \in Proposable
    PROVE  SleepRows(P) \in Seq(Rows)
<1>1. P \in SUBSET Targets /\ {t \in Targets : Ranks(t)} \in SUBSET Targets
  BY DEF Proposable
<1>2. /\ RowsFor("product", {t \in Targets : Ranks(t)}) \in Seq(Rows)
      /\ RowsFor("product", P) \in Seq(Rows)
  BY <1>1, RowsForTyped
<1> QED
  BY <1>2, ConcatProperties DEF SleepRows

-----------------------------------------------------------------------------
(* Folding rows into a mind                                                *)

Minds == [Targets -> Node]

LEMMA NoMindTyped == NoMind \in Minds
BY DEF NoMind, Minds, Node

LEMMA NodeUpdates ==
    ASSUME NEW n \in Node, NEW a \in Nat, NEW h \in BOOLEAN, NEW c \in Nat, NEW d \in Nat
    PROVE  /\ [n EXCEPT !.rows = a, !.hint = h] \in Node
           /\ [n EXCEPT !.success = c, !.failure = d] \in Node
BY DEF Node

LEMMA FoldTyped ==
    ASSUME NEW m \in Minds, NEW row \in Rows
    PROVE  Fold(m, row) \in Minds
<1>1. CASE IsEvidence(row)
  <2>1. row.target \in Targets /\ m[row.target] \in Node
    BY <1>1 DEF IsEvidence, Rows, Cut, Minds
  <2>2. [m[row.target] EXCEPT !.rows = @ + 1, !.hint = @ \/ row.kind = "product"] \in Node
    <3>1. m[row.target].rows + 1 \in Nat
      BY <2>1 DEF Node
    <3>2. (m[row.target].hint \/ row.kind = "product") \in BOOLEAN
      OBVIOUS
    <3> QED
      BY <2>1, <3>1, <3>2, NodeUpdates
  <2>3. Fold(m, row) = [m EXCEPT ![row.target] =
                          [m[row.target] EXCEPT !.rows = @ + 1,
                                                !.hint = @ \/ row.kind = "product"]]
    BY <1>1, <2>1 DEF Fold, Minds, Node
  <2> QED
    BY <2>1, <2>2, <2>3 DEF Minds
<1>2. CASE /\ ~IsEvidence(row)
           /\ row.kind \in {"reorder", "confirmed", "wasted"} /\ m[row.target].rows > 0
  <2>1. row.target \in Targets /\ m[row.target] \in Node
    BY <1>2 DEF Rows, Cut, Minds
  <2>2. Credits(row) \in {0, 1} /\ Debits(row) \in {0, 1}
    BY DEF Credits, Debits
  <2>3. [m[row.target] EXCEPT !.success = @ + Credits(row), !.failure = @ + Debits(row)]
          \in Node
    <3>1. /\ m[row.target].success + Credits(row) \in Nat
          /\ m[row.target].failure + Debits(row) \in Nat
      BY <2>1, <2>2 DEF Node
    <3> QED
      BY <2>1, <3>1, NodeUpdates
  <2>4. Fold(m, row) = [m EXCEPT ![row.target] =
                          [m[row.target] EXCEPT !.success = @ + Credits(row),
                                                !.failure = @ + Debits(row)]]
    BY <1>2, <2>1 DEF Fold, Minds, Node
  <2> QED
    BY <2>1, <2>3, <2>4 DEF Minds
<1>3. CASE /\ ~IsEvidence(row)
           /\ ~(row.kind \in {"reorder", "confirmed", "wasted"} /\ m[row.target].rows > 0)
  BY <1>3 DEF Fold
<1> QED
  BY <1>1, <1>2, <1>3

\* g is the fold of the first n rows, step by step.
FoldsTo(base, rows, n, g) ==
    g = [k \in 0 .. n |-> IF k = 0 THEN base ELSE Fold(g[k - 1], rows[k])]

LEMMA FoldsExist ==
    ASSUME NEW base, NEW rows
    PROVE  \A n \in Nat : \E g : FoldsTo(base, rows, n, g)
<1> DEFINE Good == {n \in Nat : \E g : FoldsTo(base, rows, n, g)}
<1>1. 0 \in Good
  <2>1. FoldsTo(base, rows, 0, [k \in 0 .. 0 |-> base])
    BY DEF FoldsTo
  <2> QED
    BY <2>1
<1>2. ASSUME NEW n \in Nat, n \in Good
      PROVE  n + 1 \in Good
  <2>1. PICK g : FoldsTo(base, rows, n, g)
    BY <1>2
  <2> DEFINE h == [k \in 0 .. (n + 1) |-> IF k = n + 1 THEN Fold(g[n], rows[n + 1]) ELSE g[k]]
  <2>2. \A k \in 0 .. n : g[k] = IF k = 0 THEN base ELSE Fold(g[k - 1], rows[k])
    BY <2>1 DEF FoldsTo
  <2>3. ASSUME NEW k \in 0 .. (n + 1)
        PROVE  h[k] = IF k = 0 THEN base ELSE Fold(h[k - 1], rows[k])
    <3>1. CASE k = n + 1
      <4>1. k # 0 /\ k - 1 = n /\ n \in 0 .. (n + 1) /\ n # n + 1
        BY <3>1
      <4>2. h[k] = Fold(g[n], rows[k]) /\ h[k - 1] = g[n]
        BY <3>1, <4>1
      <4> QED
        BY <4>1, <4>2
    <3>2. CASE k # n + 1
      <4>1. k \in 0 .. n /\ (k # 0 => k - 1 \in 0 .. n /\ k - 1 \in 0 .. (n + 1) /\ k - 1 # n + 1)
        BY <3>2
      <4>2. h[k] = g[k] /\ (k # 0 => h[k - 1] = g[k - 1])
        BY <3>2, <4>1
      <4> QED
        BY <4>1, <4>2, <2>2
    <3> QED
      BY <3>1, <3>2
  <2>4. FoldsTo(base, rows, n + 1, h)
    <3>1. h = [k \in 0 .. (n + 1) |-> h[k]]
      OBVIOUS
    <3> HIDE DEF h
    <3> QED
      BY <2>3, <3>1 DEF FoldsTo
  <2> QED
    BY <2>4
<1> HIDE DEF Good
<1>3. Nat \subseteq Good
  BY <1>1, <1>2, SetInduction
<1> QED
  BY <1>3 DEF Good

\* The minds on the way, from the base to the compacted one.
Folding(base, rows) == CHOOSE g : FoldsTo(base, rows, Len(rows), g)

LEMMA FoldingSteps ==
    ASSUME NEW base, NEW rows \in Seq(Rows)
    PROVE  /\ Folding(base, rows)[0] = base
           /\ \A n \in 1 .. Len(rows) :
                Folding(base, rows)[n] = Fold(Folding(base, rows)[n - 1], rows[n])
           /\ Compacted(base, rows) = Folding(base, rows)[Len(rows)]
<1> DEFINE g == Folding(base, rows)
<1>1. Len(rows) \in Nat
  BY LenProperties
<1>2. FoldsTo(base, rows, Len(rows), g)
  BY <1>1, FoldsExist DEF Folding
<1>3. Compacted(base, rows) = g[Len(rows)]
  BY DEF Compacted, Folding, FoldsTo
<1> HIDE DEF g
<1>4. \A k \in 0 .. Len(rows) : g[k] = IF k = 0 THEN base ELSE Fold(g[k - 1], rows[k])
  BY <1>2 DEF FoldsTo
<1>5. 0 \in 0 .. Len(rows) /\ \A n \in 1 .. Len(rows) : n \in 0 .. Len(rows) /\ n # 0
  BY <1>1
<1>6. g[0] = base /\ \A n \in 1 .. Len(rows) : g[n] = Fold(g[n - 1], rows[n])
  BY <1>4, <1>5
<1> QED
  BY <1>3, <1>6 DEF g

\* Whatever steps like the fold ends where it ends.
LEMMA FoldingUnique ==
    ASSUME NEW base, NEW rows \in Seq(Rows), NEW h, h[0] = base,
           \A n \in 1 .. Len(rows) : h[n] = Fold(h[n - 1], rows[n])
    PROVE  h[Len(rows)] = Compacted(base, rows)
<1> DEFINE g == Folding(base, rows)
           Good == {n \in Nat : n <= Len(rows) => h[n] = g[n]}
<1>1. Len(rows) \in Nat
  BY LenProperties
<1>2. /\ g[0] = base /\ \A n \in 1 .. Len(rows) : g[n] = Fold(g[n - 1], rows[n])
      /\ Compacted(base, rows) = g[Len(rows)]
  BY FoldingSteps
<1> HIDE DEF g
<1>3. 0 \in Good
  BY <1>2
<1>4. ASSUME NEW n \in Nat, n \in Good PROVE n + 1 \in Good
  <2> SUFFICES ASSUME n + 1 <= Len(rows) PROVE h[n + 1] = g[n + 1]
    OBVIOUS
  <2>1. h[n] = g[n]
    BY <1>1, <1>4
  <2>2. n + 1 \in 1 .. Len(rows) /\ (n + 1) - 1 = n
    BY <1>1
  <2>3. h[n + 1] = Fold(h[n], rows[n + 1])
    BY <2>2
  <2>4. g[n + 1] = Fold(g[n], rows[n + 1])
    BY <1>2, <2>2
  <2> QED
    BY <2>1, <2>3, <2>4
<1>5. Nat \subseteq Good
  <2> HIDE DEF Good
  <2> QED
    BY <1>3, <1>4, SetInduction
<1> QED
  BY <1>1, <1>2, <1>5

\* The rows of a mind are folded one after the other.
LEMMA CompactedConcat ==
    ASSUME NEW base, NEW q \in Seq(Rows), NEW r \in Seq(Rows)
    PROVE  Compacted(base, q \o r) = Compacted(Compacted(base, q), r)
<1> DEFINE g == Folding(base, q \o r)
           a == Len(q)
           b == Len(r)
           h == [n \in 0 .. b |-> g[a + n]]
<1>1. /\ a \in Nat /\ b \in Nat /\ q \o r \in Seq(Rows) /\ Len(q \o r) = a + b
      /\ \A i \in 1 .. (a + b) : (q \o r)[i] = IF i <= a THEN q[i] ELSE r[i - a]
  BY LenProperties, ConcatProperties
<1>2. /\ g[0] = base /\ \A n \in 1 .. (a + b) : g[n] = Fold(g[n - 1], (q \o r)[n])
      /\ Compacted(base, q \o r) = g[a + b]
  <2> DEFINE w == q \o r
  <2>1. w \in Seq(Rows) /\ Len(w) = a + b
    BY <1>1
  <2> HIDE DEF w
  <2>2. /\ Folding(base, w)[0] = base
        /\ \A n \in 1 .. Len(w) : Folding(base, w)[n] = Fold(Folding(base, w)[n - 1], w[n])
        /\ Compacted(base, w) = Folding(base, w)[Len(w)]
    BY <2>1, FoldingSteps
  <2> HIDE DEF a, b
  <2> QED
    BY <2>1, <2>2 DEF w
<1> HIDE DEF g
<1>3. g[a] = Compacted(base, q)
  <2>1. ASSUME NEW n \in 1 .. a PROVE g[n] = Fold(g[n - 1], q[n])
    <3>1. n \in 1 .. (a + b) /\ n <= a
      BY <1>1
    <3> QED
      BY <1>1, <1>2, <3>1
  <2> QED
    BY <1>2, <2>1, FoldingUnique
<1>4. h[0] = Compacted(base, q)
  BY <1>1, <1>3
<1>5. ASSUME NEW n \in 1 .. b PROVE h[n] = Fold(h[n - 1], r[n])
  <2>1. /\ a + n \in 1 .. (a + b) /\ ~(a + n <= a) /\ (a + n) - a = n
        /\ n \in 0 .. b /\ n - 1 \in 0 .. b /\ a + (n - 1) = (a + n) - 1
    BY <1>1
  <2>2. g[a + n] = Fold(g[(a + n) - 1], (q \o r)[a + n])
    BY <1>2, <2>1
  <2>3. (q \o r)[a + n] = r[n]
    BY <1>1, <2>1
  <2>4. h[n] = g[a + n] /\ h[n - 1] = g[(a + n) - 1]
    BY <2>1
  <2> QED
    BY <2>2, <2>3, <2>4
<1>6. h[b] = g[a + b]
  BY <1>1
<1> HIDE DEF h
<1>7. h[b] = Compacted(Compacted(base, q), r)
  BY <1>4, <1>5, FoldingUnique
<1> QED
  BY <1>2, <1>6, <1>7

LEMMA FoldingTyped ==
    ASSUME NEW base \in Minds, NEW rows \in Seq(Rows)
    PROVE  /\ \A n \in 0 .. Len(rows) : Folding(base, rows)[n] \in Minds
           /\ Compacted(base, rows) \in Minds
<1> DEFINE g == Folding(base, rows)
           Good == {n \in Nat : n <= Len(rows) => g[n] \in Minds}
<1>1. Len(rows) \in Nat
  BY LenProperties
<1>2. /\ g[0] = base /\ \A n \in 1 .. Len(rows) : g[n] = Fold(g[n - 1], rows[n])
      /\ Compacted(base, rows) = g[Len(rows)]
  BY FoldingSteps
<1> HIDE DEF g
<1>3. 0 \in Good
  BY <1>2
<1>4. ASSUME NEW n \in Nat, n \in Good PROVE n + 1 \in Good
  <2> SUFFICES ASSUME n + 1 <= Len(rows) PROVE g[n + 1] \in Minds
    OBVIOUS
  <2>1. g[n] \in Minds
    BY <1>1, <1>4
  <2>2. n + 1 \in 1 .. Len(rows) /\ (n + 1) - 1 = n
    BY <1>1
  <2>3. g[n + 1] = Fold(g[n], rows[n + 1])
    BY <1>2, <2>2
  <2>4. rows[n + 1] \in Rows
    BY <2>2, ElementOfSeq
  <2> QED
    BY <2>1, <2>3, <2>4, FoldTyped
<1>5. Nat \subseteq Good
  <2> HIDE DEF Good
  <2> QED
    BY <1>3, <1>4, SetInduction
<1>6. \A n \in 0 .. Len(rows) : n \in Nat /\ n <= Len(rows)
  BY <1>1
<1>7. \A n \in 0 .. Len(rows) : g[n] \in Minds
  BY <1>5, <1>6
<1>8. Len(rows) \in 0 .. Len(rows)
  BY <1>1
<1>9. Compacted(base, rows) \in Minds
  BY <1>2, <1>7, <1>8
<1> QED
  BY <1>7, <1>9 DEF g

-----------------------------------------------------------------------------
(* What a mind counts                                                      *)

Counted(m) == UNION {{t} \X (1 .. m[t].rows) : t \in Targets}

LEMMA CountedPairs ==
    ASSUME NEW m
    PROVE  \A x : x \in Counted(m)
             <=> \E t \in Targets : \E i \in 1 .. m[t].rows : x = <<t, i>>
BY DEF Counted

LEMMA CountedFinite ==
    ASSUME NEW m \in Minds
    PROVE  IsFiniteSet(Counted(m)) /\ Evidence(m) \in Nat /\ Evidence(m) = Cardinality(Counted(m))
<1> DEFINE f == [t \in Targets |-> {t} \X (1 .. m[t].rows)]
           S == {f[t] : t \in Targets}
<1>1. \A t \in Targets : m[t].rows \in Nat
  BY DEF Minds, Node
<1>2. ASSUME NEW t \in Targets PROVE IsFiniteSet(f[t])
  <2>1. IsFiniteSet({t})
    BY FS_Singleton
  <2>2. m[t].rows \in Int /\ 1 \in Int
    BY <1>1
  <2>3. IsFiniteSet(1 .. m[t].rows)
    BY <2>2, FS_Interval
  <2> QED
    BY <2>1, <2>3, FS_Product
<1>3. S = {{t} \X (1 .. m[t].rows) : t \in Targets}
  OBVIOUS
<1>0. f = [t \in Targets |-> f[t]]
  OBVIOUS
<1> HIDE DEF f
<1>4. IsFiniteSet(S)
  <2>1. f \in [Targets -> S] /\ \A x \in S : \E t \in Targets : f[t] = x
    BY <1>0
  <2>2. f \in Surjection(Targets, S)
    BY <2>1 DEF Surjection
  <2> HIDE DEF S
  <2> QED
    BY <2>2, MemoryLoopAssumption, FS_Surjection DEF MemoryLoopAssumption
<1>5. IsFiniteSet(UNION S)
  BY <1>2, <1>4, FS_UNION
<1>6. IsFiniteSet(Counted(m))
  BY <1>3, <1>5 DEF Counted
<1> QED
  BY <1>6, FS_CardinalityType DEF Evidence, Counted

LEMMA NoMindEvidence == Evidence(NoMind) = 0
<1>1. \A t \in Targets : NoMind[t].rows = 0
  BY DEF NoMind
<1>2. Counted(NoMind) = {}
  BY <1>1, CountedPairs
<1>3. Cardinality(Counted(NoMind)) = 0
  BY <1>2, FS_EmptySet
<1> QED
  BY <1>3, NoMindTyped, CountedFinite

\* A row of evidence counts as one more, any other row as none.
LEMMA FoldEvidence ==
    ASSUME NEW m \in Minds, NEW row \in Rows
    PROVE  Evidence(Fold(m, row)) = Evidence(m) + (IF IsEvidence(row) THEN 1 ELSE 0)
<1> DEFINE w == Fold(m, row)
<1>0. w \in Minds /\ Evidence(m) \in Nat
  BY FoldTyped, CountedFinite
<1>1. CASE IsEvidence(row)
  <2> DEFINE u == row.target
             k == m[u].rows + 1
  <2>1. u \in Targets /\ m[u] \in Node /\ m[u].rows \in Nat
    BY <1>1 DEF IsEvidence, Rows, Cut, Minds, Node
  <2>2. /\ w[u].rows = k
        /\ \A t \in Targets : t # u => w[t] = m[t]
    BY <1>1, <2>1 DEF Fold, Minds, Node
  <2>3. <<u, k>> \notin Counted(m)
    <3>1. ~(k \in 1 .. m[u].rows)
      BY <2>1
    <3> QED
      BY <3>1, CountedPairs
  <2>4. Counted(w) = Counted(m) \cup {<<u, k>>}
    <3>1. \A i : i \in 1 .. w[u].rows <=> i \in 1 .. m[u].rows \/ i = k
      BY <2>1, <2>2
    <3> HIDE DEF w, k
    <3>2. ASSUME NEW x \in Counted(w) PROVE x \in Counted(m) \cup {<<u, k>>}
      <4>1. PICK t \in Targets : \E i \in 1 .. w[t].rows : x = <<t, i>>
        BY CountedPairs
      <4>2. CASE t = u
        BY <3>1, <4>1, <4>2, CountedPairs
      <4>3. CASE t # u
        BY <2>2, <4>1, <4>3, CountedPairs
      <4> QED
        BY <4>2, <4>3
    <3>3. ASSUME NEW x \in Counted(m) PROVE x \in Counted(w)
      <4>1. PICK t \in Targets : \E i \in 1 .. m[t].rows : x = <<t, i>>
        BY CountedPairs
      <4>2. CASE t = u
        BY <3>1, <4>1, <4>2, CountedPairs
      <4>3. CASE t # u
        BY <2>2, <4>1, <4>3, CountedPairs
      <4> QED
        BY <4>2, <4>3
    <3>4. <<u, k>> \in Counted(w)
      BY <2>1, <3>1, CountedPairs
    <3> QED
      BY <3>2, <3>3, <3>4
  <2>5. Cardinality(Counted(w)) = Cardinality(Counted(m)) + 1
    BY <2>3, <2>4, CountedFinite, FS_AddElement
  <2>6. Evidence(w) = Evidence(m) + 1
    BY <1>0, <2>5, CountedFinite
  <2> QED
    BY <1>1, <2>6
<1>2. CASE ~IsEvidence(row)
  <2>1. \A t \in Targets : w[t].rows = m[t].rows
    <3>1. CASE row.kind \in {"reorder", "confirmed", "wasted"} /\ m[row.target].rows > 0
      <4>1. row.target \in Targets
        BY <3>1 DEF Rows, Cut
      <4> QED
        BY <1>2, <3>1, <4>1 DEF Fold, Minds, Node
    <3>2. CASE ~(row.kind \in {"reorder", "confirmed", "wasted"} /\ m[row.target].rows > 0)
      BY <1>2, <3>2 DEF Fold
    <3> QED
      BY <3>1, <3>2
  <2> HIDE DEF w
  <2>2. Counted(w) = Counted(m)
    BY <2>1 DEF Counted
  <2>3. Evidence(w) = Evidence(m)
    BY <1>0, <2>2, CountedFinite
  <2> QED
    BY <1>0, <1>2, <2>3 DEF w
<1> QED
  BY <1>1, <1>2

\* Compaction counts every row of evidence in the file, and each of them once.
LEMMA CompactedEvidence ==
    ASSUME NEW base \in Minds, NEW rows \in Seq(Rows)
    PROVE  /\ Evidence(Compacted(base, rows)) = Evidence(base) + EvidenceIn(rows)
           /\ Compacted(base, rows) \in Minds
           /\ Evidence(base) \in Nat /\ EvidenceIn(rows) \in Nat
<1> DEFINE g == Folding(base, rows)
           At(n) == {i \in 1 .. n : IsEvidence(rows[i])}
           Good == {n \in Nat : n <= Len(rows) =>
                      Evidence(g[n]) = Evidence(base) + Cardinality(At(n))}
<1>1. Len(rows) \in Nat /\ DOMAIN rows = 1 .. Len(rows)
  BY LenProperties
<1>2. /\ g[0] = base /\ \A n \in 1 .. Len(rows) : g[n] = Fold(g[n - 1], rows[n])
      /\ Compacted(base, rows) = g[Len(rows)]
      /\ \A n \in 0 .. Len(rows) : g[n] \in Minds
      /\ Compacted(base, rows) \in Minds
  BY FoldingSteps, FoldingTyped
<1>3. Evidence(base) \in Nat /\ EvidenceIn(rows) \in Nat
  BY CountedFinite, EvidenceFinite
<1> HIDE DEF g
<1>4. \A n \in Nat : IsFiniteSet(At(n)) /\ Cardinality(At(n)) \in Nat
  <2>1. ASSUME NEW n \in Nat PROVE IsFiniteSet(1 .. n) /\ At(n) \subseteq 1 .. n
    BY FS_Interval
  <2> QED
    BY <2>1, FS_Subset, FS_CardinalityType
<1>5. 0 \in Good
  <2>1. At(0) = {}
    OBVIOUS
  <2>2. Cardinality(At(0)) = 0
    BY <2>1, FS_EmptySet
  <2> QED
    BY <1>2, <1>3, <2>2
<1>6. ASSUME NEW n \in Nat, n \in Good PROVE n + 1 \in Good
  <2> SUFFICES ASSUME n + 1 <= Len(rows)
               PROVE  Evidence(g[n + 1]) = Evidence(base) + Cardinality(At(n + 1))
    OBVIOUS
  <2>1. n + 1 \in 1 .. Len(rows) /\ (n + 1) - 1 = n /\ n \in 0 .. Len(rows) /\ n <= Len(rows)
    BY <1>1
  <2>2. g[n + 1] = Fold(g[n], rows[n + 1]) /\ g[n] \in Minds /\ rows[n + 1] \in Rows
    BY <1>2, <2>1, ElementOfSeq
  <2>3. Evidence(g[n]) = Evidence(base) + Cardinality(At(n))
    BY <1>6, <2>1
  <2>4. Evidence(g[n + 1]) = Evidence(g[n]) + (IF IsEvidence(rows[n + 1]) THEN 1 ELSE 0)
    BY <2>2, FoldEvidence
  <2>5. Cardinality(At(n + 1)) = Cardinality(At(n)) + (IF IsEvidence(rows[n + 1]) THEN 1 ELSE 0)
    <3>1. \A i : i \in 1 .. (n + 1) <=> i \in 1 .. n \/ i = n + 1
      OBVIOUS
    <3>2. n + 1 \notin At(n)
      OBVIOUS
    <3>3. CASE IsEvidence(rows[n + 1])
      <4>1. At(n + 1) = At(n) \cup {n + 1}
        BY <3>1, <3>3
      <4> HIDE DEF At
      <4>2. Cardinality(At(n + 1)) = Cardinality(At(n)) + 1
        BY <1>4, <3>2, <4>1, FS_AddElement
      <4> QED
        BY <3>3, <4>2
    <3>4. CASE ~IsEvidence(rows[n + 1])
      <4>1. At(n + 1) = At(n)
        BY <3>1, <3>4
      <4> HIDE DEF At
      <4> QED
        BY <1>4, <3>4, <4>1
    <3> QED
      BY <3>3, <3>4
  <2>6. Cardinality(At(n)) \in Nat
    BY <1>4
  <2> HIDE DEF At
  <2>7. CASE IsEvidence(rows[n + 1])
    BY <1>3, <2>3, <2>4, <2>5, <2>6, <2>7
  <2>8. CASE ~IsEvidence(rows[n + 1])
    BY <1>3, <2>3, <2>4, <2>5, <2>6, <2>8
  <2> QED
    BY <2>7, <2>8
<1>7. Nat \subseteq Good
  <2> HIDE DEF Good
  <2> QED
    BY <1>5, <1>6, SetInduction
<1>8. Evidence(g[Len(rows)]) = Evidence(base) + Cardinality(At(Len(rows)))
  BY <1>1, <1>7
<1>9. Cardinality(At(Len(rows))) = EvidenceIn(rows)
  BY <1>1 DEF EvidenceIn
<1> QED
  BY <1>2, <1>3, <1>8, <1>9

-----------------------------------------------------------------------------
(* The deque of a run                                                      *)

\* r is the reorder that the outcome o answers.
Same(r, o) == r = [o EXCEPT !.kind = "reorder"]

\* Every outcome stands right behind its reorder, or behind it and one look; only
\* the first outcome of a deque that has lost events may be without.
Backed(q, d) ==
    \A i \in 1 .. Len(q) : q[i].kind \in {"confirmed", "wasted"} =>
      \/ i - 1 \in 1 .. Len(q) /\ Same(q[i - 1], q[i])
      \/ i - 2 \in 1 .. Len(q) /\ Same(q[i - 2], q[i]) /\ q[i - 1].kind = "look"
      \/ d > 0 /\ i = 1
      \/ d > 0 /\ i = 2 /\ q[1].kind = "look"

Quiet(q) == \A i \in 1 .. Len(q) : q[i].kind = "look"

LEMMA EmptyDeque ==
    /\ <<>> \in Seq(Event) /\ Len(<<>>) = 0 /\ Quiet(<<>>)
    /\ \A d : Backed(<<>>, d)
BY EmptySeq DEF Backed, Quiet

LEMMA KeptFacts ==
    ASSUME NEW q \in Seq(Event)
    PROVE  /\ Kept(q) \in Seq(Event) /\ Len(Kept(q)) <= MaxEvents
           /\ \E k \in Nat : /\ Len(q) = Len(Kept(q)) + k
                             /\ \A i \in 1 .. Len(Kept(q)) : Kept(q)[i] = q[i + k]
<1>1. /\ Len(q) \in Nat /\ MaxEvents \in Nat
      /\ \A i \in 1 .. Len(q) : q[i] \in Event
  BY LenProperties, ElementOfSeq, MemoryLoopAssumption DEF MemoryLoopAssumption
<1>2. CASE Len(q) <= MaxEvents
  <2>1. Kept(q) = q
    BY <1>2 DEF Kept
  <2>2. 0 \in Nat /\ Len(q) = Len(q) + 0 /\ \A i \in 1 .. Len(q) : q[i] = q[i + 0]
    BY <1>1
  <2> QED
    BY <1>2, <2>1, <2>2
<1>3. CASE ~(Len(q) <= MaxEvents)
  <2> DEFINE k == Len(q) - MaxEvents
             p == SubSeq(q, k + 1, Len(q))
  <2>1. k \in Nat /\ Len(q) = MaxEvents + k /\ k + 1 \in Int /\ Len(q) \in Int
    BY <1>1, <1>3
  <2>2. \A i \in (k + 1) .. Len(q) : i \in 1 .. Len(q)
    BY <1>1, <2>1
  <2>3. Kept(q) = p
    BY <1>3 DEF Kept
  <2>4. \A i \in (k + 1) .. Len(q) : q[i] \in Event
    BY <1>1, <2>2
  <2> HIDE DEF k
  <2>5. /\ p \in Seq(Event)
        /\ Len(p) = IF k + 1 <= Len(q) THEN Len(q) - (k + 1) + 1 ELSE 0
        /\ \A i \in 1 .. Len(q) - (k + 1) + 1 : p[i] = q[(k + 1) + i - 1]
    BY <2>1, <2>4, SubSeqProperties
  <2> HIDE DEF p
  <2>6. Len(q) - (k + 1) + 1 = MaxEvents
    BY <1>1, <2>1
  <2>7. Len(p) = MaxEvents
    BY <1>1, <2>1, <2>5, <2>6
  <2>8. \A i \in 1 .. MaxEvents : p[i] = q[i + k]
    <3>1. \A i \in 1 .. MaxEvents : (k + 1) + i - 1 = i + k
      BY <1>1, <2>1
    <3> QED
      BY <2>5, <2>6, <3>1
  <2> QED
    BY <1>1, <2>1, <2>3, <2>5, <2>7, <2>8
<1> QED
  BY <1>2, <1>3

\* A deque that drops its oldest events keeps what backs the others.
LEMMA KeptBacked ==
    ASSUME NEW q \in Seq(Event), NEW d \in Nat, Backed(q, d)
    PROVE  /\ Len(q) - Len(Kept(q)) \in Nat
           /\ Backed(Kept(q), d + (Len(q) - Len(Kept(q))))
           /\ Quiet(q) => Quiet(Kept(q))
<1> DEFINE p == Kept(q)
<1>0. p \in Seq(Event) /\ Len(p) \in Nat /\ Len(q) \in Nat
  BY KeptFacts, LenProperties
<1>1. PICK k \in Nat : /\ Len(q) = Len(p) + k
                       /\ \A i \in 1 .. Len(p) : p[i] = q[i + k]
  BY KeptFacts
<1> HIDE DEF p
<1>2. Len(q) - Len(p) = k
  BY <1>0, <1>1
<1>3. Backed(p, d + k)
  <2> SUFFICES ASSUME NEW i \in 1 .. Len(p), p[i].kind \in {"confirmed", "wasted"}
               PROVE  \/ i - 1 \in 1 .. Len(p) /\ Same(p[i - 1], p[i])
                      \/ /\ i - 2 \in 1 .. Len(p) /\ Same(p[i - 2], p[i])
                         /\ p[i - 1].kind = "look"
                      \/ d + k > 0 /\ i = 1
                      \/ d + k > 0 /\ i = 2 /\ p[1].kind = "look"
    BY DEF Backed
  <2>1. i + k \in 1 .. Len(q) /\ p[i] = q[i + k] /\ i \in Nat /\ i >= 1 /\ i <= Len(p)
    BY <1>0, <1>1
  <2>2. \/ i + k - 1 \in 1 .. Len(q) /\ Same(q[i + k - 1], q[i + k])
        \/ /\ i + k - 2 \in 1 .. Len(q) /\ Same(q[i + k - 2], q[i + k])
           /\ q[i + k - 1].kind = "look"
        \/ d > 0 /\ i + k = 1
        \/ d > 0 /\ i + k = 2 /\ q[1].kind = "look"
    <3> DEFINE a == i + k
    <3>1. a \in 1 .. Len(q) /\ q[a].kind \in {"confirmed", "wasted"}
      BY <2>1
    <3> HIDE DEF a
    <3>2. \/ a - 1 \in 1 .. Len(q) /\ Same(q[a - 1], q[a])
          \/ a - 2 \in 1 .. Len(q) /\ Same(q[a - 2], q[a]) /\ q[a - 1].kind = "look"
          \/ d > 0 /\ a = 1
          \/ d > 0 /\ a = 2 /\ q[1].kind = "look"
      BY <3>1 DEF Backed
    <3> QED
      BY <3>2 DEF a
  <2>3. CASE i + k - 1 \in 1 .. Len(q) /\ Same(q[i + k - 1], q[i + k])
    <3>1. CASE i = 1
      <4>1. k > 0
        BY <2>3, <3>1
      <4> QED
        BY <3>1, <4>1
    <3>2. CASE i # 1
      <4>1. i - 1 \in 1 .. Len(p) /\ (i - 1) + k = i + k - 1
        BY <1>0, <2>1, <3>2
      <4>2. p[i - 1] = q[i + k - 1]
        BY <1>1, <4>1
      <4> QED
        BY <2>1, <2>3, <4>1, <4>2
    <3> QED
      BY <3>1, <3>2
  <2>4. CASE /\ i + k - 2 \in 1 .. Len(q) /\ Same(q[i + k - 2], q[i + k])
             /\ q[i + k - 1].kind = "look"
    <3>1. CASE i = 1
      <4>1. k > 0
        BY <2>4, <3>1
      <4> QED
        BY <3>1, <4>1
    <3>2. CASE i # 1
      <4>1. i - 1 \in 1 .. Len(p) /\ (i - 1) + k = i + k - 1
        BY <1>0, <2>1, <3>2
      <4>2. p[i - 1].kind = "look"
        BY <1>1, <2>4, <4>1
      <4>3. CASE i = 2
        <5>1. k > 0 /\ i - 1 = 1
          BY <2>4, <4>3
        <5> QED
          BY <4>2, <4>3, <5>1
      <4>4. CASE i # 2
        <5>1. i - 2 \in 1 .. Len(p) /\ (i - 2) + k = i + k - 2
          BY <1>0, <2>1, <3>2, <4>4
        <5>2. p[i - 2] = q[i + k - 2]
          BY <1>1, <5>1
        <5> QED
          BY <2>1, <2>4, <4>2, <5>1, <5>2
      <4> QED
        BY <4>3, <4>4
    <3> QED
      BY <3>1, <3>2
  <2>5. CASE d > 0 /\ i + k = 1
    <3>1. d + k > 0 /\ i = 1
      BY <2>1, <2>5
    <3> QED
      BY <3>1
  <2>6. CASE d > 0 /\ i + k = 2 /\ q[1].kind = "look"
    <3>1. d + k > 0 /\ (i = 1 \/ (i = 2 /\ k = 0))
      BY <2>1, <2>6
    <3>2. CASE i = 2 /\ k = 0
      <4>1. 1 \in 1 .. Len(p) /\ 1 + k = 1
        BY <2>1, <3>2
      <4>2. p[1] = q[1]
        BY <1>1, <4>1
      <4> QED
        BY <2>6, <3>1, <3>2, <4>2
    <3> QED
      BY <3>1, <3>2
  <2> QED
    BY <2>2, <2>3, <2>4, <2>5, <2>6
<1>4. Quiet(q) => Quiet(p)
  <2>1. \A i \in 1 .. Len(p) : i + k \in 1 .. Len(q)
    BY <1>0, <1>1
  <2> QED
    BY <1>1, <2>1 DEF Quiet
<1> QED
  BY <1>2, <1>3, <1>4 DEF p

\* The events one audit adds: its ranking, a look at its probes or none, and an
\* outcome only if it reordered the candidates.
Fresh(new) ==
    /\ new \in Seq(Event) /\ Len(new) \in 1 .. 3
    /\ Len(new) = 3 => new[2].kind = "look"
    /\ \A i \in 1 .. Len(new) : new[i].kind \in {"confirmed", "wasted"} =>
         i \in {2, 3} /\ i = Len(new) /\ Same(new[1], new[i])

LEMMA AddedBacked ==
    ASSUME NEW q \in Seq(Event), NEW d \in Nat, Backed(q, d), NEW new, Fresh(new)
    PROVE  /\ q \o new \in Seq(Event) /\ Len(q \o new) = Len(q) + Len(new)
           /\ Backed(q \o new, d)
           /\ Quiet(q) /\ Quiet(new) => Quiet(q \o new)
<1> DEFINE p == q \o new
           n == Len(q)
           k == Len(new)
<1>1. /\ n \in Nat /\ k \in 1 .. 3 /\ p \in Seq(Event) /\ Len(p) = n + k
      /\ \A i \in 1 .. (n + k) : p[i] = IF i <= n THEN q[i] ELSE new[i - n]
  BY LenProperties, ConcatProperties DEF Fresh
<1> HIDE DEF p, n, k
<1>2. \A i \in 1 .. n : i \in 1 .. (n + k) /\ p[i] = q[i]
  BY <1>1
<1>3. \A i \in 1 .. k : n + i \in 1 .. (n + k) /\ p[n + i] = new[i]
  <2> SUFFICES ASSUME NEW i \in 1 .. k
               PROVE  n + i \in 1 .. (n + k) /\ p[n + i] = new[i]
    OBVIOUS
  <2>1. n + i \in 1 .. (n + k) /\ ~(n + i <= n) /\ (n + i) - n = i
    BY <1>1
  <2> QED
    BY <1>1, <2>1
<1>4. \A i \in 1 .. (n + k) : i \in 1 .. n \/ (i - n \in 1 .. k /\ n + (i - n) = i)
  BY <1>1
<1>5. Backed(p, d)
  <2> SUFFICES ASSUME NEW i \in 1 .. (n + k), p[i].kind \in {"confirmed", "wasted"}
               PROVE  \/ i - 1 \in 1 .. (n + k) /\ Same(p[i - 1], p[i])
                      \/ /\ i - 2 \in 1 .. (n + k) /\ Same(p[i - 2], p[i])
                         /\ p[i - 1].kind = "look"
                      \/ d > 0 /\ i = 1
                      \/ d > 0 /\ i = 2 /\ p[1].kind = "look"
    BY <1>1 DEF Backed
  <2>1. CASE i \in 1 .. n
    <3>1. \/ i - 1 \in 1 .. n /\ Same(q[i - 1], q[i])
          \/ i - 2 \in 1 .. n /\ i - 1 \in 1 .. n /\ Same(q[i - 2], q[i]) /\ q[i - 1].kind = "look"
          \/ d > 0 /\ i = 1
          \/ d > 0 /\ i = 2 /\ 1 \in 1 .. n /\ q[1].kind = "look"
      <4>1. /\ i - 2 \in 1 .. n => i - 1 \in 1 .. n
            /\ i = 2 => 1 \in 1 .. n
        BY <1>1, <2>1
      <4>2. q[i].kind \in {"confirmed", "wasted"}
        BY <1>2, <2>1
      <4> QED
        BY <2>1, <4>1, <4>2 DEF Backed, n
    <3> QED
      BY <1>2, <2>1, <3>1
  <2>2. CASE i - n \in 1 .. k /\ n + (i - n) = i
    <3> DEFINE j == i - n
    <3>1. p[i] = new[j] /\ new[j].kind \in {"confirmed", "wasted"}
      BY <1>3, <2>2
    <3>2. j \in {2, 3} /\ j = k /\ Same(new[1], new[j])
      BY <2>2, <3>1 DEF Fresh, k
    <3>3. 1 \in 1 .. k /\ p[n + 1] = new[1] /\ n + 1 \in 1 .. (n + k)
      BY <1>1, <1>3
    <3>4. CASE j = 2
      <4>1. i - 1 = n + 1
        BY <1>1, <2>2, <3>4
      <4> QED
        BY <3>1, <3>2, <3>3, <4>1
    <3>5. CASE j = 3
      <4>1. i - 2 = n + 1 /\ i - 1 = n + 2 /\ 2 \in 1 .. k
        BY <1>1, <2>2, <3>2, <3>5
      <4>2. p[n + 2] = new[2] /\ new[2].kind = "look"
        BY <1>3, <3>2, <3>5, <4>1 DEF Fresh, k
      <4> QED
        BY <3>1, <3>2, <3>3, <4>1, <4>2
    <3> QED
      BY <3>2, <3>4, <3>5
  <2> QED
    BY <1>4, <2>1, <2>2
<1>6. Quiet(q) /\ Quiet(new) => Quiet(p)
  BY <1>1, <1>2, <1>3, <1>4 DEF Quiet, n, k
<1> QED
  BY <1>1, <1>5, <1>6 DEF p, n, k

-----------------------------------------------------------------------------
(* The runs of a batch                                                     *)

\* A hint is judged by the audit that gave it, and none outlives it.
RuntimeInv ==
    /\ RuntimeType
    /\ \A s \in Seeds : \A t \in Targets : pending[s][t] = NoHint
    /\ \A s \in Seeds : Backed(events[s], dropped[s])
    /\ mode # "assist" => \A s \in Seeds : Quiet(events[s])

LEMMA OneMore ==
    ASSUME NEW q \in Seq(Event), NEW e \in Event
    PROVE  /\ q \o <<e>> \in Seq(Event) /\ Len(q \o <<e>>) = Len(q) + 1
           /\ (q \o <<e>>)[Len(q) + 1] = e
           /\ \A i \in 1 .. Len(q) : (q \o <<e>>)[i] = q[i]
<1> DEFINE o == <<e>>
<1>1. o \in Seq(Event) /\ Len(o) = 1 /\ o[1] = e
  OBVIOUS
<1> HIDE DEF o
<1>2. /\ q \o o \in Seq(Event) /\ Len(q \o o) = Len(q) + 1
      /\ \A i \in 1 .. Len(q) + 1 : (q \o o)[i] = IF i <= Len(q) THEN q[i] ELSE o[i - Len(q)]
  <2>1. /\ q \o o \in Seq(Event) /\ Len(q \o o) = Len(q) + Len(o)
        /\ \A i \in 1 .. Len(q) + Len(o) :
             (q \o o)[i] = IF i <= Len(q) THEN q[i] ELSE o[i - Len(q)]
    BY <1>1, ConcatProperties
  <2>2. Len(q) + Len(o) = Len(q) + 1
    BY <1>1
  <2> QED
    BY <2>1, <2>2
<1>3. Len(q) \in Nat
  BY LenProperties
<1>4. /\ Len(q) + 1 \in 1 .. Len(q) + 1 /\ ~(Len(q) + 1 <= Len(q))
      /\ Len(q) + 1 - Len(q) = 1
      /\ \A i \in 1 .. Len(q) : i \in 1 .. Len(q) + 1 /\ i <= Len(q)
  BY <1>3
<1>5. (q \o o)[Len(q) + 1] = e
  BY <1>1, <1>2, <1>4
<1>6. \A i \in 1 .. Len(q) : (q \o o)[i] = q[i]
  BY <1>2, <1>4
<1> QED
  BY <1>2, <1>5, <1>6 DEF o

LEMMA AuditFresh ==
    ASSUME RuntimeInv, NEW s \in Seeds, NEW t \in Targets,
           NEW moved \in BOOLEAN, NEW asked \in BOOLEAN, NEW confirmed \in BOOLEAN,
           NEW new, new = <<Ranked(s, t, moved)>> \o Probed(s, t, asked)
                            \o Judged(s, t, Hinted(s, t, moved), confirmed)
    PROVE  Fresh(new) /\ (mode # "assist" => Quiet(new))
<1> DEFINE r == Ranked(s, t, moved)
           l == [kind |-> "look", target |-> t, cycle |-> cycle[s]]
           o == [kind |-> IF confirmed THEN "confirmed" ELSE "wasted", target |-> t,
                 cycle |-> cycle[s]]
           h == Hinted(s, t, moved)
<1>1. /\ memCycle[s] \in 0 .. MaxCycle /\ cycle[s] \in 0 .. MaxCycle /\ MaxCycle \in Nat
      /\ pending[s][t] = MaxCycle + 1
  BY MemoryLoopAssumption DEF RuntimeInv, RuntimeType, NoHint, MemoryLoopAssumption
<1>2. /\ r \in Event /\ r.target = t /\ r.cycle = memCycle[s]
      /\ r.kind = "look" \/ (r.kind = "reorder" /\ mode = "assist")
  BY <1>1 DEF Ranked, Event
<1>3. l \in Event /\ l.kind = "look"
  BY <1>1 DEF Event
<1>4. o \in Event /\ o.kind \in {"confirmed", "wasted"}
  BY <1>1 DEF Event
<1>5. h = cycle[s] => r.kind = "reorder" /\ memCycle[s] = cycle[s]
  BY <1>1 DEF Hinted
<1>6. h = cycle[s] => Same(r, o)
  <2> SUFFICES ASSUME h = cycle[s] PROVE r = [o EXCEPT !.kind = "reorder"]
    BY DEF Same
  <2>1. r = [kind |-> "reorder", target |-> t, cycle |-> cycle[s]]
    BY <1>2, <1>5 DEF Event
  <2> QED
    BY <2>1
<1>7. Probed(s, t, asked) = IF asked THEN <<l>> ELSE <<>>
  BY DEF Probed
<1>8. Judged(s, t, h, confirmed) = IF h = cycle[s] THEN <<o>> ELSE <<>>
  BY DEF Judged
<1> HIDE DEF r, l, o, h
<1>9. new = <<r>> \o (IF asked THEN <<l>> ELSE <<>>) \o (IF h = cycle[s] THEN <<o>> ELSE <<>>)
  BY <1>7, <1>8 DEF r, h
<1>10. PICK u \in Seq(Event) :
         /\ new = u \o (IF h = cycle[s] THEN <<o>> ELSE <<>>)
         /\ Len(u) \in {1, 2} /\ u[1] = r /\ (Len(u) = 2 => u[2] = l)
  <2>1. <<r>> \in Seq(Event) /\ Len(<<r>>) = 1 /\ <<r>>[1] = r
    BY <1>2
  <2>2. CASE asked
    <3> DEFINE b == <<r>>
    <3>1. b \in Seq(Event) /\ Len(b) = 1 /\ b[1] = r
      BY <2>1
    <3> HIDE DEF b
    <3>2. /\ b \o <<l>> \in Seq(Event) /\ Len(b \o <<l>>) = 2
          /\ (b \o <<l>>)[1] = r /\ (b \o <<l>>)[2] = l
      <4>1. /\ b \o <<l>> \in Seq(Event) /\ Len(b \o <<l>>) = Len(b) + 1
            /\ (b \o <<l>>)[Len(b) + 1] = l
            /\ \A i \in 1 .. Len(b) : (b \o <<l>>)[i] = b[i]
        BY <1>3, <3>1, OneMore
      <4>2. Len(b) + 1 = 2 /\ 1 \in 1 .. Len(b)
        BY <3>1
      <4> QED
        BY <3>1, <4>1, <4>2
    <3>3. new = (b \o <<l>>) \o (IF h = cycle[s] THEN <<o>> ELSE <<>>)
      BY <1>9, <2>2 DEF b
    <3> QED
      BY <3>2, <3>3
  <2>3. CASE ~asked
    <3> DEFINE b == <<r>>
    <3>1. b \in Seq(Event) /\ Len(b) = 1 /\ b[1] = r
      BY <2>1
    <3>2. new = (b \o <<>>) \o (IF h = cycle[s] THEN <<o>> ELSE <<>>)
      BY <1>9, <2>3
    <3> HIDE DEF b
    <3>3. b \o <<>> = b
      BY <3>1, ConcatEmptySeq
    <3>4. Len(b) \in {1, 2} /\ Len(b) # 2
      BY <3>1
    <3> QED
      BY <3>1, <3>2, <3>3, <3>4
  <2> QED
    BY <2>2, <2>3
<1>11. Quiet(u) \/ mode = "assist"
  BY <1>2, <1>3, <1>10 DEF Quiet
<1>12. CASE h = cycle[s]
  <2>1. new = u \o <<o>>
    BY <1>10, <1>12
  <2>2. /\ new \in Seq(Event) /\ Len(new) = Len(u) + 1 /\ new[Len(u) + 1] = o
        /\ \A i \in 1 .. Len(u) : new[i] = u[i]
    <3>1. /\ u \o <<o>> \in Seq(Event) /\ Len(u \o <<o>>) = Len(u) + 1
          /\ (u \o <<o>>)[Len(u) + 1] = o
          /\ \A i \in 1 .. Len(u) : (u \o <<o>>)[i] = u[i]
      BY <1>4, <1>10, OneMore
    <3> QED
      BY <2>1, <3>1
  <2>3. CASE Len(u) = 1
    <3>1. Len(new) = 2 /\ new[1] = r /\ new[2] = o
      BY <1>10, <2>2, <2>3
    <3> QED
      BY <1>2, <1>4, <1>5, <1>6, <1>12, <2>2, <3>1 DEF Fresh
  <2>4. CASE Len(u) = 2
    <3>1. Len(new) = 3 /\ new[1] = r /\ new[2] = l /\ new[3] = o
      BY <1>10, <2>2, <2>4
    <3> QED
      BY <1>2, <1>3, <1>4, <1>5, <1>6, <1>12, <2>2, <3>1 DEF Fresh
  <2> QED
    BY <1>2, <1>5, <1>10, <1>12, <2>3, <2>4
<1>13. CASE h # cycle[s]
  <2>1. new = u
    <3>1. u \o <<>> = u
      BY <1>10, ConcatEmptySeq
    <3> QED
      BY <1>10, <1>13, <3>1
  <2>2. Fresh(new)
    <3>1. /\ Len(new) \in {1, 2} /\ new[1] = r /\ (Len(new) = 2 => new[2] = l)
          /\ new \in Seq(Event)
      BY <1>10, <2>1
    <3>2. \A i \in 1 .. Len(new) : new[i] \in {r, l}
      BY <3>1
    <3>3. \A i \in 1 .. Len(new) : ~(new[i].kind \in {"confirmed", "wasted"})
      BY <1>2, <1>3, <3>2
    <3>4. Len(new) # 3 /\ Len(new) \in 1 .. 3
      BY <3>1
    <3> QED
      BY <3>1, <3>3, <3>4 DEF Fresh
  <2> QED
    BY <1>11, <2>1, <2>2
<1> QED
  BY <1>12, <1>13

\* The deque and its losses after an audit.
LEMMA AuditDeque ==
    ASSUME NEW q \in Seq(Event), NEW d \in Nat, Backed(q, d), NEW new, Fresh(new)
    PROVE  /\ Kept(q \o new) \in Seq(Event) /\ Len(Kept(q \o new)) <= MaxEvents
           /\ d + Len(q) + Len(new) - Len(Kept(q \o new)) \in Nat
           /\ Backed(Kept(q \o new), d + Len(q) + Len(new) - Len(Kept(q \o new)))
           /\ Quiet(q) /\ Quiet(new) => Quiet(Kept(q \o new))
<1> DEFINE p == q \o new
<1>1. /\ p \in Seq(Event) /\ Len(p) = Len(q) + Len(new) /\ Backed(p, d)
      /\ Quiet(q) /\ Quiet(new) => Quiet(p)
  BY AddedBacked
<1>2. Len(q) \in Nat /\ Len(new) \in Nat
  BY LenProperties DEF Fresh
<1> HIDE DEF p
<1>3. /\ Kept(p) \in Seq(Event) /\ Len(Kept(p)) <= MaxEvents
      /\ Len(p) - Len(Kept(p)) \in Nat
      /\ Backed(Kept(p), d + (Len(p) - Len(Kept(p))))
      /\ Quiet(p) => Quiet(Kept(p))
  BY <1>1, KeptFacts, KeptBacked
<1>4. Len(Kept(p)) \in Nat
  BY <1>3, LenProperties
<1>5. d + Len(q) + Len(new) - Len(Kept(p)) = d + (Len(p) - Len(Kept(p)))
  BY <1>1, <1>2, <1>4
<1>6. /\ d + Len(q) + Len(new) - Len(Kept(p)) \in Nat
      /\ Backed(Kept(p), d + Len(q) + Len(new) - Len(Kept(p)))
  BY <1>3, <1>5
<1> QED
  BY <1>1, <1>3, <1>6 DEF p

LEMMA AuditKeeps ==
    ASSUME RuntimeInv, NEW s \in Seeds, NEW t \in Targets, Audit(s, t)
    PROVE  RuntimeInv'
<1>1. PICK moved \in BOOLEAN, asked \in BOOLEAN, confirmed \in BOOLEAN :
        LET hint == Hinted(s, t, moved)
            new  == <<Ranked(s, t, moved)>> \o Probed(s, t, asked)
                      \o Judged(s, t, hint, confirmed)
        IN  /\ events' = [events EXCEPT ![s] = IF mode = "off" THEN @ ELSE Kept(@ \o new)]
            /\ dropped' = [dropped EXCEPT
                 ![s] = IF mode = "off" THEN @
                        ELSE @ + Len(events[s]) + Len(new) - Len(Kept(events[s] \o new))]
  BY DEF Audit
<1> DEFINE new == <<Ranked(s, t, moved)>> \o Probed(s, t, asked)
                    \o Judged(s, t, Hinted(s, t, moved), confirmed)
           q == events[s]
           d == dropped[s]
<1>2. /\ events' = [events EXCEPT ![s] = IF mode = "off" THEN q ELSE Kept(q \o new)]
      /\ dropped' = [dropped EXCEPT
           ![s] = IF mode = "off" THEN d ELSE d + Len(q) + Len(new) - Len(Kept(q \o new))]
  BY <1>1
<1>3. Fresh(new) /\ (mode # "assist" => Quiet(new))
  BY AuditFresh
<1> HIDE DEF new
<1>4. /\ events \in [Seeds -> Seq(Event)] /\ dropped \in [Seeds -> Nat]
      /\ q \in Seq(Event) /\ d \in Nat /\ Backed(q, d) /\ Len(q) <= MaxEvents
      /\ mode # "assist" => Quiet(q)
  BY DEF RuntimeInv, RuntimeType
<1>5. /\ Kept(q \o new) \in Seq(Event) /\ Len(Kept(q \o new)) <= MaxEvents
      /\ d + Len(q) + Len(new) - Len(Kept(q \o new)) \in Nat
      /\ Backed(Kept(q \o new), d + Len(q) + Len(new) - Len(Kept(q \o new)))
      /\ Quiet(q) /\ Quiet(new) => Quiet(Kept(q \o new))
  BY <1>3, <1>4, AuditDeque
<1>6. /\ events'[s] \in Seq(Event) /\ Len(events'[s]) <= MaxEvents /\ dropped'[s] \in Nat
      /\ Backed(events'[s], dropped'[s]) /\ (mode # "assist" => Quiet(events'[s]))
  BY <1>2, <1>3, <1>4, <1>5
<1>7. \A r \in Seeds : r # s => events'[r] = events[r] /\ dropped'[r] = dropped[r]
  BY <1>2, <1>4
<1>8. DOMAIN events' = Seeds /\ DOMAIN dropped' = Seeds
  BY <1>2, <1>4
<1>9. events' \in [Seeds -> Seq(Event)] /\ dropped' \in [Seeds -> Nat]
  <2>1. \A r \in Seeds : events'[r] \in Seq(Event) /\ dropped'[r] \in Nat
    BY <1>4, <1>6, <1>7
  <2>2. events' = [r \in Seeds |-> events'[r]] /\ dropped' = [r \in Seeds |-> dropped'[r]]
    BY <1>2, <1>4
  <2> QED
    BY <2>1, <2>2
<1>10. UNCHANGED <<mode, hints, cycle, memCycle>>
  BY DEF Audit
<1>11. audited' \in [Seeds -> SUBSET Targets]
  BY DEF Audit, RuntimeInv, RuntimeType
<1>12. /\ pending' \in [Seeds -> [Targets -> 0 .. NoHint]]
       /\ \A r \in Seeds : \A u \in Targets : pending'[r][u] = NoHint
  <2>1. pending' = [pending EXCEPT ![s][t] = NoHint] /\ NoHint \in 0 .. NoHint
    BY MemoryLoopAssumption DEF Audit, NoHint, MemoryLoopAssumption
  <2> QED
    BY <2>1 DEF RuntimeInv, RuntimeType
<1>13. \A r \in Seeds : /\ Len(events'[r]) <= MaxEvents /\ Backed(events'[r], dropped'[r])
                        /\ mode # "assist" => Quiet(events'[r])
  BY <1>6, <1>7 DEF RuntimeInv, RuntimeType
<1>14. RuntimeType'
  BY <1>9, <1>10, <1>11, <1>12, <1>13 DEF RuntimeInv, RuntimeType, NoHint
<1>15. /\ (\A r \in Seeds : \A u \in Targets : pending[r][u] = NoHint)'
       /\ (\A r \in Seeds : Backed(events[r], dropped[r]))'
       /\ (mode # "assist" => \A r \in Seeds : Quiet(events[r]))'
  BY <1>10, <1>12, <1>13 DEF NoHint, Backed, Quiet
<1> QED
  BY <1>14, <1>15 DEF RuntimeInv

LEMMA RunStepKeeps ==
    ASSUME RuntimeInv, NEW s \in Seeds, RunStep(s)
    PROVE  RuntimeInv'
<1>0. cycle[s] \in 0 .. MaxCycle /\ MaxCycle \in Nat
  BY MemoryLoopAssumption DEF RuntimeInv, RuntimeType, MemoryLoopAssumption
<1>1. CASE RunCycle(s)
  <2>1. cycle[s] + 1 \in 0 .. MaxCycle
    BY <1>0, <1>1 DEF RunCycle
  <2>2. /\ cycle' \in [Seeds -> 0 .. MaxCycle] /\ memCycle' \in [Seeds -> 0 .. MaxCycle]
        /\ audited' \in [Seeds -> SUBSET Targets]
    BY <1>1, <2>1 DEF RunCycle, RuntimeInv, RuntimeType
  <2>3. UNCHANGED <<mode, hints, pending, events, dropped>>
    BY <1>1 DEF RunCycle
  <2> QED
    BY <2>2, <2>3 DEF RuntimeInv, RuntimeType, NoHint
<1>2. CASE Reveal(s)
  <2>1. cycle[s] + 1 \in 0 .. MaxCycle
    BY <1>0, <1>2 DEF Reveal
  <2>2. cycle' \in [Seeds -> 0 .. MaxCycle] /\ audited' \in [Seeds -> SUBSET Targets]
    BY <1>2, <2>1 DEF Reveal, RuntimeInv, RuntimeType
  <2>3. UNCHANGED <<mode, hints, memCycle, pending, events, dropped>>
    BY <1>2 DEF Reveal
  <2> QED
    BY <2>2, <2>3 DEF RuntimeInv, RuntimeType, NoHint
<1>3. ASSUME NEW t \in Targets, Audit(s, t) PROVE RuntimeInv'
  BY <1>3, AuditKeeps
<1> QED
  BY <1>1, <1>2, <1>3 DEF RunStep

\* An index as it is when no run has begun, for every seed.
LEMMA BlankIndex ==
    /\ ForEach({}) \in [Seeds -> SUBSET Targets] /\ ForEach(0) \in [Seeds -> 0 .. MaxCycle]
    /\ ForEach([t \in Targets |-> NoHint]) \in [Seeds -> [Targets -> 0 .. NoHint]]
    /\ ForEach(<<>>) \in [Seeds -> Seq(Event)] /\ ForEach(0) \in [Seeds -> Nat]
    /\ \A s \in Seeds : /\ ForEach(<<>>)[s] = <<>> /\ Len(ForEach(<<>>)[s]) <= MaxEvents
                        /\ \A d : Backed(ForEach(<<>>)[s], d)
                        /\ Quiet(ForEach(<<>>)[s])
                        /\ \A t \in Targets : ForEach([u \in Targets |-> NoHint])[s][t] = NoHint
<1>1. MaxCycle \in Nat /\ MaxEvents \in Nat
  BY MemoryLoopAssumption DEF MemoryLoopAssumption
<1>2. NoHint \in 0 .. NoHint
  BY <1>1 DEF NoHint
<1>3. ForEach(0) \in [Seeds -> 0 .. MaxCycle] /\ ForEach(0) \in [Seeds -> Nat]
  BY <1>1 DEF ForEach
<1>4. ForEach({}) \in [Seeds -> SUBSET Targets] /\ ForEach(<<>>) \in [Seeds -> Seq(Event)]
  BY EmptyDeque DEF ForEach
<1>5. ForEach([t \in Targets |-> NoHint]) \in [Seeds -> [Targets -> 0 .. NoHint]]
  BY <1>2 DEF ForEach
<1>6. \A s \in Seeds : ForEach(<<>>)[s] = <<>>
  BY DEF ForEach
<1>7. \A s \in Seeds : \A t \in Targets : ForEach([u \in Targets |-> NoHint])[s][t] = NoHint
  BY DEF ForEach
<1>8. Len(<<>>) <= MaxEvents
  BY <1>1, EmptyDeque
<1> QED
  BY <1>3, <1>4, <1>5, <1>6, <1>7, <1>8, EmptyDeque

LEMMA UnbornHolds ==
    ASSUME Unborn, mode \in {"off", "record", "assist"}
    PROVE  RuntimeInv
<1>1. RuntimeType
  BY BlankIndex DEF Unborn, RuntimeType
<1>2. /\ \A s \in Seeds : \A t \in Targets : pending[s][t] = NoHint
      /\ \A s \in Seeds : Backed(events[s], dropped[s]) /\ Quiet(events[s])
  BY BlankIndex DEF Unborn
<1> QED
  BY <1>1, <1>2 DEF RuntimeInv

LEMMA RebornHolds ==
    ASSUME Reborn, mode' \in {"off", "record", "assist"}
    PROVE  RuntimeInv'
<1>1. NoHint' = NoHint
  BY DEF NoHint
<1>2. RuntimeType'
  BY BlankIndex, <1>1 DEF Reborn, RuntimeType
<1>3. /\ \A s \in Seeds : \A t \in Targets : pending'[s][t] = NoHint
      /\ \A s \in Seeds : Backed(events'[s], dropped'[s]) /\ Quiet(events'[s])
  BY BlankIndex DEF Reborn
<1>4. /\ (\A s \in Seeds : \A t \in Targets : pending[s][t] = NoHint)'
      /\ (\A s \in Seeds : Backed(events[s], dropped[s]))'
      /\ (mode # "assist" => \A s \in Seeds : Quiet(events[s]))'
  BY <1>1, <1>3 DEF Backed, Quiet
<1> QED
  BY <1>2, <1>4 DEF RuntimeInv

LEMMA DiscardKeeps ==
    ASSUME RuntimeInv, NEW s \in Seeds, Discard(s), UNCHANGED mode
    PROVE  RuntimeInv'
<1>0. NoHint' = NoHint /\ MaxCycle \in Nat /\ MaxEvents \in Nat /\ NoHint \in 0 .. NoHint
  BY MemoryLoopAssumption DEF NoHint, MemoryLoopAssumption
<1>1. /\ hints' \in [Seeds -> SUBSET Targets] /\ audited' \in [Seeds -> SUBSET Targets]
      /\ cycle' \in [Seeds -> 0 .. MaxCycle] /\ memCycle' \in [Seeds -> 0 .. MaxCycle]
      /\ pending' \in [Seeds -> [Targets -> 0 .. NoHint]]
      /\ events' \in [Seeds -> Seq(Event)] /\ dropped' \in [Seeds -> Nat]
  BY <1>0, EmptyDeque DEF Discard, RuntimeInv, RuntimeType
<1>2. /\ \A r \in Seeds : r # s => events'[r] = events[r] /\ dropped'[r] = dropped[r]
      /\ events'[s] = <<>>
      /\ \A r \in Seeds : \A t \in Targets : pending'[r][t] = NoHint
  BY DEF Discard, RuntimeInv, RuntimeType
<1>3. Len(<<>>) <= MaxEvents
  BY <1>0, EmptyDeque
<1>4. \A r \in Seeds : /\ Len(events'[r]) <= MaxEvents /\ Backed(events'[r], dropped'[r])
                       /\ mode # "assist" => Quiet(events'[r])
  BY <1>2, <1>3, EmptyDeque DEF RuntimeInv, RuntimeType
<1>5. RuntimeType'
  BY <1>0, <1>1, <1>4 DEF RuntimeInv, RuntimeType
<1>6. /\ (\A r \in Seeds : \A t \in Targets : pending[r][t] = NoHint)'
      /\ (\A r \in Seeds : Backed(events[r], dropped[r]))'
      /\ (mode # "assist" => \A r \in Seeds : Quiet(events[r]))'
  BY <1>0, <1>2, <1>4 DEF Backed, Quiet
<1> QED
  BY <1>5, <1>6 DEF RuntimeInv

LEMMA RuntimeUnchanged ==
    ASSUME RuntimeInv, UNCHANGED <<mode, cycle, memCycle, audited, pending, events, dropped>>,
           hints' \in [Seeds -> SUBSET Targets]
    PROVE  RuntimeInv'
<1>1. NoHint' = NoHint
  BY DEF NoHint
<1>2. RuntimeType'
  BY <1>1 DEF RuntimeInv, RuntimeType
<1>3. /\ (\A r \in Seeds : \A t \in Targets : pending[r][t] = NoHint)'
      /\ (\A r \in Seeds : Backed(events[r], dropped[r]))'
      /\ (mode # "assist" => \A r \in Seeds : Quiet(events[r]))'
  BY <1>1 DEF RuntimeInv, Backed, Quiet
<1> QED
  BY <1>2, <1>3 DEF RuntimeInv

\* What the deque keeps is what OutcomeOfItsHint asks for.
LEMMA BackedOutcomes == RuntimeInv => OutcomeOfItsHint
<1> SUFFICES ASSUME RuntimeInv, NEW s \in Seeds, NEW i \in DOMAIN events[s],
                    events[s][i].kind \in {"confirmed", "wasted"}
             PROVE  \/ \E j \in 1 .. (i - 1) :
                         events[s][j] = [events[s][i] EXCEPT !.kind = "reorder"]
                    \/ dropped[s] > 0 /\ i <= 2
  BY DEF OutcomeOfItsHint
<1> DEFINE q == events[s]
<1>1. q \in Seq(Event) /\ Backed(q, dropped[s])
  BY DEF RuntimeInv, RuntimeType
<1>2. Len(q) \in Nat /\ i \in 1 .. Len(q)
  BY <1>1, LenProperties
<1> HIDE DEF q
<1>3. \/ i - 1 \in 1 .. Len(q) /\ Same(q[i - 1], q[i])
      \/ i - 2 \in 1 .. Len(q) /\ Same(q[i - 2], q[i]) /\ q[i - 1].kind = "look"
      \/ dropped[s] > 0 /\ i = 1
      \/ dropped[s] > 0 /\ i = 2 /\ q[1].kind = "look"
  BY <1>1, <1>2 DEF Backed, q
<1>4. /\ i - 1 \in 1 .. Len(q) => i - 1 \in 1 .. (i - 1)
      /\ i - 2 \in 1 .. Len(q) => i - 2 \in 1 .. (i - 1)
  BY <1>2
<1>5. CASE i - 1 \in 1 .. Len(q) /\ Same(q[i - 1], q[i])
  BY <1>4, <1>5 DEF Same, q
<1>6. CASE i - 2 \in 1 .. Len(q) /\ Same(q[i - 2], q[i]) /\ q[i - 1].kind = "look"
  BY <1>4, <1>6 DEF Same, q
<1>7. CASE dropped[s] > 0 /\ (i = 1 \/ i = 2)
  BY <1>7
<1> QED
  BY <1>3, <1>5, <1>6, <1>7

-----------------------------------------------------------------------------
(* The driver and its files                                                *)

Stages  == {"off", "batch", "sleep", "compact", "replace", "clear", "done"}
RunStates == {"todo", "running", "finished", "failed", "collected"}

\* The mind file is whole in every stage; the file to be swapped in is the fold
\* of the delta that is still there, and what it counts covers that delta.
FilesInv ==
    /\ stage \in Stages /\ turn \in 0 .. ControlRecord /\ run \in [Seeds -> RunStates]
    /\ delta \in Seq(Rows) /\ mind \in Minds
    /\ starts \in 0 .. MaxStarts /\ gathered \in Nat /\ overrun \in Nat
    /\ stage \in {"sleep", "compact", "replace", "clear"} => turn <= Gens
    /\ stage = "replace" => tmp = Compacted(Base, delta)
    /\ stage = "clear" => EvidenceIn(delta) <= Evidence(mind)

IInv == RuntimeInv /\ FilesInv

LEMMA Numbers ==
    /\ Gens \in Nat /\ MaxStarts \in Nat /\ MaxCycle \in Nat /\ MaxEvents \in Nat
    /\ ControlOff = Gens + 1 /\ ControlRecord = Gens + 2
    /\ \A k : ModeOf(k) \in {"off", "record", "assist"}
BY MemoryLoopAssumption DEF MemoryLoopAssumption, ControlOff, ControlRecord, ModeOf

LEMMA BaseTyped ==
    ASSUME FilesInv
    PROVE  Base \in Minds
BY NoMindTyped DEF Base, FilesInv

LEMMA TodoRuns == ForEach("todo") \in [Seeds -> RunStates]
BY DEF ForEach, RunStates

LEMMA InitKeeps == Init => IInv
<1> SUFFICES ASSUME Init PROVE IInv
  OBVIOUS
<1>1. RuntimeInv
  BY UnbornHolds DEF Init
<1>2. FilesInv
  BY Numbers, TodoRuns, NoMindTyped, EvidenceCut DEF Init, FilesInv, Stages
<1> QED
  BY <1>1, <1>2 DEF IInv

LEMMA StartKeeps ==
    ASSUME IInv, NEW force \in BOOLEAN, Start(force)
    PROVE  IInv'
<1>1. /\ turn' = 0 /\ mode' = ModeOf(0) /\ stage' = "batch" /\ run' = ForEach("todo") /\ Reborn
      /\ starts < MaxStarts /\ starts' = starts + 1 /\ UNCHANGED <<gathered, overrun>>
  BY DEF Start, Batch
<1>2. RuntimeInv'
  BY <1>1, Numbers, RebornHolds
<1>3. delta' \in Seq(Rows) /\ mind' \in Minds
  BY NoMindTyped, EvidenceCut DEF Start, IInv, FilesInv
<1>4. starts' \in 0 .. MaxStarts
  BY <1>1, Numbers DEF IInv, FilesInv
<1>5. 0 \in 0 .. ControlRecord
  BY Numbers
<1>6. FilesInv'
  BY <1>1, <1>3, <1>4, <1>5, TodoRuns DEF IInv, FilesInv, Stages, ControlRecord
<1> QED
  BY <1>2, <1>6 DEF IInv

\* What holds of the files while only a run goes on.
LEMMA FilesUnchanged ==
    ASSUME FilesInv, UNCHANGED <<stage, turn, delta, tmp, mind, starts, gathered, overrun>>,
           run' \in [Seeds -> RunStates]
    PROVE  FilesInv'
<1>1. Base' = Base
  BY DEF Base
<1> QED
  BY <1>1 DEF FilesInv, ControlRecord

LEMMA BeginRunKeeps ==
    ASSUME IInv, NEW s \in Seeds, BeginRun(s)
    PROVE  IInv'
<1>1. (IF mode = "off" THEN {} ELSE Loaded(mind)) \in SUBSET Targets
  BY DEF Loaded
<1>2. hints' \in [Seeds -> SUBSET Targets]
  BY <1>1 DEF BeginRun, IInv, RuntimeInv, RuntimeType
<1>3. run' \in [Seeds -> RunStates]
  BY DEF BeginRun, IInv, FilesInv, RunStates
<1>4. UNCHANGED <<mode, cycle, memCycle, audited, pending, events, dropped>>
  BY DEF BeginRun
<1>5. UNCHANGED <<stage, turn, delta, tmp, mind, starts, gathered, overrun>>
  BY DEF BeginRun
<1> QED
  BY <1>2, <1>3, <1>4, <1>5, RuntimeUnchanged, FilesUnchanged DEF IInv

LEMMA RunOnKeeps ==
    ASSUME IInv, NEW s \in Seeds, RunOn(s)
    PROVE  IInv'
<1>1. RuntimeInv'
  BY RunStepKeeps DEF RunOn, IInv
<1>2. UNCHANGED <<stage, turn, run, delta, tmp, mind, starts, gathered, overrun>>
  BY DEF RunOn, driver
<1>3. run' \in [Seeds -> RunStates]
  BY <1>2 DEF IInv, FilesInv
<1> QED
  BY <1>1, <1>2, <1>3, FilesUnchanged DEF IInv

LEMMA EndRunKeeps ==
    ASSUME IInv, NEW s \in Seeds, EndRun(s)
    PROVE  IInv'
<1>1. /\ UNCHANGED <<mode, cycle, memCycle, audited, pending, events, dropped>>
      /\ hints' \in [Seeds -> SUBSET Targets]
  BY DEF EndRun, runtime, IInv, RuntimeInv, RuntimeType
<1>2. /\ UNCHANGED <<stage, turn, delta, tmp, mind, starts, gathered, overrun>>
      /\ run' \in [Seeds -> RunStates]
  BY DEF EndRun, IInv, FilesInv, RunStates
<1> QED
  BY <1>1, <1>2, RuntimeUnchanged, FilesUnchanged DEF IInv

LEMMA RunFailsKeeps ==
    ASSUME IInv, NEW s \in Seeds, RunFails(s)
    PROVE  IInv'
<1>1. RuntimeInv'
  BY DiscardKeeps DEF RunFails, IInv
<1>2. /\ UNCHANGED <<stage, turn, delta, tmp, mind, starts, gathered, overrun>>
      /\ run' \in [Seeds -> RunStates]
  BY DEF RunFails, IInv, FilesInv, RunStates
<1> QED
  BY <1>1, <1>2, FilesUnchanged DEF IInv

\* The rows a run leaves, whatever it recorded.
LEMMA CollectedRows ==
    ASSUME IInv, NEW s \in Seeds, NEW R \in RecordsOf(s)
    PROVE  /\ R \in SUBSET Targets /\ RunRows(s, R) \in Seq(Rows)
           /\ EvidenceIn(RunRows(s, R)) \in Nat
<1>1. R \in SUBSET Targets
  BY DEF RecordsOf
<1>2. events[s] \in Seq(Event)
  BY DEF IInv, RuntimeInv, RuntimeType
<1> QED
  BY <1>1, <1>2, RunRowsTyped, EvidenceFinite

LEMMA LossTyped ==
    ASSUME IInv, NEW s \in Seeds
    PROVE  overrun + (IF dropped[s] > 0 THEN 1 ELSE 0) \in Nat
BY DEF IInv, FilesInv

LEMMA CollectKeeps ==
    ASSUME IInv, NEW s \in Seeds, Collect(s)
    PROVE  IInv'
<1>1. RuntimeInv'
  BY DiscardKeeps DEF Collect, IInv
<1>2. PICK R \in RecordsOf(s) : /\ delta' = Written(delta, RunRows(s, R))
                                /\ gathered' = gathered + EvidenceIn(RunRows(s, R))
  BY DEF Collect
<1>3. /\ stage = "batch" /\ overrun' = overrun + (IF dropped[s] > 0 THEN 1 ELSE 0)
      /\ run' \in [Seeds -> RunStates]
      /\ UNCHANGED <<stage, turn, tmp, mind, starts>>
  BY DEF Collect, IInv, FilesInv, RunStates
<1>4. delta \in Seq(Rows) /\ gathered \in Nat
  BY DEF IInv, FilesInv
<1>5. delta' \in Seq(Rows) /\ gathered' \in Nat
  BY <1>2, <1>4, CollectedRows, WrittenEvidence
<1>6. overrun' \in Nat
  BY <1>3, LossTyped
<1>7. FilesInv'
  BY <1>3, <1>5, <1>6 DEF IInv, FilesInv, ControlRecord
<1> QED
  BY <1>1, <1>7 DEF IInv

LEMMA EndBatchKeeps ==
    ASSUME IInv, EndBatch
    PROVE  IInv'
<1>0. stage = "batch" /\ UNCHANGED <<delta, tmp, mind, starts, gathered, overrun>>
  BY DEF EndBatch
<1>1. CASE turn <= Gens /\ stage' = "sleep" /\ UNCHANGED <<runtime, turn, run>>
  <2>1. /\ UNCHANGED <<mode, cycle, memCycle, audited, pending, events, dropped>>
        /\ hints' \in [Seeds -> SUBSET Targets]
    BY <1>1 DEF runtime, IInv, RuntimeInv, RuntimeType
  <2>2. RuntimeInv'
    BY <2>1, RuntimeUnchanged DEF IInv
  <2>3. FilesInv'
    BY <1>0, <1>1 DEF IInv, FilesInv, Stages, ControlRecord
  <2> QED
    BY <2>2, <2>3 DEF IInv
<1>2. CASE turn = ControlOff /\ Batch(ControlRecord)
  <2>1. RuntimeInv'
    BY <1>2, Numbers, RebornHolds DEF Batch
  <2>2. ControlRecord \in 0 .. ControlRecord
    BY Numbers
  <2>3. FilesInv'
    BY <1>0, <1>2, <2>2, TodoRuns DEF Batch, IInv, FilesInv, Stages, ControlRecord
  <2> QED
    BY <2>1, <2>3 DEF IInv
<1>3. CASE turn = ControlRecord /\ stage' = "done" /\ UNCHANGED <<runtime, turn, run>>
  <2>1. /\ UNCHANGED <<mode, cycle, memCycle, audited, pending, events, dropped>>
        /\ hints' \in [Seeds -> SUBSET Targets]
    BY <1>3 DEF runtime, IInv, RuntimeInv, RuntimeType
  <2>2. RuntimeInv'
    BY <2>1, RuntimeUnchanged DEF IInv
  <2>3. FilesInv'
    BY <1>0, <1>3 DEF IInv, FilesInv, Stages, ControlRecord
  <2> QED
    BY <2>2, <2>3 DEF IInv
<1> QED
  BY <1>1, <1>2, <1>3 DEF EndBatch

\* A step of the driver between batches leaves the indexes alone.
LEMMA RuntimeStays ==
    ASSUME RuntimeInv, UNCHANGED runtime
    PROVE  RuntimeInv'
<1>1. /\ UNCHANGED <<mode, cycle, memCycle, audited, pending, events, dropped>>
      /\ hints' \in [Seeds -> SUBSET Targets]
  BY DEF runtime, RuntimeInv, RuntimeType
<1> QED
  BY <1>1, RuntimeUnchanged

LEMMA SleepKeeps ==
    ASSUME IInv, Sleep
    PROVE  IInv'
<1>1. RuntimeInv'
  BY RuntimeStays DEF Sleep, IInv
<1>2. PICK P \in Proposable : /\ delta' = Written(delta, SleepRows(P))
                              /\ gathered' = gathered + EvidenceIn(SleepRows(P))
  BY DEF Sleep
<1>3. stage = "sleep" /\ stage' = "compact" /\ UNCHANGED <<turn, run, tmp, mind, starts, overrun>>
  BY DEF Sleep
<1>4. delta \in Seq(Rows) /\ gathered \in Nat
  BY DEF IInv, FilesInv
<1>5. SleepRows(P) \in Seq(Rows) /\ EvidenceIn(SleepRows(P)) \in Nat
  BY SleepRowsTyped, EvidenceFinite
<1>6. delta' \in Seq(Rows) /\ gathered' \in Nat
  BY <1>2, <1>4, <1>5, WrittenEvidence
<1>7. FilesInv'
  BY <1>3, <1>6 DEF IInv, FilesInv, Stages, ControlRecord
<1> QED
  BY <1>1, <1>7 DEF IInv

LEMMA CompactKeeps ==
    ASSUME IInv, Compact
    PROVE  IInv'
<1>1. RuntimeInv'
  BY RuntimeStays DEF Compact, IInv
<1>2. /\ stage = "compact" /\ stage' = "replace" /\ tmp' = Compacted(Base, delta)
      /\ UNCHANGED <<turn, run, delta, mind, starts, gathered, overrun>>
  BY DEF Compact
<1>3. Base' = Base
  BY <1>2 DEF Base
<1>4. FilesInv'
  BY <1>2, <1>3 DEF IInv, FilesInv, Stages, ControlRecord
<1> QED
  BY <1>1, <1>4 DEF IInv

LEMMA ReplaceKeeps ==
    ASSUME IInv, Replace
    PROVE  IInv' /\ Evidence(mind') = Evidence(Base) + EvidenceIn(delta)
<1>1. RuntimeInv'
  BY RuntimeStays DEF Replace, IInv
<1>2. /\ stage = "replace" /\ stage' = "clear" /\ mind' = tmp
      /\ UNCHANGED <<turn, run, delta, tmp, starts, gathered, overrun>>
  BY DEF Replace
<1>3. mind' = Compacted(Base, delta) /\ delta \in Seq(Rows)
  BY <1>2 DEF IInv, FilesInv
<1>4. /\ mind' \in Minds /\ Evidence(mind') = Evidence(Base) + EvidenceIn(delta)
      /\ Evidence(Base) \in Nat /\ EvidenceIn(delta) \in Nat
  BY <1>3, BaseTyped, CompactedEvidence DEF IInv
<1>5. EvidenceIn(delta) <= Evidence(mind')
  BY <1>4
<1>6. FilesInv'
  BY <1>2, <1>4, <1>5 DEF IInv, FilesInv, Stages, ControlRecord
<1> QED
  BY <1>1, <1>4, <1>6 DEF IInv

LEMMA ClearKeeps ==
    ASSUME IInv, Clear
    PROVE  IInv'
<1>1. /\ stage = "clear" /\ stage' = "batch" /\ delta' = <<>> /\ turn' = turn + 1
      /\ mode' = ModeOf(turn + 1) /\ run' = ForEach("todo") /\ Reborn
      /\ UNCHANGED <<tmp, mind, starts, gathered, overrun>>
  BY DEF Clear, Batch
<1>2. RuntimeInv'
  BY <1>1, Numbers, RebornHolds
<1>3. turn' \in 0 .. ControlRecord
  BY <1>1, Numbers DEF IInv, FilesInv
<1>4. FilesInv'
  BY <1>1, <1>3, TodoRuns, EvidenceCut DEF IInv, FilesInv, Stages, ControlRecord
<1> QED
  BY <1>2, <1>4 DEF IInv

\* What a kill leaves of the delta is some of what was to be written.
LEMMA CrashWrites ==
    ASSUME IInv, Crash
    PROVE  /\ delta' \in Seq(Rows) /\ gathered' \in Nat /\ overrun' \in Nat
           /\ gathered' >= gathered
           /\ EvidenceIn(delta') <= EvidenceIn(delta) + (gathered' - gathered)
<1>0. /\ delta \in Seq(Rows) /\ gathered \in Nat /\ overrun \in Nat
      /\ EvidenceIn(delta) \in Nat
  BY EvidenceFinite DEF IInv, FilesInv
<1>1. CASE UNCHANGED <<delta, gathered, overrun>>
  BY <1>0, <1>1
<1>2. ASSUME NEW s \in Seeds, NEW R \in RecordsOf(s),
             delta' \in CutShort(delta, RunRows(s, R)),
             gathered' = gathered + EvidenceIn(RunRows(s, R)),
             overrun' = overrun + (IF dropped[s] > 0 THEN 1 ELSE 0)
      PROVE  /\ delta' \in Seq(Rows) /\ gathered' \in Nat /\ overrun' \in Nat
             /\ gathered' >= gathered
             /\ EvidenceIn(delta') <= EvidenceIn(delta) + (gathered' - gathered)
  <2>1. RunRows(s, R) \in Seq(Rows) /\ EvidenceIn(RunRows(s, R)) \in Nat
    BY CollectedRows
  <2>2. /\ delta' \in Seq(Rows)
        /\ EvidenceIn(delta') <= EvidenceIn(delta) + EvidenceIn(RunRows(s, R))
    BY <1>0, <1>2, <2>1, CutShortEvidence
  <2>3. overrun' \in Nat
    BY <1>2, LossTyped
  <2> QED
    BY <1>0, <1>2, <2>1, <2>2, <2>3
<1>3. ASSUME NEW P \in Proposable, delta' \in CutShort(delta, SleepRows(P)),
             gathered' = gathered + EvidenceIn(SleepRows(P)), UNCHANGED overrun
      PROVE  /\ delta' \in Seq(Rows) /\ gathered' \in Nat /\ overrun' \in Nat
             /\ gathered' >= gathered
             /\ EvidenceIn(delta') <= EvidenceIn(delta) + (gathered' - gathered)
  <2>1. SleepRows(P) \in Seq(Rows) /\ EvidenceIn(SleepRows(P)) \in Nat
    BY SleepRowsTyped, EvidenceFinite
  <2>2. /\ delta' \in Seq(Rows)
        /\ EvidenceIn(delta') <= EvidenceIn(delta) + EvidenceIn(SleepRows(P))
    BY <1>0, <1>3, <2>1, CutShortEvidence
  <2> QED
    BY <1>0, <1>3, <2>1, <2>2
<1> QED
  BY <1>1, <1>2, <1>3 DEF Crash

LEMMA CrashKeeps ==
    ASSUME IInv, Crash
    PROVE  IInv'
<1>1. /\ stage' = "off" /\ Reborn /\ run' = ForEach("todo")
      /\ UNCHANGED <<mode, turn, mind, starts>>
  BY DEF Crash
<1>2. RuntimeInv'
  BY <1>1, RebornHolds DEF IInv, RuntimeInv, RuntimeType
<1>3. FilesInv'
  BY <1>1, CrashWrites, TodoRuns DEF IInv, FilesInv, Stages, ControlRecord
<1> QED
  BY <1>2, <1>3 DEF IInv

LEMMA StutterKeeps ==
    ASSUME IInv, UNCHANGED vars
    PROVE  IInv'
<1>1. RuntimeInv'
  BY RuntimeStays DEF vars, IInv
<1>2. /\ UNCHANGED <<stage, turn, delta, tmp, mind, starts, gathered, overrun>>
      /\ run' \in [Seeds -> RunStates]
  BY DEF vars, driver, IInv, FilesInv
<1> QED
  BY <1>1, <1>2, FilesUnchanged DEF IInv

LEMMA NextKeeps == IInv /\ [Next]_vars => IInv'
<1> SUFFICES ASSUME IInv, [Next]_vars PROVE IInv'
  OBVIOUS
<1>1. CASE UNCHANGED vars
  BY <1>1, StutterKeeps
<1>2. CASE Next
  BY <1>2, StartKeeps, BeginRunKeeps, RunOnKeeps, EndRunKeeps, RunFailsKeeps, CollectKeeps,
     EndBatchKeeps, SleepKeeps, CompactKeeps, ReplaceKeeps, ClearKeeps, CrashKeeps
     DEF Next, Advance
<1> QED
  BY <1>1, <1>2

-----------------------------------------------------------------------------
(* What holds of every behaviour                                           *)

\* Indexes, runs and files agree in every stage, whatever is killed when.
THEOREM LoopInvariant == Spec => []IInv
<1> QED
  BY InitKeeps, NextKeeps, PTL DEF Spec

\* TypeOK: no index, queue or file of the loop leaves its type; a delta that was
\* cut short stays readable but for its last line.
THEOREM LoopTyped == Spec => []TypeOK
<1>1. IInv => TypeOK
  BY DEF IInv, RuntimeInv, FilesInv, TypeOK, Stages, RunStates
<1> QED
  BY <1>1, LoopInvariant, PTL

\* MindWhole: the mind a batch loads is never torn (compact_nethra_memory writes
\* beside it, run_multisleep_mind_loop swaps).
THEOREM MindAlwaysWhole == Spec => []MindWhole
<1>1. IInv => MindWhole
  BY DEF IInv, FilesInv, MindWhole, Minds
<1> QED
  BY <1>1, LoopInvariant, PTL

\* OutcomeOfItsHint: record_fit_outcome judges only the hint of the audit it
\* ends, so an outcome stands behind its own reorder as long as the deque has it.
THEOREM OutcomesAnswerTheirHints == Spec => []OutcomeOfItsHint
<1>1. IInv => OutcomeOfItsHint
  BY BackedOutcomes DEF IInv
<1> QED
  BY <1>1, LoopInvariant, PTL

-----------------------------------------------------------------------------
(* The loop implements EvidenceOnce                                        *)

Waiting == IF stage = "clear" THEN 0 ELSE EvidenceIn(delta)
Tally   == IF stage = "off" \/ (turn = 0 /\ stage # "clear") THEN 0 ELSE Evidence(mind)

LEMMA OnceNumbers ==
    ASSUME IInv
    PROVE  /\ Waiting \in Nat /\ Tally \in Nat /\ gathered \in Nat
           /\ EvidenceIn(delta) \in Nat /\ Evidence(mind) \in Nat
BY EvidenceFinite, CountedFinite DEF IInv, FilesInv, Waiting, Tally

LEMMA Gathers ==
    ASSUME gathered' \in Nat, gathered' >= gathered,
           Waiting' \in Waiting .. (Waiting + (gathered' - gathered)), Tally' = Tally
    PROVE  Once!Gather
BY DEF Once!Gather, Once!Written, Waiting, Tally

LEMMA Counts ==
    ASSUME Tally' = Tally + Waiting, Waiting' = 0, UNCHANGED gathered
    PROVE  Once!Count
BY DEF Once!Count, Waiting, Tally

LEMMA Forgets ==
    ASSUME gathered' \in Nat, gathered' >= gathered, Tally' = 0,
           Waiting' \in 0 .. (Waiting + Tally + (gathered' - gathered))
    PROVE  Once!Forget
BY DEF Once!Forget, Once!Written, Waiting, Tally

LEMMA Stutters ==
    ASSUME Waiting' = Waiting, Tally' = Tally, UNCHANGED gathered
    PROVE  UNCHANGED Once!vars
BY DEF Once!vars, Waiting, Tally

LEMMA InitRefines == Init => Once!Init
BY EvidenceCut DEF Init, Once!Init

\* A start finds at most what was waiting, and has counted nothing yet.
LEMMA StartRefines ==
    ASSUME IInv, NEW force \in BOOLEAN, Start(force)
    PROVE  Once!Forget
<1>1. /\ stage \in {"off", "done"} /\ turn' = 0 /\ stage' = "batch" /\ gathered' = gathered
      /\ EvidenceIn(delta') \in {0, EvidenceIn(delta)}
  BY EvidenceCut DEF Start, Batch
<1>2. Tally' = 0 /\ Waiting' \in {0, EvidenceIn(delta)} /\ Waiting = EvidenceIn(delta)
  BY <1>1 DEF Tally, Waiting
<1>3. Waiting' \in 0 .. (Waiting + Tally + (gathered' - gathered)) /\ gathered' \in Nat
      /\ gathered' >= gathered
  BY <1>1, <1>2, OnceNumbers
<1> QED
  BY <1>2, <1>3, Forgets

\* The rows appended are evidence gathered, but for what the line before swallows.
LEMMA AppendRefines ==
    ASSUME IInv, NEW rows \in Seq(Rows), delta' = Written(delta, rows),
           gathered' = gathered + EvidenceIn(rows), stage # "clear", stage' # "clear",
           Tally' = Tally
    PROVE  Once!Gather
<1>1. EvidenceIn(rows) \in Nat /\ delta \in Seq(Rows)
  BY EvidenceFinite DEF IInv, FilesInv
<1>2. /\ Written(delta, rows) \in Seq(Rows)
      /\ EvidenceIn(delta) <= EvidenceIn(Written(delta, rows))
      /\ EvidenceIn(Written(delta, rows)) <= EvidenceIn(delta) + EvidenceIn(rows)
  BY <1>1, WrittenEvidence
<1>3. EvidenceIn(Written(delta, rows)) \in Nat
  BY <1>2, EvidenceFinite
<1>4. Waiting = EvidenceIn(delta) /\ Waiting' = EvidenceIn(Written(delta, rows))
  BY DEF Waiting
<1>5. /\ gathered' \in Nat /\ gathered' >= gathered
      /\ Waiting' \in Waiting .. (Waiting + (gathered' - gathered))
  BY <1>1, <1>2, <1>3, <1>4, OnceNumbers
<1> QED
  BY <1>5, Gathers

LEMMA CollectRefines ==
    ASSUME IInv, NEW s \in Seeds, Collect(s)
    PROVE  Once!Gather
<1>1. PICK R \in RecordsOf(s) : /\ delta' = Written(delta, RunRows(s, R))
                                /\ gathered' = gathered + EvidenceIn(RunRows(s, R))
  BY DEF Collect
<1>2. RunRows(s, R) \in Seq(Rows)
  BY CollectedRows
<1>3. stage = "batch" /\ UNCHANGED <<stage, turn, mind>>
  BY DEF Collect
<1>4. Tally' = Tally
  BY <1>3 DEF Tally
<1> QED
  BY <1>1, <1>2, <1>3, <1>4, AppendRefines

LEMMA SleepRefines ==
    ASSUME IInv, Sleep
    PROVE  Once!Gather
<1>1. PICK P \in Proposable : /\ delta' = Written(delta, SleepRows(P))
                              /\ gathered' = gathered + EvidenceIn(SleepRows(P))
  BY DEF Sleep
<1>2. SleepRows(P) \in Seq(Rows)
  BY SleepRowsTyped
<1>3. stage = "sleep" /\ stage' = "compact" /\ UNCHANGED <<turn, mind>>
  BY DEF Sleep
<1>4. Tally' = Tally
  BY <1>3 DEF Tally
<1> QED
  BY <1>1, <1>2, <1>3, <1>4, AppendRefines

\* The swap is where rows are counted: the delta's over those of the base, which
\* is no mind at all in the first generation.
LEMMA ReplaceRefines ==
    ASSUME IInv, Replace
    PROVE  Once!Count
<1>1. stage = "replace" /\ stage' = "clear" /\ UNCHANGED <<turn, gathered>>
  BY DEF Replace
<1>2. Evidence(mind') = Evidence(Base) + EvidenceIn(delta)
  BY ReplaceKeeps
<1>3. Evidence(Base) = Tally
  BY <1>1, NoMindEvidence DEF Base, Tally
<1>4. Waiting = EvidenceIn(delta) /\ Waiting' = 0 /\ Tally' = Evidence(mind')
  BY <1>1 DEF Waiting, Tally
<1> QED
  BY <1>1, <1>2, <1>3, <1>4, Counts

\* Clearing the delta drops only rows that are counted already.
LEMMA ClearRefines ==
    ASSUME IInv, Clear
    PROVE  UNCHANGED Once!vars
<1>1. /\ stage = "clear" /\ stage' = "batch" /\ delta' = <<>> /\ turn' = turn + 1
      /\ UNCHANGED <<mind, gathered>>
  BY DEF Clear, Batch
<1>2. turn' # 0
  BY <1>1, Numbers DEF IInv, FilesInv
<1>3. Waiting = 0 /\ Waiting' = 0 /\ Tally = Evidence(mind) /\ Tally' = Evidence(mind)
  BY <1>1, <1>2, EvidenceCut DEF Waiting, Tally
<1> QED
  BY <1>1, <1>3, Stutters

\* A killed loop forgets its mind; the rows the next one finds were waiting, were
\* being written, or are in the mind that is forgotten.
LEMMA CrashRefines ==
    ASSUME IInv, Crash
    PROVE  Once!Forget
<1>1. stage # "off" /\ stage' = "off"
  BY DEF Crash
<1>2. /\ delta' \in Seq(Rows) /\ gathered' \in Nat /\ gathered' >= gathered
      /\ EvidenceIn(delta') <= EvidenceIn(delta) + (gathered' - gathered)
  BY CrashWrites
<1>3. EvidenceIn(delta') \in Nat /\ Waiting' = EvidenceIn(delta') /\ Tally' = 0
  BY <1>1, <1>2, EvidenceFinite DEF Waiting, Tally
<1>4. EvidenceIn(delta) <= Waiting + Tally
  <2>1. CASE stage = "clear"
    <3>1. EvidenceIn(delta) <= Evidence(mind) /\ Waiting = 0 /\ Tally = Evidence(mind)
      BY <2>1 DEF IInv, FilesInv, Waiting, Tally
    <3> QED
      BY <3>1, OnceNumbers
  <2>2. CASE stage # "clear"
    <3>1. Waiting = EvidenceIn(delta)
      BY <2>2 DEF Waiting
    <3> QED
      BY <3>1, OnceNumbers
  <2> QED
    BY <2>1, <2>2
<1>5. Waiting' \in 0 .. (Waiting + Tally + (gathered' - gathered))
  BY <1>2, <1>3, <1>4, OnceNumbers
<1> QED
  BY <1>2, <1>3, <1>5, Forgets

LEMMA EndBatchRefines ==
    ASSUME IInv, EndBatch
    PROVE  UNCHANGED Once!vars
<1>1. /\ stage = "batch" /\ stage' \in {"sleep", "batch", "done"}
      /\ UNCHANGED <<delta, mind, gathered>>
  BY DEF EndBatch, Batch
<1>2. turn' = 0 <=> turn = 0
  BY Numbers DEF EndBatch, Batch
<1>3. Waiting' = Waiting /\ Tally' = Tally
  BY <1>1, <1>2 DEF Waiting, Tally
<1> QED
  BY <1>1, <1>3, Stutters

LEMMA CompactRefines ==
    ASSUME IInv, Compact
    PROVE  UNCHANGED Once!vars
<1>1. /\ stage = "compact" /\ stage' = "replace" /\ UNCHANGED <<turn, delta, mind, gathered>>
  BY DEF Compact
<1>2. Waiting' = Waiting /\ Tally' = Tally
  BY <1>1 DEF Waiting, Tally
<1> QED
  BY <1>1, <1>2, Stutters

LEMMA RunRefines ==
    ASSUME IInv, UNCHANGED <<stage, turn, delta, mind, gathered>>
    PROVE  UNCHANGED Once!vars
<1>1. Waiting' = Waiting /\ Tally' = Tally
  BY DEF Waiting, Tally
<1> QED
  BY <1>1, Stutters

LEMMA NextRefines == IInv /\ [Next]_vars => [Once!Next]_(Once!vars)
<1> SUFFICES ASSUME IInv, [Next]_vars PROVE Once!Next \/ UNCHANGED Once!vars
  OBVIOUS
<1>1. CASE UNCHANGED vars
  <2>1. UNCHANGED <<stage, turn, delta, mind, gathered>>
    BY <1>1 DEF vars, driver
  <2> QED
    BY <2>1, RunRefines
<1>2. ASSUME NEW s \in Seeds, BeginRun(s) \/ RunOn(s) \/ EndRun(s) \/ RunFails(s)
      PROVE  UNCHANGED Once!vars
  <2>1. UNCHANGED <<stage, turn, delta, mind, gathered>>
    BY <1>2 DEF BeginRun, RunOn, EndRun, RunFails, driver
  <2> QED
    BY <2>1, RunRefines
<1>3. CASE Next
  BY <1>2, <1>3, StartRefines, CollectRefines, EndBatchRefines, SleepRefines, CompactRefines,
     ReplaceRefines, ClearRefines, CrashRefines
     DEF Next, Advance, Once!Next
<1> QED
  BY <1>1, <1>3

\* CountsOnce: every generation, kill and restart of run_multisleep_mind_loop is a
\* step of EvidenceOnce, which gathers, counts or forgets rows, or none at all.
THEOREM CountsOnceHolds == Spec => CountsOnce
<1>1. IInv /\ [Next]_vars => [Once!Next]_(Once!vars)
  BY NextRefines
<1>2. Init => Once!Init
  BY InitRefines
<1> QED
  BY <1>1, <1>2, LoopInvariant, PTL DEF Spec, CountsOnce, Once!Spec

\* The three steps of EvidenceOnce as arithmetic: g, f and t are gathered, fresh
\* and tally, G and F what the first two become.
LEMMA GatherArith ==
    ASSUME NEW g \in Nat, NEW f \in Nat, NEW t \in Nat, f + t <= g,
           NEW G \in Nat, G >= g, NEW F \in f .. (f + (G - g))
    PROVE  F + t <= G
<1>1. G - g \in Int /\ f + (G - g) \in Int
  OBVIOUS
<1>2. F \in Int /\ f <= F /\ F <= f + (G - g)
  BY <1>1
<1> QED
  BY <1>2

LEMMA ForgetArith ==
    ASSUME NEW g \in Nat, NEW f \in Nat, NEW t \in Nat, f + t <= g,
           NEW G \in Nat, G >= g, NEW F \in 0 .. (f + t + (G - g))
    PROVE  F + 0 <= G
<1>1. G - g \in Int /\ f + t + (G - g) \in Int
  OBVIOUS
<1>2. F \in Int /\ 0 <= F /\ F <= f + t + (G - g)
  BY <1>1
<1> QED
  BY <1>2

LEMMA OnceKeeps ==
    ASSUME IInv, Once!AtMostOnce, [Once!Next]_(Once!vars)
    PROVE  Once!AtMostOnce'
<1>1. /\ Waiting \in Nat /\ Tally \in Nat /\ gathered \in Nat
      /\ Waiting + Tally <= gathered
  BY OnceNumbers DEF Once!AtMostOnce, Waiting, Tally
<1>2. CASE Once!Gather
  <2>1. /\ gathered' \in Nat /\ gathered' >= gathered
        /\ Waiting' \in Waiting .. (Waiting + (gathered' - gathered)) /\ Tally' = Tally
    BY <1>2 DEF Once!Gather, Once!Written, Waiting, Tally
  <2>2. Waiting' + Tally <= gathered'
    BY <1>1, <2>1, GatherArith
  <2>3. Waiting' + Tally' <= gathered'
    BY <2>1, <2>2
  <2> QED
    BY <2>3 DEF Once!AtMostOnce, Waiting, Tally
<1>3. CASE Once!Count
  <2>1. Tally' = Tally + Waiting /\ Waiting' = 0 /\ gathered' = gathered
    BY <1>3 DEF Once!Count, Waiting, Tally
  <2>2. Waiting' + Tally' <= gathered'
    BY <1>1, <2>1
  <2> QED
    BY <2>2 DEF Once!AtMostOnce, Waiting, Tally
<1>4. CASE Once!Forget
  <2>1. /\ gathered' \in Nat /\ gathered' >= gathered /\ Tally' = 0
        /\ Waiting' \in 0 .. (Waiting + Tally + (gathered' - gathered))
    BY <1>4 DEF Once!Forget, Once!Written, Waiting, Tally
  <2>2. Waiting' + 0 <= gathered'
    BY <1>1, <2>1, ForgetArith
  <2>3. Waiting' + Tally' <= gathered'
    BY <2>1, <2>2
  <2> QED
    BY <2>3 DEF Once!AtMostOnce, Waiting, Tally
<1>5. CASE UNCHANGED Once!vars
  <2>1. Waiting' = Waiting /\ Tally' = Tally /\ gathered' = gathered
    BY <1>5 DEF Once!vars, Waiting, Tally
  <2>2. Waiting' + Tally' <= gathered'
    BY <1>1, <2>1
  <2> QED
    BY <2>2 DEF Once!AtMostOnce, Waiting, Tally
<1> QED
  BY <1>2, <1>3, <1>4, <1>5 DEF Once!Next

\* What the abstract specification promises, of the loop itself: the rows a mind
\* counts and those still waiting are never more than runs and sleep gathered,
\* though a killed loop leaves rows both in its mind and in its delta.
THEOREM CountedAtMostOnce == Spec => []Once!AtMostOnce
<1>1. Init => Once!AtMostOnce
  BY EvidenceCut DEF Init, Once!AtMostOnce
<1>2. IInv /\ Once!AtMostOnce /\ [Next]_vars => Once!AtMostOnce'
  BY NextRefines, OnceKeeps
<1> QED
  BY <1>1, <1>2, LoopInvariant, PTL DEF Spec

-----------------------------------------------------------------------------
(* Successes and failures                                                  *)

\* From m to w the successes of t grew by at most n more than its failures.
Bounded(m, w, t, n) == w[t].success + m[t].failure <= m[t].success + w[t].failure + n

\* However far the rows are folded into whatever mind.
Ahead(q, n) ==
    \A m \in Minds : \A t \in Targets : \A k \in 0 .. Len(q) :
      Bounded(m, Folding(m, q)[k], t, n)

Idle(q) == \A i \in 1 .. Len(q) : q[i].kind # "confirmed"

LEMMA Scores ==
    ASSUME NEW m \in Minds, NEW t \in Targets
    PROVE  m[t].success \in Nat /\ m[t].failure \in Nat /\ m[t].rows \in Nat
BY DEF Minds, Node

LEMMA BoundedSelf ==
    ASSUME NEW m \in Minds, NEW t \in Targets, NEW n \in Nat
    PROVE  Bounded(m, m, t, n)
BY Scores DEF Bounded

LEMMA BoundedTrans ==
    ASSUME NEW m \in Minds, NEW w \in Minds, NEW x \in Minds, NEW t \in Targets,
           NEW a \in Nat, NEW b \in Nat, Bounded(m, w, t, a), Bounded(w, x, t, b)
    PROVE  Bounded(m, x, t, a + b)
<1>1. /\ m[t].success \in Nat /\ m[t].failure \in Nat /\ w[t].success \in Nat
      /\ w[t].failure \in Nat /\ x[t].success \in Nat /\ x[t].failure \in Nat
  BY Scores
<1>2. /\ w[t].success + m[t].failure <= m[t].success + w[t].failure + a
      /\ x[t].success + w[t].failure <= w[t].success + x[t].failure + b
  BY DEF Bounded
<1> QED
  BY <1>1, <1>2 DEF Bounded

LEMMA BoundedMore ==
    ASSUME NEW m \in Minds, NEW w \in Minds, NEW t \in Targets,
           NEW a \in Nat, NEW b \in Nat, a <= b, Bounded(m, w, t, a)
    PROVE  Bounded(m, w, t, b)
BY Scores DEF Bounded

\* A failure more, with a success more or without, keeps the bound.
LEMMA BoundedFailure ==
    ASSUME NEW m \in Minds, NEW w \in Minds, NEW x \in Minds, NEW t \in Targets, NEW n \in Nat,
           Bounded(m, w, t, n), x[t].failure = w[t].failure + 1,
           x[t].success = w[t].success \/ x[t].success = w[t].success + 1
    PROVE  Bounded(m, x, t, n)
<1>1. /\ m[t].success \in Nat /\ m[t].failure \in Nat /\ w[t].success \in Nat
      /\ w[t].failure \in Nat
  BY Scores
<1>2. w[t].success + m[t].failure <= m[t].success + w[t].failure + n
  BY DEF Bounded
<1>3. x[t].success + m[t].failure <= m[t].success + x[t].failure + n
  BY <1>1, <1>2
<1> QED
  BY <1>3 DEF Bounded

\* A row that is no confirmation raises no success.
LEMMA IdleStep ==
    ASSUME NEW w \in Minds, NEW row \in Rows, row.kind # "confirmed", NEW t \in Targets
    PROVE  Bounded(w, Fold(w, row), t, 0)
<1> DEFINE x == Fold(w, row)
<1>0. x \in Minds
  BY FoldTyped
<1>1. x[t].success = w[t].success /\ x[t].failure \in {w[t].failure, w[t].failure + 1}
  <2>1. CASE IsEvidence(row)
    <3>1. row.target \in Targets
      BY <2>1 DEF IsEvidence, Rows, Cut
    <3> QED
      BY <2>1, <3>1 DEF Fold, Minds, Node
  <2>2. CASE /\ ~IsEvidence(row)
             /\ row.kind \in {"reorder", "confirmed", "wasted"} /\ w[row.target].rows > 0
    <3>1. row.target \in Targets
      BY <2>2 DEF Rows, Cut
    <3>2. Credits(row) = 0 /\ Debits(row) \in {0, 1}
      BY DEF Credits, Debits
    <3>3. /\ w[row.target].success + Credits(row) = w[row.target].success
          /\ w[row.target].failure + Debits(row)
               \in {w[row.target].failure, w[row.target].failure + 1}
      BY <3>1, <3>2, Scores
    <3> QED
      BY <2>2, <3>1, <3>3 DEF Fold, Minds, Node
  <2>3. CASE /\ ~IsEvidence(row)
             /\ ~(row.kind \in {"reorder", "confirmed", "wasted"} /\ w[row.target].rows > 0)
    BY <2>3 DEF Fold
  <2> QED
    BY <2>1, <2>2, <2>3
<1>2. /\ w[t].success \in Nat /\ w[t].failure \in Nat
  BY Scores
<1> HIDE DEF x
<1>3. x[t].success + w[t].failure <= w[t].success + x[t].failure + 0
  BY <1>1, <1>2
<1> QED
  BY <1>3 DEF Bounded, x

LEMMA IdleAhead ==
    ASSUME NEW q \in Seq(Rows), Idle(q)
    PROVE  Ahead(q, 0)
<1> SUFFICES ASSUME NEW m \in Minds, NEW t \in Targets
             PROVE  \A k \in 0 .. Len(q) : Bounded(m, Folding(m, q)[k], t, 0)
  BY DEF Ahead
<1> DEFINE g == Folding(m, q)
           Good == {k \in Nat : k <= Len(q) => Bounded(m, g[k], t, 0)}
<1>1. Len(q) \in Nat
  BY LenProperties
<1>2. /\ g[0] = m /\ \A n \in 1 .. Len(q) : g[n] = Fold(g[n - 1], q[n])
      /\ \A n \in 0 .. Len(q) : g[n] \in Minds
  BY FoldingSteps, FoldingTyped
<1> HIDE DEF g
<1>3. 0 \in Good
  BY <1>2, BoundedSelf
<1>4. ASSUME NEW n \in Nat, n \in Good PROVE n + 1 \in Good
  <2> SUFFICES ASSUME n + 1 <= Len(q) PROVE Bounded(m, g[n + 1], t, 0)
    OBVIOUS
  <2>1. n + 1 \in 1 .. Len(q) /\ n + 1 \in 0 .. Len(q) /\ (n + 1) - 1 = n /\ n \in 0 .. Len(q)
    BY <1>1
  <2>2. g[n + 1] = Fold(g[n], q[n + 1]) /\ g[n] \in Minds /\ g[n + 1] \in Minds
    BY <1>2, <2>1
  <2>3. q[n + 1] \in Rows /\ q[n + 1].kind # "confirmed"
    BY <2>1, ElementOfSeq DEF Idle
  <2>4. Bounded(g[n], g[n + 1], t, 0)
    BY <2>2, <2>3, IdleStep
  <2>5. Bounded(m, g[n], t, 0)
    BY <1>1, <1>4, <2>1
  <2>6. Bounded(m, g[n + 1], t, 0 + 0)
    BY <2>2, <2>4, <2>5, BoundedTrans
  <2> QED
    BY <2>6
<1>5. Nat \subseteq Good
  <2> HIDE DEF Good
  <2> QED
    BY <1>3, <1>4, SetInduction
<1> QED
  BY <1>1, <1>5 DEF g

\* The minds on the way through q \o r are those through q, then those through r.
LEMMA FoldingConcat ==
    ASSUME NEW m \in Minds, NEW q \in Seq(Rows), NEW r \in Seq(Rows)
    PROVE  /\ q \o r \in Seq(Rows) /\ Len(q \o r) = Len(q) + Len(r)
           /\ \A k \in 0 .. Len(q) : Folding(m, q \o r)[k] = Folding(m, q)[k]
           /\ \A k \in 0 .. Len(r) :
                Folding(m, q \o r)[Len(q) + k] = Folding(Compacted(m, q), r)[k]
<1> DEFINE w == q \o r
           a == Len(q)
           b == Len(r)
           g == Folding(m, w)
           u == Folding(m, q)
           c == Compacted(m, q)
           v == Folding(c, r)
<1>1. /\ a \in Nat /\ b \in Nat /\ w \in Seq(Rows) /\ Len(w) = a + b
      /\ \A i \in 1 .. (a + b) : w[i] = IF i <= a THEN q[i] ELSE r[i - a]
  BY LenProperties, ConcatProperties
<1> HIDE DEF w
<1>2. g[0] = m /\ \A n \in 1 .. (a + b) : g[n] = Fold(g[n - 1], w[n])
  <2>1. g[0] = m /\ \A n \in 1 .. Len(w) : g[n] = Fold(g[n - 1], w[n])
    BY <1>1, FoldingSteps
  <2> HIDE DEF g, a, b
  <2> QED
    BY <1>1, <2>1
<1>3. /\ u[0] = m /\ \A n \in 1 .. a : u[n] = Fold(u[n - 1], q[n])
      /\ c = u[a]
  BY FoldingSteps
<1>4. v[0] = c /\ \A n \in 1 .. b : v[n] = Fold(v[n - 1], r[n])
  BY FoldingSteps
<1> HIDE DEF g, u, v, a, b, c
<1>5. \A k \in 0 .. a : g[k] = u[k]
  <2> DEFINE Good == {k \in Nat : k <= a => g[k] = u[k]}
  <2>1. 0 \in Good
    BY <1>2, <1>3
  <2>2. ASSUME NEW n \in Nat, n \in Good PROVE n + 1 \in Good
    <3> SUFFICES ASSUME n + 1 <= a PROVE g[n + 1] = u[n + 1]
      OBVIOUS
    <3>1. n + 1 \in 1 .. (a + b) /\ n + 1 \in 1 .. a /\ (n + 1) - 1 = n /\ n <= a
      BY <1>1
    <3>2. g[n] = u[n] /\ w[n + 1] = q[n + 1]
      BY <1>1, <2>2, <3>1
    <3>3. g[n + 1] = Fold(g[n], w[n + 1])
      BY <1>2, <3>1
    <3>4. u[n + 1] = Fold(u[n], q[n + 1])
      BY <1>3, <3>1
    <3> QED
      BY <3>2, <3>3, <3>4
  <2>3. Nat \subseteq Good
    <3> HIDE DEF Good
    <3> QED
      BY <2>1, <2>2, SetInduction
  <2> QED
    BY <1>1, <2>3
<1>6. \A k \in 0 .. b : g[a + k] = v[k]
  <2> DEFINE Good == {k \in Nat : k <= b => g[a + k] = v[k]}
  <2>1. 0 \in Good
    <3>1. a \in 0 .. a /\ a + 0 = a
      BY <1>1
    <3> QED
      BY <1>3, <1>4, <1>5, <3>1
  <2>2. ASSUME NEW n \in Nat, n \in Good PROVE n + 1 \in Good
    <3> SUFFICES ASSUME n + 1 <= b PROVE g[a + (n + 1)] = v[n + 1]
      OBVIOUS
    <3> DEFINE i == a + (n + 1)
    <3>1. /\ i \in 1 .. (a + b) /\ n + 1 \in 1 .. b /\ (n + 1) - 1 = n /\ n <= b
          /\ i - 1 = a + n /\ ~(i <= a) /\ i - a = n + 1
      BY <1>1
    <3>2. g[a + n] = v[n] /\ w[i] = r[n + 1]
      BY <1>1, <2>2, <3>1
    <3>3. g[i] = Fold(g[a + n], w[i])
      BY <1>2, <3>1
    <3>4. v[n + 1] = Fold(v[n], r[n + 1])
      BY <1>4, <3>1
    <3> QED
      BY <3>2, <3>3, <3>4
  <2>3. Nat \subseteq Good
    <3> HIDE DEF Good
    <3> QED
      BY <2>1, <2>2, SetInduction
  <2> QED
    BY <1>1, <2>3
<1> QED
  BY <1>1, <1>5, <1>6 DEF w, a, b, g, u, v, c

LEMMA AheadConcat ==
    ASSUME NEW q \in Seq(Rows), NEW r \in Seq(Rows), NEW a \in Nat, NEW b \in Nat,
           Ahead(q, a), Ahead(r, b)
    PROVE  Ahead(q \o r, a + b)
<1> SUFFICES ASSUME NEW m \in Minds, NEW t \in Targets, NEW k \in 0 .. Len(q \o r)
             PROVE  Bounded(m, Folding(m, q \o r)[k], t, a + b)
  BY DEF Ahead
<1> DEFINE c == Compacted(m, q)
<1>1. /\ Len(q) \in Nat /\ Len(r) \in Nat /\ Len(q \o r) = Len(q) + Len(r)
      /\ \A n \in 0 .. Len(q) : Folding(m, q \o r)[n] = Folding(m, q)[n]
      /\ \A n \in 0 .. Len(r) : Folding(m, q \o r)[Len(q) + n] = Folding(c, r)[n]
  BY FoldingConcat, LenProperties
<1>2. /\ c \in Minds /\ c = Folding(m, q)[Len(q)]
      /\ \A n \in 0 .. Len(q) : Folding(m, q)[n] \in Minds
  BY FoldingTyped, FoldingSteps
<1>3. \A n \in 0 .. Len(r) : Folding(c, r)[n] \in Minds
  BY <1>2, FoldingTyped
<1> HIDE DEF c
<1>4. CASE k \in 0 .. Len(q)
  <2>1. Bounded(m, Folding(m, q)[k], t, a)
    BY <1>4 DEF Ahead
  <2>2. a <= a + b /\ a + b \in Nat
    OBVIOUS
  <2>3. Bounded(m, Folding(m, q)[k], t, a + b)
    BY <1>2, <1>4, <2>1, <2>2, BoundedMore
  <2> QED
    BY <1>1, <1>4, <2>3
<1>5. CASE ~(k \in 0 .. Len(q))
  <2> DEFINE n == k - Len(q)
  <2>1. n \in 0 .. Len(r) /\ k = Len(q) + n /\ Len(q) \in 0 .. Len(q)
    BY <1>1, <1>5
  <2>2. Bounded(m, c, t, a)
    BY <1>2, <2>1 DEF Ahead
  <2>3. Bounded(c, Folding(c, r)[n], t, b)
    BY <1>2, <2>1 DEF Ahead
  <2>4. Bounded(m, Folding(c, r)[n], t, a + b)
    BY <1>2, <1>3, <2>1, <2>2, <2>3, BoundedTrans
  <2> QED
    BY <1>1, <2>1, <2>4
<1> QED
  BY <1>4, <1>5

LEMMA AheadMore ==
    ASSUME NEW q \in Seq(Rows), NEW a \in Nat, NEW b \in Nat, Ahead(q, a)
    PROVE  Ahead(q, a + b)
<1> SUFFICES ASSUME NEW m \in Minds, NEW t \in Targets, NEW k \in 0 .. Len(q)
             PROVE  Bounded(m, Folding(m, q)[k], t, a + b)
  BY DEF Ahead
<1>1. Folding(m, q)[k] \in Minds /\ Bounded(m, Folding(m, q)[k], t, a)
  BY FoldingTyped DEF Ahead
<1>2. a + b \in Nat /\ a <= a + b
  OBVIOUS
<1> QED
  BY <1>1, <1>2, BoundedMore

LEMMA AheadPrefix ==
    ASSUME NEW q \in Seq(Rows), NEW n \in 0 .. Len(q), NEW a \in Nat, Ahead(q, a)
    PROVE  SubSeq(q, 1, n) \in Seq(Rows) /\ Ahead(SubSeq(q, 1, n), a)
<1> DEFINE p == SubSeq(q, 1, n)
           r == SubSeq(q, n + 1, Len(q))
<1>1. Len(q) \in Nat /\ \A i \in 1 .. Len(q) : q[i] \in Rows
  BY LenProperties, ElementOfSeq
<1>2. p \in Seq(Rows) /\ r \in Seq(Rows)
  BY <1>1, SubSeqProperties
<1>3. p \o r = q
  <2>1. 1 \in 1 .. Len(q) + 1 /\ n \in 1 - 1 .. Len(q) /\ Len(q) \in n .. Len(q)
    BY <1>1
  <2>2. p \o r = SubSeq(q, 1, Len(q))
    BY <2>1, ConcatAdjacentSubSeq
  <2> QED
    BY <2>2, SubSeqFull
<1> HIDE DEF p, r
<1>4. Ahead(p, a)
  <2> SUFFICES ASSUME NEW m \in Minds, NEW t \in Targets, NEW k \in 0 .. Len(p)
               PROVE  Bounded(m, Folding(m, p)[k], t, a)
    BY DEF Ahead
  <2>1. Len(p) \in Nat /\ Len(r) \in Nat /\ Len(p \o r) = Len(p) + Len(r)
        /\ Folding(m, p \o r)[k] = Folding(m, p)[k]
    BY <1>2, FoldingConcat, LenProperties
  <2>2. k \in 0 .. Len(q)
    BY <1>1, <1>3, <2>1
  <2> QED
    BY <1>3, <2>1, <2>2 DEF Ahead
<1> QED
  BY <1>2, <1>4 DEF p

\* What one event does to the scores of t.
LEMMA EventStep ==
    ASSUME NEW w \in Minds, NEW e \in Event, NEW t \in Targets,
           NEW x, x = Fold(w, Row(e.kind, e.target))
    PROVE  /\ x \in Minds /\ x[t].rows = w[t].rows
           /\ e.target # t \/ w[t].rows = 0 \/ e.kind = "look" => x[t] = w[t]
           /\ e.target = t /\ w[t].rows > 0 /\ e.kind = "confirmed" =>
                x[t].success = w[t].success + 1 /\ x[t].failure = w[t].failure
           /\ e.target = t /\ w[t].rows > 0 /\ e.kind \in {"reorder", "wasted"} =>
                x[t].success = w[t].success /\ x[t].failure = w[t].failure + 1
<1> DEFINE row == Row(e.kind, e.target)
<1>1. /\ row \in Rows /\ row.kind = e.kind /\ row.target = e.target /\ e.target \in Targets
      /\ e.kind \in {"look", "reorder", "confirmed", "wasted"} /\ ~IsEvidence(row)
  BY DEF Event, Row, Rows, IsEvidence
<1>2. x \in Minds
  BY <1>1, FoldTyped
<1> HIDE DEF row
<1>3. x = Fold(w, row)
  BY DEF row
<1>4. CASE e.kind # "look" /\ w[e.target].rows > 0
  <2>1. x = [w EXCEPT ![e.target].success = @ + Credits(row),
                      ![e.target].failure = @ + Debits(row)]
    BY <1>1, <1>3, <1>4 DEF Fold
  <2>2. /\ e.kind = "confirmed" => Credits(row) = 1 /\ Debits(row) = 0
        /\ e.kind \in {"reorder", "wasted"} => Credits(row) = 0 /\ Debits(row) = 1
    BY <1>1 DEF Credits, Debits, Refuted
  <2>3. CASE e.target = t
    <3>1. /\ x[t].rows = w[t].rows /\ x[t].success = w[t].success + Credits(row)
          /\ x[t].failure = w[t].failure + Debits(row)
      BY <2>1, <2>3 DEF Minds, Node
    <3>2. /\ w[t].success + 0 = w[t].success /\ w[t].failure + 0 = w[t].failure
          /\ w[t].rows > 0 => w[t].rows # 0
      BY Scores
    <3> QED
      BY <1>2, <1>4, <2>2, <2>3, <3>1, <3>2
  <2>4. CASE e.target # t
    <3>1. x[t] = w[t]
      BY <2>1, <2>4 DEF Minds
    <3> QED
      BY <1>2, <2>4, <3>1
  <2> QED
    BY <2>3, <2>4
<1>5. CASE e.kind = "look" \/ ~(w[e.target].rows > 0)
  <2>1. x = w
    BY <1>1, <1>3, <1>5 DEF Fold
  <2>2. e.target = t /\ w[t].rows > 0 => e.kind = "look"
    BY <1>5
  <2> QED
    BY <1>2, <2>1, <2>2
<1> QED
  BY <1>4, <1>5

\* The events of a run: every confirmation follows its own reorder, which is one
\* failure more; only the deque that lost events may begin with a confirmation.
LEMMA EventsAhead ==
    ASSUME NEW q \in Seq(Event), NEW d \in Nat, Backed(q, d)
    PROVE  Ahead(EventRows(q), IF d > 0 THEN 1 ELSE 0)
<1> DEFINE D == IF d > 0 THEN 1 ELSE 0
           r == EventRows(q)
<1>0. D \in Nat /\ (d > 0 => D = 1)
  OBVIOUS
<1> HIDE DEF D
<1>1. /\ r \in Seq(Rows) /\ Len(r) = Len(q) /\ Len(q) \in Nat
      /\ \A i \in 1 .. Len(q) : r[i] = Row(q[i].kind, q[i].target) /\ q[i] \in Event
  BY EventRowsTyped, LenProperties, ElementOfSeq
<1> HIDE DEF r
<1> SUFFICES ASSUME NEW m \in Minds, NEW t \in Targets
             PROVE  \A k \in 0 .. Len(q) : Bounded(m, Folding(m, r)[k], t, D)
  BY <1>1 DEF Ahead, D, r
<1> DEFINE g == Folding(m, r)
<1>2. /\ g[0] = m /\ \A n \in 1 .. Len(q) : g[n] = Fold(g[n - 1], r[n])
      /\ \A n \in 0 .. Len(q) : g[n] \in Minds
  <2>1. /\ g[0] = m /\ \A n \in 1 .. Len(r) : g[n] = Fold(g[n - 1], r[n])
        /\ \A n \in 0 .. Len(r) : g[n] \in Minds
    BY <1>1, FoldingSteps, FoldingTyped
  <2> HIDE DEF g
  <2> QED
    BY <1>1, <2>1
<1> HIDE DEF g
<1>3. ASSUME NEW n \in 1 .. Len(q)
      PROVE  /\ n - 1 \in 0 .. Len(q) /\ q[n] \in Event /\ g[n - 1] \in Minds /\ g[n] \in Minds
             /\ g[n][t].rows = g[n - 1][t].rows
             /\ q[n].target # t \/ g[n - 1][t].rows = 0 \/ q[n].kind = "look" => g[n][t] = g[n - 1][t]
             /\ q[n].target = t /\ g[n - 1][t].rows > 0 /\ q[n].kind = "confirmed" =>
                  g[n][t].success = g[n - 1][t].success + 1 /\ g[n][t].failure = g[n - 1][t].failure
             /\ q[n].target = t /\ g[n - 1][t].rows > 0 /\ q[n].kind \in {"reorder", "wasted"} =>
                  g[n][t].success = g[n - 1][t].success /\ g[n][t].failure = g[n - 1][t].failure + 1
  <2>1. n - 1 \in 0 .. Len(q) /\ n \in 0 .. Len(q)
    BY <1>1
  <2>2. g[n - 1] \in Minds /\ g[n] \in Minds /\ q[n] \in Event
    BY <1>1, <1>2, <2>1
  <2>3. g[n] = Fold(g[n - 1], Row(q[n].kind, q[n].target))
    BY <1>1, <1>2
  <2> DEFINE x == g[n]
             w == g[n - 1]
             e == q[n]
  <2>4. w \in Minds /\ e \in Event /\ x = Fold(w, Row(e.kind, e.target)) /\ x \in Minds
    BY <2>2, <2>3
  <2> HIDE DEF x, w, e
  <2>5. /\ x[t].rows = w[t].rows
        /\ e.target # t \/ w[t].rows = 0 \/ e.kind = "look" => x[t] = w[t]
        /\ e.target = t /\ w[t].rows > 0 /\ e.kind = "confirmed" =>
             x[t].success = w[t].success + 1 /\ x[t].failure = w[t].failure
        /\ e.target = t /\ w[t].rows > 0 /\ e.kind \in {"reorder", "wasted"} =>
             x[t].success = w[t].success /\ x[t].failure = w[t].failure + 1
    BY <2>4, EventStep
  <2> QED
    BY <2>1, <2>2, <2>5 DEF x, w, e
<1> DEFINE Good == {n \in Nat : \A k \in 0 .. n : k <= Len(q) =>
                      Bounded(m, g[k], t, D)}
<1>5. 0 \in Good
  <2>1. Bounded(m, g[0], t, D)
    BY <1>0, <1>2, BoundedSelf
  <2>2. \A k \in 0 .. 0 : k = 0
    OBVIOUS
  <2> QED
    BY <2>1, <2>2
<1>6. ASSUME NEW n \in Nat, n \in Good PROVE n + 1 \in Good
  <2>1. \A k \in 0 .. (n + 1) : k \in 0 .. n \/ k = n + 1
    OBVIOUS
  <2> SUFFICES ASSUME n + 1 <= Len(q) PROVE Bounded(m, g[n + 1], t, D)
    BY <1>6, <2>1
  <2>2. n + 1 \in 1 .. Len(q) /\ (n + 1) - 1 = n /\ n \in 0 .. n /\ n <= Len(q)
    BY <1>1
  <2>3. \A k \in 0 .. n : k \in 0 .. Len(q) /\ Bounded(m, g[k], t, D)
    BY <1>1, <1>6, <2>2
  <2> HIDE DEF Good
  <2> DEFINE e == q[n + 1]
  <2>4. /\ e \in Event /\ g[n] \in Minds /\ g[n + 1] \in Minds
        /\ g[n + 1][t].rows = g[n][t].rows
        /\ e.target # t \/ g[n][t].rows = 0 \/ e.kind = "look" => g[n + 1][t] = g[n][t]
        /\ e.target = t /\ g[n][t].rows > 0 /\ e.kind = "confirmed" =>
             g[n + 1][t].success = g[n][t].success + 1 /\ g[n + 1][t].failure = g[n][t].failure
        /\ e.target = t /\ g[n][t].rows > 0 /\ e.kind \in {"reorder", "wasted"} =>
             g[n + 1][t].success = g[n][t].success /\ g[n + 1][t].failure = g[n][t].failure + 1
    BY <1>3, <2>2
  <2>5. Bounded(m, g[n], t, D)
    BY <2>2, <2>3
  <2>6. /\ g[n][t].success \in Nat /\ g[n][t].failure \in Nat /\ g[n][t].rows \in Nat
        /\ m[t].success \in Nat /\ m[t].failure \in Nat
    BY <2>4, Scores
  <2>7. CASE e.target # t \/ g[n][t].rows = 0 \/ e.kind = "look"
    <3>1. g[n + 1][t] = g[n][t]
      BY <2>4, <2>7
    <3> QED
      BY <2>5, <3>1 DEF Bounded
  <2>8. CASE e.target = t /\ g[n][t].rows > 0 /\ e.kind \in {"reorder", "wasted"}
    <3>1. g[n + 1][t].success = g[n][t].success /\ g[n + 1][t].failure = g[n][t].failure + 1
      BY <2>4, <2>8
    <3> QED
      BY <1>0, <2>4, <2>5, <3>1, BoundedFailure
  <2>9. CASE e.target = t /\ g[n][t].rows > 0 /\ e.kind = "confirmed"
    <3>1. g[n + 1][t].success = g[n][t].success + 1 /\ g[n + 1][t].failure = g[n][t].failure
      BY <2>4, <2>9
    <3>2. \/ n \in 1 .. Len(q) /\ Same(q[n], e)
          \/ n - 1 \in 1 .. Len(q) /\ Same(q[n - 1], e) /\ q[n].kind = "look"
          \/ d > 0 /\ n = 0
          \/ d > 0 /\ n = 1 /\ q[1].kind = "look"
      <4> DEFINE i == n + 1
      <4>1. /\ i \in 1 .. Len(q) /\ i - 1 = n /\ i - 2 = n - 1 /\ (i = 1 => n = 0)
            /\ (i = 2 => n = 1)
        BY <2>2
      <4> HIDE DEF i
      <4>2. \/ i - 1 \in 1 .. Len(q) /\ Same(q[i - 1], q[i])
            \/ i - 2 \in 1 .. Len(q) /\ Same(q[i - 2], q[i]) /\ q[i - 1].kind = "look"
            \/ d > 0 /\ i = 1
            \/ d > 0 /\ i = 2 /\ q[1].kind = "look"
        <5>1. q[i].kind \in {"confirmed", "wasted"}
          BY <2>9 DEF i
        <5> QED
          BY <4>1, <5>1 DEF Backed
      <4>3. q[i] = e
        BY DEF i
      <4> QED
        BY <4>1, <4>2, <4>3
    <3>3. CASE n \in 1 .. Len(q) /\ Same(q[n], e)
      <4>1. q[n].kind = "reorder" /\ q[n].target = t
        BY <2>4, <2>9, <3>3 DEF Same, Event
      <4>2. /\ n - 1 \in 0 .. n /\ g[n - 1] \in Minds /\ g[n][t].rows = g[n - 1][t].rows
            /\ g[n - 1][t].rows > 0 =>
                 g[n][t].success = g[n - 1][t].success /\ g[n][t].failure = g[n - 1][t].failure + 1
        BY <1>3, <3>3, <4>1
      <4>3. /\ g[n][t].success = g[n - 1][t].success /\ g[n][t].failure = g[n - 1][t].failure + 1
            /\ Bounded(m, g[n - 1], t, D)
            /\ g[n - 1][t].success \in Nat /\ g[n - 1][t].failure \in Nat
        BY <2>3, <2>9, <4>2, Scores
      <4>4. /\ g[n + 1][t].success = g[n - 1][t].success + 1
            /\ g[n + 1][t].failure = g[n - 1][t].failure + 1
        BY <3>1, <4>3
      <4> QED
        BY <1>0, <2>4, <4>2, <4>3, <4>4, BoundedFailure
    <3>4. CASE n - 1 \in 1 .. Len(q) /\ Same(q[n - 1], e) /\ q[n].kind = "look"
      <4> DEFINE k == n - 1
      <4>0. k \in 1 .. Len(q) /\ n \in 1 .. Len(q) /\ k - 1 \in 0 .. n /\ Same(q[k], e)
        BY <2>2, <3>4
      <4>1. q[k].kind = "reorder" /\ q[k].target = t
        BY <2>4, <2>9, <4>0 DEF Same, Event
      <4>2. g[n][t] = g[k][t] /\ g[n][t].rows = g[k][t].rows
        BY <1>3, <3>4, <4>0
      <4> HIDE DEF k
      <4>3. /\ g[k - 1] \in Minds /\ g[k][t].rows = g[k - 1][t].rows
            /\ g[k - 1][t].rows > 0 =>
                 g[k][t].success = g[k - 1][t].success /\ g[k][t].failure = g[k - 1][t].failure + 1
        BY <1>3, <4>0, <4>1
      <4>4. /\ g[k][t].success = g[k - 1][t].success /\ g[k][t].failure = g[k - 1][t].failure + 1
            /\ Bounded(m, g[k - 1], t, D)
            /\ g[k - 1][t].success \in Nat /\ g[k - 1][t].failure \in Nat
        BY <2>3, <2>9, <4>0, <4>2, <4>3, Scores
      <4>5. /\ g[n][t].success = g[k - 1][t].success
            /\ g[n][t].failure = g[k - 1][t].failure + 1
        BY <4>2, <4>4
      <4>6. /\ g[n + 1][t].success = g[k - 1][t].success + 1
            /\ g[n + 1][t].failure = g[k - 1][t].failure + 1
        BY <3>1, <4>5
      <4> QED
        BY <1>0, <2>4, <4>3, <4>4, <4>6, BoundedFailure
    <3>5. CASE d > 0 /\ n = 0
      <4>1. g[n][t].success = m[t].success /\ g[n][t].failure = m[t].failure /\ D = 1
        BY <1>0, <1>2, <3>5
      <4> QED
        BY <2>6, <3>1, <4>1 DEF Bounded
    <3>6. CASE d > 0 /\ n = 1 /\ q[1].kind = "look"
      <4>1. 1 \in 1 .. Len(q) /\ 1 - 1 = 0
        BY <2>2, <3>6
      <4>2. g[1][t] = g[0][t]
        BY <1>3, <3>6, <4>1
      <4>3. g[n][t].success = m[t].success /\ g[n][t].failure = m[t].failure /\ D = 1
        BY <1>0, <1>2, <3>6, <4>2
      <4> QED
        BY <2>6, <3>1, <4>3 DEF Bounded
    <3> QED
      BY <3>2, <3>3, <3>4, <3>5, <3>6
  <2>10. \/ e.target # t \/ g[n][t].rows = 0 \/ e.kind = "look"
         \/ e.target = t /\ g[n][t].rows > 0 /\ e.kind \in {"reorder", "wasted"}
         \/ e.target = t /\ g[n][t].rows > 0 /\ e.kind = "confirmed"
    <3>1. g[n][t].rows = 0 \/ g[n][t].rows > 0
      BY <2>6
    <3>2. e.kind \in {"look", "reorder", "confirmed", "wasted"}
      BY <2>4 DEF Event
    <3> QED
      BY <3>1, <3>2
  <2> QED
    BY <2>7, <2>8, <2>9, <2>10
<1>7. Nat \subseteq Good
  <2> HIDE DEF Good
  <2> QED
    BY <1>5, <1>6, SetInduction
<1>8. ASSUME NEW k \in 0 .. Len(q) PROVE Bounded(m, g[k], t, D)
  <2>1. k \in Nat /\ k \in 0 .. k /\ k <= Len(q)
    BY <1>1
  <2> QED
    BY <1>7, <2>1
<1> QED
  BY <1>8 DEF g

-----------------------------------------------------------------------------
(* What is written, and by how much it is ahead                            *)

Whole(q) == \A i \in 1 .. Len(q) : q[i].kind # "torn"

Loss(s) == IF dropped[s] > 0 THEN 1 ELSE 0

LEMMA EmptyAhead == Idle(<<>>) /\ Whole(<<>>) /\ <<>> \in Seq(Rows) /\ Ahead(<<>>, 0)
<1>1. Idle(<<>>) /\ Whole(<<>>) /\ <<>> \in Seq(Rows)
  BY EmptySeq DEF Idle, Whole
<1> QED
  BY <1>1, IdleAhead

LEMMA IdleConcat ==
    ASSUME NEW q \in Seq(Rows), NEW r \in Seq(Rows)
    PROVE  /\ q \o r \in Seq(Rows)
           /\ Idle(q) /\ Idle(r) => Idle(q \o r)
           /\ Whole(q) /\ Whole(r) => Whole(q \o r)
<1> DEFINE w == q \o r
<1>1. /\ Len(q) \in Nat /\ Len(r) \in Nat /\ w \in Seq(Rows) /\ Len(w) = Len(q) + Len(r)
      /\ \A i \in 1 .. (Len(q) + Len(r)) : w[i] = IF i <= Len(q) THEN q[i] ELSE r[i - Len(q)]
  BY LenProperties, ConcatProperties
<1> HIDE DEF w
<1>2. ASSUME NEW i \in 1 .. Len(w)
      PROVE  \/ i \in 1 .. Len(q) /\ w[i] = q[i]
             \/ i - Len(q) \in 1 .. Len(r) /\ w[i] = r[i - Len(q)]
  <2>1. i <= Len(q) \/ ~(i <= Len(q))
    OBVIOUS
  <2> QED
    BY <1>1, <2>1
<1> QED
  BY <1>1, <1>2 DEF Idle, Whole, w

LEMMA IdlePart ==
    ASSUME NEW r \in Seq(Rows)
    PROVE  /\ \A n \in 0 .. Len(r) :
                /\ SubSeq(r, 1, n) \in Seq(Rows)
                /\ Idle(r) => Idle(SubSeq(r, 1, n))
                /\ Whole(r) => Whole(SubSeq(r, 1, n))
           /\ r # <<>> => /\ Tail(r) \in Seq(Rows)
                          /\ Idle(r) => Idle(Tail(r))
                          /\ Whole(r) => Whole(Tail(r))
<1>1. Len(r) \in Nat /\ \A i \in 1 .. Len(r) : r[i] \in Rows
  BY LenProperties, ElementOfSeq
<1>2. ASSUME NEW n \in 0 .. Len(r)
      PROVE  /\ SubSeq(r, 1, n) \in Seq(Rows)
             /\ Idle(r) => Idle(SubSeq(r, 1, n))
             /\ Whole(r) => Whole(SubSeq(r, 1, n))
  <2> DEFINE p == SubSeq(r, 1, n)
  <2>1. p \in Seq(Rows) /\ Len(p) = n /\ \A i \in 1 .. n : p[i] = r[i]
    BY <1>1, SubSeqProperties
  <2>2. \A i \in 1 .. n : i \in 1 .. Len(r)
    BY <1>1
  <2> HIDE DEF p
  <2>3. (Idle(r) => Idle(p)) /\ (Whole(r) => Whole(p))
    BY <2>1, <2>2 DEF Idle, Whole
  <2> QED
    BY <2>1, <2>3 DEF p
<1>3. ASSUME r # <<>>
      PROVE  /\ Tail(r) \in Seq(Rows)
             /\ Idle(r) => Idle(Tail(r))
             /\ Whole(r) => Whole(Tail(r))
  <2> DEFINE p == Tail(r)
  <2>1. p \in Seq(Rows) /\ Len(p) = Len(r) - 1 /\ \A i \in 1 .. Len(p) : p[i] = r[i + 1]
    BY <1>3, HeadTailProperties
  <2>2. \A i \in 1 .. Len(p) : i + 1 \in 1 .. Len(r)
    BY <1>1, <2>1
  <2> HIDE DEF p
  <2>3. (Idle(r) => Idle(p)) /\ (Whole(r) => Whole(p))
    BY <2>1, <2>2 DEF Idle, Whole
  <2> QED
    BY <2>1, <2>3 DEF p
<1> QED
  BY <1>2, <1>3

LEMMA RowsForIdle ==
    ASSUME NEW kind \in {"record", "product"}, NEW S \in SUBSET Targets
    PROVE  RowsFor(kind, S) \in Seq(Rows) /\ Idle(RowsFor(kind, S)) /\ Whole(RowsFor(kind, S))
<1>1. IsFiniteSet(S)
  BY MemoryLoopAssumption, FS_Subset DEF MemoryLoopAssumption
<1>2. Cardinality(S) \in Nat
  BY <1>1, Listed
<1> DEFINE q == RowsFor(kind, S)
<1>3. q = [i \in 1 .. Cardinality(S) |-> Row(kind, SetToSeq(S)[i])] /\ q \in Seq(Rows)
  BY RowsForTyped DEF RowsFor
<1>4. Len(q) = Cardinality(S) /\ \A i \in 1 .. Len(q) : q[i].kind = kind
  BY <1>2, <1>3, LenProperties DEF Row
<1> HIDE DEF q
<1>5. Idle(q) /\ Whole(q)
  BY <1>4 DEF Idle, Whole
<1> QED
  BY <1>3, <1>5 DEF q

\* The rows of a run are whole, confirm nothing unless hints may rank, and are
\* ahead by one at most, and only if its deque has lost events.
LEMMA RunRowsAhead ==
    ASSUME RuntimeInv, NEW s \in Seeds, NEW R \in SUBSET Targets
    PROVE  /\ RunRows(s, R) \in Seq(Rows) /\ Whole(RunRows(s, R))
           /\ Ahead(RunRows(s, R), Loss(s))
           /\ mode # "assist" => Idle(RunRows(s, R))
<1> DEFINE q == events[s]
           a == RowsFor("record", R)
           b == EventRows(q)
           c == <<[kind |-> "summary"]>>
<1>1. /\ q \in Seq(Event) /\ dropped[s] \in Nat /\ Backed(q, dropped[s])
      /\ mode # "assist" => Quiet(q)
  BY DEF RuntimeInv, RuntimeType
<1> HIDE DEF q
<1>2. Loss(s) \in Nat /\ Loss(s) = IF dropped[s] > 0 THEN 1 ELSE 0
  BY DEF Loss
<1>3. a \in Seq(Rows) /\ Idle(a) /\ Whole(a) /\ Ahead(a, 0)
  BY RowsForIdle, IdleAhead
<1>4. /\ b \in Seq(Rows) /\ Whole(b) /\ Ahead(b, Loss(s))
      /\ mode # "assist" => Idle(b)
  <2>1. b \in Seq(Rows) /\ Len(b) = Len(q) /\ \A i \in 1 .. Len(q) : b[i] = Row(q[i].kind, q[i].target)
    BY <1>1, EventRowsTyped
  <2>2. \A i \in 1 .. Len(q) : q[i] \in Event
    BY <1>1, ElementOfSeq
  <2>4. Ahead(b, IF dropped[s] > 0 THEN 1 ELSE 0)
    BY <1>1, EventsAhead
  <2> HIDE DEF b
  <2>3. ASSUME NEW i \in 1 .. Len(q)
        PROVE  b[i].kind = q[i].kind /\ q[i].kind \in {"look", "reorder", "confirmed", "wasted"}
    <3>1. b[i] = Row(q[i].kind, q[i].target) /\ q[i] \in Event
      BY <2>1, <2>2
    <3>2. b[i].kind = q[i].kind
      BY <3>1 DEF Row
    <3>3. q[i].kind \in {"look", "reorder", "confirmed", "wasted"}
      BY <3>1 DEF Event
    <3> QED
      BY <3>2, <3>3
  <2>5. Whole(b) /\ (mode # "assist" => Idle(b))
    BY <1>1, <2>1, <2>3 DEF Whole, Idle, Quiet
  <2> QED
    BY <1>2, <2>1, <2>4, <2>5
<1>5. c \in Seq(Rows) /\ Idle(c) /\ Whole(c) /\ Ahead(c, 0)
  <2>1. c \in Seq(Rows) /\ Len(c) = 1 /\ c[1] = [kind |-> "summary"]
    BY DEF Rows
  <2> HIDE DEF c
  <2>2. Idle(c) /\ Whole(c)
    BY <2>1 DEF Idle, Whole
  <2> QED
    BY <2>1, <2>2, IdleAhead
<1>6. RunRows(s, R) = IF mode = "off" THEN <<>> ELSE a \o b \o c
  BY DEF RunRows, q
<1> HIDE DEF a, b, c
<1>7. /\ a \o b \in Seq(Rows) /\ Whole(a \o b) /\ Ahead(a \o b, 0 + Loss(s))
      /\ mode # "assist" => Idle(a \o b)
  BY <1>2, <1>3, <1>4, IdleConcat, AheadConcat
<1>8. 0 + Loss(s) = Loss(s) /\ Loss(s) + 0 = Loss(s)
  BY <1>2
<1> DEFINE w == a \o b
<1>9. w \in Seq(Rows) /\ Whole(w) /\ Ahead(w, Loss(s)) /\ (mode # "assist" => Idle(w))
  BY <1>7, <1>8
<1> HIDE DEF w
<1>10. /\ w \o c \in Seq(Rows) /\ Whole(w \o c) /\ Ahead(w \o c, Loss(s) + 0)
       /\ mode # "assist" => Idle(w \o c)
  BY <1>2, <1>5, <1>9, IdleConcat, AheadConcat
<1>11. Ahead(<<>>, Loss(s))
  <2>1. <<>> \in Seq(Rows) /\ Ahead(<<>>, 0) /\ Ahead(w, Loss(s))
    BY <1>9, EmptyAhead
  <2>2. Ahead(SubSeq(w, 1, 0), Loss(s))
    BY <1>2, <1>9, AheadPrefix, LenProperties
  <2>3. SubSeq(w, 1, 0) = <<>>
    BY <1>9, SubSeqEmpty
  <2> QED
    BY <2>2, <2>3
<1>12. CASE mode = "off"
  BY <1>6, <1>11, <1>12, EmptyAhead
<1>13. CASE mode # "off"
  BY <1>6, <1>8, <1>10, <1>13 DEF w
<1> QED
  BY <1>12, <1>13

LEMMA SleepRowsAhead ==
    ASSUME NEW P \in Proposable
    PROVE  /\ SleepRows(P) \in Seq(Rows) /\ Whole(SleepRows(P)) /\ Idle(SleepRows(P))
           /\ Ahead(SleepRows(P), 0)
<1> DEFINE a == RowsFor("product", {t \in Targets : Ranks(t)})
           b == RowsFor("product", P)
<1>1. P \in SUBSET Targets /\ {t \in Targets : Ranks(t)} \in SUBSET Targets
  BY DEF Proposable
<1>2. a \in Seq(Rows) /\ Idle(a) /\ Whole(a) /\ b \in Seq(Rows) /\ Idle(b) /\ Whole(b)
  BY <1>1, RowsForIdle
<1> HIDE DEF a, b
<1>3. a \o b \in Seq(Rows) /\ Idle(a \o b) /\ Whole(a \o b)
  BY <1>2, IdleConcat
<1>4. SleepRows(P) = a \o b
  BY DEF SleepRows, a, b
<1> QED
  BY <1>3, <1>4, IdleAhead

\* A line cut short swallows a row only of what confirms nothing.
LEMMA WrittenAhead ==
    ASSUME NEW q \in Seq(Rows), NEW r \in Seq(Rows), NEW a \in Nat, NEW b \in Nat,
           Ahead(q, a), Ahead(r, b), Whole(q) \/ Idle(r)
    PROVE  /\ Ahead(Written(q, r), a + b)
           /\ Whole(q) /\ Whole(r) => Whole(Written(q, r))
<1>1. CASE q # <<>> /\ r # <<>> /\ Last(q) = Cut
  <2>1. /\ Len(q) \in Nat \ {0} /\ Front(q) = SubSeq(q, 1, Len(q) - 1) /\ q[Len(q)] = Cut
    BY <1>1, EmptySeq, LenProperties DEF Front, Last
  <2>2. ~Whole(q)
    <3>1. Cut.kind = "torn"
      BY DEF Cut
    <3> QED
      BY <2>1, <3>1 DEF Whole
  <2>3. Front(q) \in Seq(Rows) /\ Ahead(Front(q), a)
    <3>1. Len(q) - 1 \in 0 .. Len(q)
      BY <2>1
    <3> QED
      BY <2>1, <3>1, AheadPrefix
  <2>4. Tail(r) \in Seq(Rows) /\ Idle(Tail(r))
    BY <1>1, <2>2, IdlePart
  <2>5. Ahead(Front(q) \o Tail(r), a + 0)
    BY <2>3, <2>4, IdleAhead, AheadConcat
  <2>6. Front(q) \o Tail(r) \in Seq(Rows)
    BY <2>3, <2>4, IdleConcat
  <2>7. Ahead(Front(q) \o Tail(r), a + b)
    <3>1. a + 0 = a
      OBVIOUS
    <3>2. Ahead(Front(q) \o Tail(r), a)
      BY <2>5, <3>1
    <3> QED
      BY <2>6, <3>2, AheadMore
  <2> QED
    BY <1>1, <2>2, <2>7 DEF Written
<1>2. CASE ~(q # <<>> /\ r # <<>> /\ Last(q) = Cut)
  BY <1>2, AheadConcat, IdleConcat DEF Written
<1> QED
  BY <1>1, <1>2

LEMMA CutShortAhead ==
    ASSUME NEW q \in Seq(Rows), NEW r \in Seq(Rows), NEW a \in Nat, NEW b \in Nat,
           Ahead(q, a), Ahead(r, b), Whole(q) \/ Idle(r), NEW w \in CutShort(q, r)
    PROVE  Ahead(w, a + b)
<1>1. Len(r) \in Nat
  BY LenProperties
<1>2. PICK k \in 0 .. Len(r) : \/ w = Written(q, SubSeq(r, 1, k))
                               \/ w = Written(q, Append(SubSeq(r, 1, k), Cut))
  BY <1>1 DEF CutShort
<1> DEFINE p == SubSeq(r, 1, k)
<1>3. p \in Seq(Rows) /\ Ahead(p, b) /\ (Idle(r) => Idle(p))
  BY AheadPrefix, IdlePart
<1> HIDE DEF p
<1>4. /\ Append(p, Cut) \in Seq(Rows) /\ Ahead(Append(p, Cut), b)
      /\ Idle(r) => Idle(Append(p, Cut))
  <2>1. Append(p, Cut) = p \o <<Cut>>
    BY <1>3, EvidenceCut, AppendIsConcat
  <2>2. <<Cut>> \in Seq(Rows) /\ Idle(<<Cut>>) /\ Ahead(<<Cut>>, 0)
    <3> DEFINE c == <<Cut>>
    <3>1. c \in Seq(Rows) /\ Len(c) = 1 /\ c[1] = Cut /\ Cut.kind = "torn"
      BY DEF Rows, Cut
    <3> HIDE DEF c
    <3>2. Idle(c)
      BY <3>1 DEF Idle
    <3> QED
      BY <3>1, <3>2, IdleAhead DEF c
  <2>3. /\ p \o <<Cut>> \in Seq(Rows) /\ Ahead(p \o <<Cut>>, b + 0)
        /\ Idle(r) => Idle(p \o <<Cut>>)
    BY <1>3, <2>2, IdleConcat, AheadConcat
  <2>4. b + 0 = b
    OBVIOUS
  <2> QED
    BY <2>1, <2>3, <2>4
<1>5. PICK x \in Seq(Rows) : w = Written(q, x) /\ Ahead(x, b) /\ (Idle(r) => Idle(x))
  BY <1>2, <1>3, <1>4 DEF p
<1> QED
  BY <1>5, WrittenAhead

-----------------------------------------------------------------------------
(* A mind is never ahead                                                   *)

MindAhead(k) == \A t \in Targets : mind[t].success <= mind[t].failure + k

\* How much of the runs that lost events is in the delta, and how much in the
\* mind.  Until the delta is cleared a killed loop has the same runs in both, and
\* a first generation then builds on no mind.
Shared(j, k) ==
    /\ Ahead(delta, j) /\ MindAhead(k)
    /\ stage \notin {"off", "clear"} /\ turn # 0 => j + k <= overrun

LeadInv ==
    /\ stage # "off" => mode = ModeOf(turn)
    /\ stage # "off" /\ turn # 0 => Whole(delta)
    /\ \E j, k \in 0 .. overrun : Shared(j, k)

LEMMA LeadInit == Init => LeadInv
<1> SUFFICES ASSUME Init PROVE LeadInv
  OBVIOUS
<1>1. stage = "off" /\ delta = <<>> /\ mind = NoMind /\ overrun = 0
  BY DEF Init
<1>2. MindAhead(0)
  BY <1>1 DEF MindAhead, NoMind
<1>3. Shared(0, 0)
  BY <1>1, <1>2, EmptyAhead DEF Shared
<1> QED
  BY <1>1, <1>3 DEF LeadInv

\* The steps that leave the files alone, and the turn.
LEMMA LeadStays ==
    ASSUME LeadInv, UNCHANGED <<mode, turn, delta, mind, overrun>>,
           stage' = stage \/ (stage \notin {"off", "clear"} /\ stage' # "off")
    PROVE  LeadInv'
<1>1. PICK j \in 0 .. overrun, k \in 0 .. overrun : Shared(j, k)
  BY DEF LeadInv
<1>2. MindAhead(k)'
  BY <1>1 DEF Shared, MindAhead
<1>3. Shared(j, k)'
  BY <1>1, <1>2 DEF Shared
<1>4. (stage # "off" => mode = ModeOf(turn))' /\ (stage # "off" /\ turn # 0 => Whole(delta))'
  BY DEF LeadInv
<1> QED
  BY <1>1, <1>3, <1>4 DEF LeadInv

LEMMA LeadStart ==
    ASSUME IInv, LeadInv, NEW force \in BOOLEAN, Start(force)
    PROVE  LeadInv'
<1>1. /\ turn' = 0 /\ mode' = ModeOf(0) /\ overrun' = overrun /\ overrun \in Nat
      /\ \/ delta' = <<>> /\ mind' = NoMind
         \/ delta' = delta /\ mind' = mind
  BY DEF Start, Batch, IInv, FilesInv
<1>2. \E j, k \in 0 .. overrun' : Ahead(delta', j) /\ MindAhead(k)'
  <2>1. CASE delta' = <<>> /\ mind' = NoMind
    <3>1. MindAhead(0)'
      BY <2>1 DEF MindAhead, NoMind
    <3>2. 0 \in 0 .. overrun'
      BY <1>1
    <3> QED
      BY <2>1, <3>1, <3>2, EmptyAhead
  <2>2. CASE delta' = delta /\ mind' = mind
    <3>1. PICK j \in 0 .. overrun, k \in 0 .. overrun : Shared(j, k)
      BY DEF LeadInv
    <3>2. Ahead(delta', j) /\ MindAhead(k)'
      BY <2>2, <3>1 DEF Shared, MindAhead
    <3> QED
      BY <1>1, <3>2
  <2> QED
    BY <1>1, <2>1, <2>2
<1>3. \E j, k \in 0 .. overrun' : Shared(j, k)'
  BY <1>1, <1>2 DEF Shared
<1> QED
  BY <1>1, <1>3 DEF LeadInv

LEMMA LeadSums ==
    ASSUME NEW o \in Nat, NEW j \in 0 .. o, NEW k \in 0 .. o, NEW b \in Nat
    PROVE  /\ j + b \in 0 .. (o + b) /\ k \in 0 .. (o + b)
           /\ j + k <= o => (j + b) + k <= o + b
OBVIOUS

\* What a writer adds to the delta, whole or cut short.
LEMMA LeadWrites ==
    ASSUME IInv, LeadInv, stage \notin {"off", "clear"}, NEW r \in Seq(Rows), NEW b \in Nat,
           Ahead(r, b), Whole(r), mode # "assist" => Idle(r),
           overrun' = overrun + b, UNCHANGED <<mode, turn, mind>>,
           \/ delta' = Written(delta, r) /\ stage' # "off"
           \/ delta' \in CutShort(delta, r) /\ stage' = "off"
    PROVE  LeadInv'
<1>1. delta \in Seq(Rows) /\ overrun \in Nat
  BY DEF IInv, FilesInv
<1>2. PICK j \in 0 .. overrun, k \in 0 .. overrun : Shared(j, k)
  BY DEF LeadInv
<1>3. Whole(delta) \/ Idle(r)
  <2>1. CASE turn # 0
    BY <2>1 DEF LeadInv
  <2>2. CASE turn = 0
    <3>1. mode = ModeOf(0) /\ ModeOf(0) # "assist"
      BY <2>2, Numbers DEF LeadInv, ModeOf
    <3> QED
      BY <3>1
  <2> QED
    BY <2>1, <2>2
<1>4. j \in Nat /\ Ahead(delta, j)
  BY <1>1, <1>2 DEF Shared
<1>5. /\ j + b \in 0 .. overrun' /\ k \in 0 .. overrun'
      /\ j + k <= overrun => (j + b) + k <= overrun'
  BY <1>1, LeadSums
<1>6. Ahead(delta', j + b)
  BY <1>1, <1>3, <1>4, WrittenAhead, CutShortAhead
<1>7. MindAhead(k)'
  BY <1>2 DEF Shared, MindAhead
<1>8. Shared(j + b, k)'
  <2>1. turn # 0 => j + k <= overrun
    BY <1>2 DEF Shared
  <2> QED
    BY <1>5, <1>6, <1>7, <2>1 DEF Shared
<1>9. (stage # "off" /\ turn # 0 => Whole(delta))'
  <2> SUFFICES ASSUME stage' # "off", turn # 0 PROVE Whole(delta')
    OBVIOUS
  <2>1. Whole(delta) /\ delta' = Written(delta, r)
    BY DEF LeadInv
  <2> QED
    BY <1>1, <1>4, <2>1, WrittenAhead
<1>10. (stage # "off" => mode = ModeOf(turn))'
  BY DEF LeadInv
<1> QED
  BY <1>5, <1>8, <1>9, <1>10 DEF LeadInv

LEMMA LeadCollect ==
    ASSUME IInv, LeadInv, NEW s \in Seeds, Collect(s)
    PROVE  LeadInv'
<1>1. PICK R \in RecordsOf(s) : delta' = Written(delta, RunRows(s, R))
  BY DEF Collect
<1>2. /\ stage = "batch" /\ stage' = "batch" /\ overrun' = overrun + Loss(s)
      /\ UNCHANGED <<mode, turn, mind>>
  BY DEF Collect, Loss
<1>3. R \in SUBSET Targets /\ Loss(s) \in Nat
  BY CollectedRows DEF Loss
<1>4. /\ RunRows(s, R) \in Seq(Rows) /\ Whole(RunRows(s, R)) /\ Ahead(RunRows(s, R), Loss(s))
      /\ mode # "assist" => Idle(RunRows(s, R))
  BY <1>3, RunRowsAhead DEF IInv
<1> QED
  BY <1>1, <1>2, <1>3, <1>4, LeadWrites

LEMMA LeadSleep ==
    ASSUME IInv, LeadInv, Sleep
    PROVE  LeadInv'
<1>1. PICK P \in Proposable : delta' = Written(delta, SleepRows(P))
  BY DEF Sleep
<1>2. /\ stage = "sleep" /\ stage' = "compact" /\ overrun' = overrun
      /\ UNCHANGED <<mode, turn, mind>> /\ overrun \in Nat
  BY DEF Sleep, runtime, IInv, FilesInv
<1>3. overrun' = overrun + 0
  BY <1>2
<1> QED
  BY <1>1, <1>2, <1>3, SleepRowsAhead, LeadWrites

LEMMA LeadEndBatch ==
    ASSUME IInv, LeadInv, EndBatch
    PROVE  LeadInv'
<1>0. stage = "batch" /\ UNCHANGED <<delta, mind, overrun>>
  BY DEF EndBatch
<1>1. CASE stage' \in {"sleep", "done"} /\ UNCHANGED <<runtime, turn, run>>
  BY <1>0, <1>1, LeadStays DEF runtime
<1>2. CASE turn = ControlOff /\ Batch(ControlRecord)
  <2>1. /\ turn # 0 /\ turn' # 0 /\ mode' = ModeOf(turn') /\ stage' = "batch"
    BY <1>2, Numbers DEF Batch
  <2>2. PICK j \in 0 .. overrun, k \in 0 .. overrun : Shared(j, k)
    BY DEF LeadInv
  <2>3. MindAhead(k)'
    BY <1>0, <2>2 DEF Shared, MindAhead
  <2>4. Shared(j, k)'
    BY <1>0, <2>1, <2>2, <2>3 DEF Shared
  <2>5. Whole(delta')
    BY <1>0, <2>1 DEF LeadInv
  <2> QED
    BY <1>0, <2>1, <2>2, <2>4, <2>5 DEF LeadInv
<1> QED
  BY <1>1, <1>2 DEF EndBatch

\* A mind no more than k ahead, and rows no more than j ahead folded into it.
LEMMA CompactedAhead ==
    ASSUME NEW m \in Minds, NEW q \in Seq(Rows), NEW j \in Nat, NEW k \in Nat, Ahead(q, j),
           \A t \in Targets : m[t].success <= m[t].failure + k, NEW t \in Targets
    PROVE  Compacted(m, q)[t].success <= Compacted(m, q)[t].failure + (j + k)
<1> DEFINE w == Compacted(m, q)
<1>1. w = Folding(m, q)[Len(q)] /\ Len(q) \in 0 .. Len(q) /\ w \in Minds
  BY FoldingSteps, FoldingTyped, LenProperties
<1>2. Bounded(m, w, t, j)
  BY <1>1 DEF Ahead
<1> HIDE DEF w
<1>3. w[t].success + m[t].failure <= m[t].success + w[t].failure + j
  BY <1>2 DEF Bounded
<1>4. m[t].success <= m[t].failure + k
  OBVIOUS
<1>5. /\ w[t].success \in Nat /\ w[t].failure \in Nat
      /\ m[t].success \in Nat /\ m[t].failure \in Nat
  BY <1>1, Scores
<1>6. w[t].success <= w[t].failure + (j + k)
  BY <1>3, <1>4, <1>5
<1> QED
  BY <1>6 DEF w

LEMMA LeadReplace ==
    ASSUME IInv, LeadInv, Replace
    PROVE  LeadInv'
<1>1. /\ stage = "replace" /\ stage' = "clear" /\ UNCHANGED <<mode, turn, delta, overrun>>
      /\ mind' = Compacted(Base, delta) /\ delta \in Seq(Rows) /\ overrun \in Nat /\ mind \in Minds
  BY DEF Replace, runtime, IInv, FilesInv
<1>2. PICK j \in 0 .. overrun, k \in 0 .. overrun : Shared(j, k)
  BY DEF LeadInv
<1>3. j \in Nat /\ k \in Nat /\ Ahead(delta, j) /\ MindAhead(k)
  BY <1>1, <1>2 DEF Shared
<1>4. PICK n \in 0 .. overrun : MindAhead(n)'
  <2>1. CASE turn = 0
    <3>1. /\ Base = NoMind /\ NoMind \in Minds
          /\ \A t \in Targets : NoMind[t].success <= NoMind[t].failure + 0
      BY <2>1, NoMindTyped DEF Base, NoMind
    <3>2. \A t \in Targets : mind'[t].success <= mind'[t].failure + (j + 0)
      BY <1>1, <1>3, <3>1, CompactedAhead
    <3>3. j + 0 \in 0 .. overrun
      BY <1>1
    <3>4. MindAhead(j + 0)'
      BY <3>2 DEF MindAhead
    <3> QED
      BY <3>3, <3>4
  <2>2. CASE turn # 0
    <3>1. Base = mind /\ j + k <= overrun
      BY <1>1, <1>2, <2>2 DEF Base, Shared
    <3>2. \A t \in Targets : mind'[t].success <= mind'[t].failure + (j + k)
      BY <1>1, <1>3, <3>1, CompactedAhead DEF MindAhead
    <3>3. j + k \in 0 .. overrun
      BY <1>1, <1>3, <3>1
    <3>4. MindAhead(j + k)'
      BY <3>2 DEF MindAhead
    <3> QED
      BY <3>3, <3>4
  <2> QED
    BY <2>1, <2>2
<1>5. Shared(j, n)'
  BY <1>1, <1>3, <1>4 DEF Shared
<1>6. (stage # "off" => mode = ModeOf(turn))' /\ (stage # "off" /\ turn # 0 => Whole(delta))'
  BY <1>1 DEF LeadInv
<1> QED
  BY <1>1, <1>4, <1>5, <1>6 DEF LeadInv

LEMMA LeadClear ==
    ASSUME IInv, LeadInv, Clear
    PROVE  LeadInv'
<1>1. /\ stage' = "batch" /\ delta' = <<>> /\ mode' = ModeOf(turn')
      /\ UNCHANGED <<mind, overrun>> /\ overrun \in Nat
  BY DEF Clear, Batch, IInv, FilesInv
<1>2. PICK k \in 0 .. overrun : MindAhead(k)
  BY DEF LeadInv, Shared
<1>3. MindAhead(k)'
  BY <1>1, <1>2 DEF MindAhead
<1>4. 0 \in 0 .. overrun /\ 0 + k <= overrun
  BY <1>1
<1>5. Shared(0, k)'
  BY <1>1, <1>3, <1>4, EmptyAhead DEF Shared
<1> QED
  BY <1>1, <1>4, <1>5, EmptyAhead DEF LeadInv

LEMMA LeadCrash ==
    ASSUME IInv, LeadInv, Crash
    PROVE  LeadInv'
<1>0. stage' = "off" /\ UNCHANGED <<mode, turn, mind>> /\ overrun \in Nat
  BY DEF Crash, IInv, FilesInv
<1>1. CASE UNCHANGED <<delta, gathered, overrun>>
  <2>1. PICK j \in 0 .. overrun, k \in 0 .. overrun : Shared(j, k)
    BY DEF LeadInv
  <2>2. MindAhead(k)'
    BY <1>0, <2>1 DEF Shared, MindAhead
  <2>3. Shared(j, k)'
    BY <1>0, <1>1, <2>1, <2>2 DEF Shared
  <2> QED
    BY <1>0, <1>1, <2>1, <2>3 DEF LeadInv
<1>2. ASSUME stage = "batch", NEW s \in Seeds, NEW R \in RecordsOf(s),
             delta' \in CutShort(delta, RunRows(s, R)),
             overrun' = overrun + (IF dropped[s] > 0 THEN 1 ELSE 0)
      PROVE  LeadInv'
  <2>1. R \in SUBSET Targets /\ Loss(s) \in Nat /\ overrun' = overrun + Loss(s)
    BY <1>2, CollectedRows DEF Loss
  <2>2. /\ RunRows(s, R) \in Seq(Rows) /\ Whole(RunRows(s, R)) /\ Ahead(RunRows(s, R), Loss(s))
        /\ mode # "assist" => Idle(RunRows(s, R))
    BY <2>1, RunRowsAhead DEF IInv
  <2> QED
    BY <1>0, <1>2, <2>1, <2>2, LeadWrites
<1>3. ASSUME stage = "sleep", NEW P \in Proposable,
             delta' \in CutShort(delta, SleepRows(P)), UNCHANGED overrun
      PROVE  LeadInv'
  <2>1. overrun' = overrun + 0
    BY <1>0, <1>3
  <2> QED
    BY <1>0, <1>3, <2>1, SleepRowsAhead, LeadWrites
<1> QED
  BY <1>1, <1>2, <1>3 DEF Crash

LEMMA LeadKeeps == IInv /\ LeadInv /\ [Next]_vars => LeadInv'
<1> SUFFICES ASSUME IInv, LeadInv, [Next]_vars PROVE LeadInv'
  OBVIOUS
<1>1. CASE UNCHANGED vars
  BY <1>1, LeadStays DEF vars, runtime, driver
<1>2. ASSUME NEW s \in Seeds, BeginRun(s) \/ RunOn(s) \/ EndRun(s) \/ RunFails(s)
      PROVE  LeadInv'
  <2>1. UNCHANGED <<mode, stage, turn, delta, mind, overrun>>
    BY <1>2 DEF BeginRun, RunOn, RunStep, RunCycle, Reveal, Audit, EndRun, RunFails, runtime, driver
  <2> QED
    BY <2>1, LeadStays
<1>3. CASE Compact
  <2>1. /\ stage = "compact" /\ stage' = "replace"
        /\ UNCHANGED <<mode, turn, delta, mind, overrun>>
    BY <1>3 DEF Compact, runtime
  <2> QED
    BY <2>1, LeadStays
<1>4. CASE Next
  BY <1>2, <1>3, <1>4, LeadStart, LeadCollect, LeadEndBatch, LeadSleep, LeadReplace, LeadClear,
     LeadCrash DEF Next, Advance
<1> QED
  BY <1>1, <1>4

LEMMA LeadBounds == IInv /\ LeadInv => NeverSuccessDominant
<1> SUFFICES ASSUME IInv, LeadInv, NEW t \in Targets
             PROVE  mind[t].success <= mind[t].failure + overrun
  BY DEF NeverSuccessDominant
<1>1. overrun \in Nat /\ mind \in Minds
  BY DEF IInv, FilesInv
<1>2. PICK k \in 0 .. overrun : mind[t].success <= mind[t].failure + k
  BY DEF LeadInv, Shared, MindAhead
<1>3. mind[t].success \in Nat /\ mind[t].failure \in Nat
  BY <1>1, Scores
<1> QED
  BY <1>1, <1>2, <1>3

\* A confirmed hint never outweighs the reorder that gave it: however often the
\* loop is killed and started over its own files, the successes of a target are
\* at most its failures and the runs whose deque lost events.
THEOREM SuccessNeverDominates == Spec => []NeverSuccessDominant
<1>1. IInv /\ LeadInv /\ [Next]_vars => LeadInv'
  BY LeadKeeps
<1> QED
  BY LeadInit, <1>1, LeadBounds, LoopInvariant, PTL DEF Spec
=============================================================================
