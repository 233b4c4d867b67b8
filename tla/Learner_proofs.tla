--------------------------- MODULE Learner_proofs ---------------------------
(***************************************************************************)
(* Proofs about what the learner keeps between runs.  Of module MindStore: *)
(* every row a mind ingests is accounted for, what carries a failure       *)
(* outlives what does not, and a surviving node unlearns nothing.  Of      *)
(* module ScaffoldLoop: a proposal claims no more runs than left its       *)
(* structure in memory, and no right is held that was not passed or earned.*)
(***************************************************************************)
EXTENDS MindStore, ScaffoldLoop, FiniteSetTheorems, SequenceTheorems,
        NaturalsInduction, WellFoundedInduction, TLAPS

-----------------------------------------------------------------------------
(* The mind store: the inductive invariant                                 *)

Ids    == {row.id : row \in Rows}
Shapes == {Shape(row) : row \in Rows}

\* What is folded into a node: a row, or the structure of one.
Signals == Rows \cup {Abstraction(row) : row \in Rows}

Atoms    == UNION {s.atoms : s \in Signals}
Contexts == {s.context : s \in Signals}
Roles    == UNION {s.roles : s \in Signals}
Rights   == {s.right : s \in Signals}
Reasons  == UNION {s.invalid : s \in Signals}

\* The contexts of a node are bounded and distinct.
ContextLists == {s \in Seq(Contexts) : /\ Len(s) <= MaxContexts
                                       /\ Cardinality(ToSet(s)) = Len(s)}

Node == [abstract : BOOLEAN, atoms : SUBSET Atoms, contexts : ContextLists,
         roles : SUBSET Roles, rights : SUBSET Rights, evidence : Nat,
         effects : Nat, success : Nat, failure : Nat, invalid : SUBSET Reasons,
         sleeps : Nat, salience : Nat]

\* The nodes of structures are those under the id of a shape, and no row shares
\* an atom with them.
Placed(ns, n) ==
    /\ n \in Ids \cup Shapes
    /\ ns[n].abstract <=> n \in Shapes
    /\ ns[n].abstract => ns[n].atoms = {}
    /\ ns[n].rights # {} /\ ns[n].evidence > 0

Mind(ns) ==
    /\ ns \in [DOMAIN ns -> Node] /\ IsFiniteSet(DOMAIN ns)
    /\ \A n \in DOMAIN ns : Placed(ns, n)

Graph(es) == es \in [DOMAIN es -> Nat \ {0}] /\ IsFiniteSet(DOMAIN es)

Typed ==
    /\ Mind(nodes) /\ Graph(edges)
    /\ residuals \in Seq(Rows) /\ Len(residuals) <= MaxResiduals
    /\ stage \in {"ingest", "written"}
    /\ world \in 0 .. MaxRows /\ gone \in Nat

\* A mind just written is within its caps, and its file holds what it holds.
WrittenWhole ==
    stage = "written" =>
        /\ disk = [nodes |-> [n \in DOMAIN nodes |-> Serialised(nodes[n])], edges |-> edges,
                   residuals |-> residuals]
        /\ Cardinality(DOMAIN nodes) <= MaxNodes
        /\ Cardinality(DOMAIN edges) <= MaxEdges

MindKept == Typed /\ WrittenWhole /\ EvidenceAccounted

-----------------------------------------------------------------------------
(* Nodes                                                                   *)

\* What a step keeps of the nodes it keeps.
Learnt(old, new) ==
    /\ old.rights \subseteq new.rights
    /\ old.failure <= new.failure
    /\ old.evidence <= new.evidence
    /\ old.invalid \subseteq new.invalid

LEMMA LearntReflexive == ASSUME NEW node \in Node PROVE Learnt(node, node)
BY DEF Learnt, Node

LEMMA LearntTransitive ==
    ASSUME NEW a \in Node, NEW b \in Node, NEW c \in Node, Learnt(a, b), Learnt(b, c)
    PROVE  Learnt(a, c)
<1>1. a.failure <= c.failure /\ a.evidence <= c.evidence
  BY DEF Learnt, Node
<1>2. a.rights \subseteq c.rights /\ a.invalid \subseteq c.invalid
  BY DEF Learnt
<1> QED
  BY <1>1, <1>2 DEF Learnt

\* A structure carries nothing but its right and its hook.
LEMMA SignalTyped ==
    ASSUME NEW s \in Signals
    PROVE  /\ s.atoms \in SUBSET Atoms /\ s.context \in Contexts
           /\ s.roles \in SUBSET Roles /\ s.right \in Rights
           /\ s.success \in Nat /\ s.failure \in Nat /\ s.salience \in Nat
           /\ s.invalid \in SUBSET Reasons /\ IsFiniteSet(s.invalid)
<1>1. s.atoms \in SUBSET Atoms
  BY DEF Atoms
<1>2. s.context \in Contexts
  BY DEF Contexts
<1>3. s.roles \in SUBSET Roles
  BY DEF Roles
<1>4. s.right \in Rights
  BY DEF Rights
<1>5. s.invalid \in SUBSET Reasons
  BY DEF Reasons
<1>6. s.success \in Nat /\ s.failure \in Nat /\ s.salience \in Nat /\ IsFiniteSet(s.invalid)
  <2>1. CASE s \in Rows
    <3>1. {s.success, s.failure, s.salience} \subseteq Nat /\ IsFiniteSet(s.invalid)
      BY <2>1, MindStoreAssumption
    <3> QED
      BY <3>1
  <2>2. CASE s \in {Abstraction(row) : row \in Rows}
    <3>1. PICK row \in Rows : s = Abstraction(row)
      BY <2>2
    <3>2. s.success = 0 /\ s.failure = 0 /\ s.salience = 0 /\ s.invalid = {}
      BY <3>1 DEF Abstraction
    <3> QED
      BY <3>2, FS_EmptySet
  <2> QED
    BY <2>1, <2>2 DEF Signals
<1> QED
  BY <1>1, <1>2, <1>3, <1>4, <1>5, <1>6

LEMMA NoContexts == <<>> \in ContextLists
<1>1. <<>> \in Seq(Contexts) /\ Len(<<>>) = 0
  BY EmptySeq
<1>2. ToSet(<<>>) = {}
  BY DEF ToSet
<1>3. Cardinality(ToSet(<<>>)) = 0
  BY <1>2, FS_EmptySet
<1>4. MaxContexts \in Nat
  BY MindStoreAssumption
<1> QED
  BY <1>1, <1>3, <1>4 DEF ContextLists

\* The members of a sequence are finitely many.
LEMMA ToSetFinite ==
    ASSUME NEW S, NEW s \in Seq(S) PROVE IsFiniteSet(ToSet(s))
<1>1. Len(s) \in Nat /\ DOMAIN s = 1 .. Len(s)
  BY LenProperties
<1>2. IsFiniteSet(1 .. Len(s))
  BY <1>1, FS_Interval
<1>3. s \in [1 .. Len(s) -> ToSet(s)] /\ \A x \in ToSet(s) : \E i \in 1 .. Len(s) : s[i] = x
  BY <1>1 DEF ToSet
<1>4. s \in Surjection(1 .. Len(s), ToSet(s))
  BY <1>3 DEF Surjection
<1> QED
  BY <1>2, <1>4, FS_Surjection

LEMMA WithContextTyped ==
    ASSUME NEW s \in ContextLists, NEW c \in Contexts
    PROVE  WithContext(s, c) \in ContextLists
<1>1. s \in Seq(Contexts) /\ Len(s) \in Nat /\ Cardinality(ToSet(s)) = Len(s)
  BY LenProperties DEF ContextLists
<1> SUFFICES ASSUME c \notin ToSet(s), Len(s) < MaxContexts
             PROVE  Append(s, c) \in ContextLists
  BY <1>1, MindStoreAssumption DEF WithContext
<1> DEFINE t == Append(s, c)
<1>2. /\ t \in Seq(Contexts) /\ Len(t) = Len(s) + 1
      /\ \A i \in 1 .. Len(s) : t[i] = s[i]
      /\ t[Len(s) + 1] = c
  BY <1>1, AppendProperties
<1>3. DOMAIN s = 1 .. Len(s) /\ DOMAIN t = 1 .. Len(t)
  BY <1>1, <1>2, LenProperties
<1>4. \A i : i \in 1 .. Len(t) <=> i \in 1 .. Len(s) \/ i = Len(s) + 1
  BY <1>1, <1>2
<1> HIDE DEF t
<1>5. ToSet(t) = ToSet(s) \cup {c}
  BY <1>2, <1>3, <1>4 DEF ToSet
<1>6. Cardinality(ToSet(t)) = Len(s) + 1
  BY <1>1, <1>5, ToSetFinite, FS_AddElement
<1>7. Len(t) <= MaxContexts
  BY <1>1, <1>2, MindStoreAssumption
<1>8. t \in ContextLists
  BY <1>2, <1>6, <1>7 DEF ContextLists
<1> QED
  BY <1>8 DEF t

LEMMA BlankTyped == Blank \in Node /\ ~Blank.abstract /\ Blank.atoms = {} /\ Blank.evidence = 0
BY NoContexts DEF Blank, Node

\* A node takes a row in as one more piece of evidence.
LEMMA AbsorbedTyped ==
    ASSUME NEW node \in Node, NEW s \in Signals
    PROVE  LET u == Absorbed(node, s)
           IN  /\ u \in Node
               /\ u.abstract = node.abstract
               /\ u.atoms = node.atoms \cup s.atoms
               /\ u.rights # {}
               /\ u.evidence = node.evidence + 1
               /\ Learnt(node, u)
<1>1. WithContext(node.contexts, s.context) \in ContextLists
  BY SignalTyped, WithContextTyped DEF Node
<1> DEFINE sl == IF s.kind = "sleep" THEN 1 ELSE 0
           sal == IF s.salience > node.salience THEN s.salience ELSE node.salience
<1>2. sl \in Nat /\ sal \in Nat
  BY SignalTyped DEF Node
<1>3. /\ node.evidence + 1 \in Nat /\ node.success + s.success \in Nat
      /\ node.failure + s.failure \in Nat /\ node.sleeps + sl \in Nat
  BY <1>2, SignalTyped DEF Node
<1>4. /\ node.atoms \cup s.atoms \in SUBSET Atoms /\ node.roles \cup s.roles \in SUBSET Roles
      /\ node.rights \cup {s.right} \in SUBSET Rights
      /\ node.invalid \cup s.invalid \in SUBSET Reasons
  BY SignalTyped DEF Node
<1> DEFINE u == [abstract |-> node.abstract, atoms |-> node.atoms \cup s.atoms,
                 contexts |-> WithContext(node.contexts, s.context),
                 roles |-> node.roles \cup s.roles, rights |-> node.rights \cup {s.right},
                 evidence |-> node.evidence + 1, effects |-> node.effects,
                 success |-> node.success + s.success, failure |-> node.failure + s.failure,
                 invalid |-> node.invalid \cup s.invalid, sleeps |-> node.sleeps + sl,
                 salience |-> sal]
<1>5. Absorbed(node, s) = u
  <2>1. Absorbed(node, s) =
          [node EXCEPT !.atoms = node.atoms \cup s.atoms,
                       !.contexts = WithContext(node.contexts, s.context),
                       !.roles = node.roles \cup s.roles, !.rights = node.rights \cup {s.right},
                       !.evidence = node.evidence + 1, !.success = node.success + s.success,
                       !.failure = node.failure + s.failure,
                       !.invalid = node.invalid \cup s.invalid,
                       !.sleeps = node.sleeps + sl, !.salience = sal]
    BY DEF Absorbed, Node
  <2> HIDE DEF sl, sal
  <2> QED
    BY <2>1 DEF Node
<1>6. node.abstract \in BOOLEAN /\ node.effects \in Nat
  BY DEF Node
<1> HIDE DEF sl, sal
<1>7. u \in Node
  BY <1>1, <1>2, <1>3, <1>4, <1>6 DEF Node
<1>8. node.failure <= node.failure + s.failure /\ node.evidence <= node.evidence + 1
  BY SignalTyped DEF Node
<1>9. Learnt(node, u)
  BY <1>8 DEF Learnt
<1> QED
  BY <1>5, <1>7, <1>9

LEMMA NodeUpdates ==
    ASSUME NEW node \in Node, NEW e \in Nat, NEW f \in Nat, NEW g \in Nat, NEW h \in Nat,
           NEW i \in SUBSET Reasons, NEW b \in BOOLEAN
    PROVE  /\ [node EXCEPT !.evidence = e] \in Node
           /\ [node EXCEPT !.failure = f, !.invalid = i] \in Node
           /\ [node EXCEPT !.effects = g, !.success = h, !.failure = f] \in Node
           /\ [node EXCEPT !.abstract = b] \in Node
           /\ [node EXCEPT !.contexts = <<>>] \in Node
           /\ [node EXCEPT !.roles = {}] \in Node
<1>1. <<>> \in ContextLists
  BY NoContexts
<1>2. [node EXCEPT !.evidence = e] \in Node /\ [node EXCEPT !.abstract = b] \in Node
  BY DEF Node
<1>3. [node EXCEPT !.contexts = <<>>] \in Node /\ [node EXCEPT !.roles = {}] \in Node
  BY <1>1 DEF Node
<1>4. [node EXCEPT !.failure = f, !.invalid = i] \in Node
  BY DEF Node
<1>5. [node EXCEPT !.effects = g, !.success = h, !.failure = f] \in Node
  BY DEF Node
<1> QED
  BY <1>2, <1>3, <1>4, <1>5

-----------------------------------------------------------------------------
(* Evidence                                                                *)

Plain(ns)   == {n \in DOMAIN ns : ~ns[n].abstract}
Counted(ns) == UNION {{n} \X (1 .. ns[n].evidence) : n \in Plain(ns)}

LEMMA CountedPairs ==
    ASSUME NEW ns
    PROVE  \A x : x \in Counted(ns)
             <=> \E n \in Plain(ns) : \E i \in 1 .. ns[n].evidence : x = <<n, i>>
BY DEF Counted

LEMMA CountedFinite ==
    ASSUME NEW ns, Mind(ns)
    PROVE  /\ IsFiniteSet(Counted(ns)) /\ Evidence(ns) \in Nat
           /\ Evidence(ns) = Cardinality(Counted(ns))
<1> DEFINE f == [n \in Plain(ns) |-> {n} \X (1 .. ns[n].evidence)]
           S == {f[n] : n \in Plain(ns)}
<1>1. \A n \in Plain(ns) : ns[n].evidence \in Nat
  BY DEF Mind, Node, Plain
<1>2. ASSUME NEW n \in Plain(ns) PROVE IsFiniteSet(f[n])
  <2>1. IsFiniteSet({n})
    BY FS_Singleton
  <2>2. ns[n].evidence \in Int /\ 1 \in Int
    BY <1>1
  <2>3. IsFiniteSet(1 .. ns[n].evidence)
    BY <2>2, FS_Interval
  <2> QED
    BY <2>1, <2>3, FS_Product
<1>3. S = {{n} \X (1 .. ns[n].evidence) : n \in Plain(ns)}
  OBVIOUS
<1>4. f = [n \in Plain(ns) |-> f[n]]
  OBVIOUS
<1> HIDE DEF f
<1>5. IsFiniteSet(S)
  <2>1. f \in [Plain(ns) -> S] /\ \A x \in S : \E n \in Plain(ns) : f[n] = x
    BY <1>4
  <2>2. f \in Surjection(Plain(ns), S)
    BY <2>1 DEF Surjection
  <2>3. IsFiniteSet(Plain(ns))
    BY FS_Subset DEF Mind, Plain
  <2> HIDE DEF S
  <2> QED
    BY <2>2, <2>3, FS_Surjection
<1>6. IsFiniteSet(UNION S)
  BY <1>2, <1>5, FS_UNION
<1>7. IsFiniteSet(Counted(ns))
  BY <1>3, <1>6 DEF Counted
<1>8. Evidence(ns) = Cardinality(Counted(ns))
  BY DEF Evidence, Counted, Plain
<1> QED
  BY <1>7, <1>8, FS_CardinalityType

LEMMA EmptyMind == Mind(Empty) /\ Evidence(Empty) = 0 /\ Graph(Empty)
<1>1. DOMAIN Empty = {} /\ Empty \in [{} -> Node] /\ Empty \in [{} -> Nat \ {0}]
  BY DEF Empty
<1>2. Mind(Empty) /\ Graph(Empty)
  BY <1>1, FS_EmptySet DEF Mind, Graph
<1>3. Plain(Empty) = {}
  BY <1>1 DEF Plain
<1>4. Counted(Empty) = {}
  BY <1>3, CountedPairs
<1>5. Cardinality(Counted(Empty)) = 0
  BY <1>4, FS_EmptySet
<1> QED
  BY <1>2, <1>5, CountedFinite

LEMMA SameEvidence ==
    ASSUME NEW ns, NEW ms, Mind(ns), Mind(ms), Plain(ns) = Plain(ms),
           \A n \in Plain(ns) : ms[n].evidence = ns[n].evidence
    PROVE  Evidence(ms) = Evidence(ns)
<1>1. Counted(ms) = Counted(ns)
  BY DEF Counted
<1> QED
  BY <1>1, CountedFinite

\* One more row of the node u, which may be a new node.
LEMMA OneMore ==
    ASSUME NEW ns, NEW ms, Mind(ns), Mind(ms), NEW u, NEW k \in Nat,
           Plain(ms) = Plain(ns) \cup {u},
           \A n \in Plain(ns) : n # u => ms[n].evidence = ns[n].evidence,
           k = (IF u \in Plain(ns) THEN ns[u].evidence ELSE 0),
           ms[u].evidence = k + 1
    PROVE  Evidence(ms) = Evidence(ns) + 1
<1> DEFINE j == k + 1
<1>1. j \in Nat /\ \A i : i \in 1 .. j <=> i \in 1 .. k \/ i = j
  OBVIOUS
<1>2. ~(j \in 1 .. k) /\ j \in 1 .. j
  OBVIOUS
<1>3. ms[u].evidence = j
  OBVIOUS
<1>4. \A i : ~(i \in 1 .. 0)
  OBVIOUS
<1> HIDE DEF j
<1>5. <<u, j>> \notin Counted(ns)
  <2>1. u \in Plain(ns) => ~(j \in 1 .. ns[u].evidence)
    BY <1>2
  <2> QED
    BY <2>1, CountedPairs
<1>6. Counted(ms) = Counted(ns) \cup {<<u, j>>}
  <2>1. ASSUME NEW x \in Counted(ms) PROVE x \in Counted(ns) \cup {<<u, j>>}
    <3>1. PICK n \in Plain(ms) : \E i \in 1 .. ms[n].evidence : x = <<n, i>>
      BY CountedPairs
    <3>2. CASE n = u
      <4>1. PICK i \in 1 .. j : x = <<u, i>>
        BY <1>3, <3>1, <3>2
      <4>2. CASE i = j
        BY <4>1, <4>2
      <4>3. CASE i \in 1 .. k
        <5>1. u \in Plain(ns) /\ i \in 1 .. ns[u].evidence
          BY <1>4, <4>3
        <5> QED
          BY <4>1, <5>1, CountedPairs
      <4> QED
        BY <1>1, <4>1, <4>2, <4>3
    <3>3. CASE n # u
      BY <3>1, <3>3, CountedPairs
    <3> QED
      BY <3>2, <3>3
  <2>2. ASSUME NEW x \in Counted(ns) PROVE x \in Counted(ms)
    <3>1. PICK n \in Plain(ns) : \E i \in 1 .. ns[n].evidence : x = <<n, i>>
      BY CountedPairs
    <3>2. CASE n = u
      BY <1>1, <1>3, <3>1, <3>2, CountedPairs
    <3>3. CASE n # u
      BY <3>1, <3>3, CountedPairs
    <3> QED
      BY <3>2, <3>3
  <2>3. <<u, j>> \in Counted(ms)
    BY <1>2, <1>3, CountedPairs
  <2> QED
    BY <2>1, <2>2, <2>3
<1>7. Cardinality(Counted(ms)) = Cardinality(Counted(ns)) + 1
  BY <1>5, <1>6, CountedFinite, FS_AddElement
<1> QED
  BY <1>7, CountedFinite

\* What is pruned takes its rows with it.
LEMMA Pruned ==
    ASSUME NEW ns, Mind(ns), NEW kept \in SUBSET DOMAIN ns
    PROVE  LET ms == [n \in kept |-> ns[n]]
           IN  Mind(ms) /\ Evidence(ms) \in Nat /\ Evidence(ms) <= Evidence(ns)
<1> DEFINE ms == [n \in kept |-> ns[n]]
<1>1. DOMAIN ms = kept /\ \A n \in kept : ms[n] = ns[n] /\ ms[n] \in Node
  BY DEF Mind
<1>2. ms \in [kept -> Node]
  BY <1>1
<1> HIDE DEF ms
<1>3. Mind(ms)
  BY <1>1, <1>2, FS_Subset DEF Mind, Placed
<1>4. Plain(ms) \subseteq Plain(ns) /\ \A n \in Plain(ms) : ms[n] = ns[n]
  BY <1>1 DEF Plain
<1>5. Counted(ms) \in SUBSET Counted(ns)
  BY <1>4, CountedPairs
<1>6. Cardinality(Counted(ms)) <= Cardinality(Counted(ns))
  BY <1>5, CountedFinite, FS_Subset
<1> QED
  BY <1>3, <1>6, CountedFinite DEF ms

-----------------------------------------------------------------------------
(* The operations on nodes and edges                                       *)

Grown(ns, ms) ==
    /\ DOMAIN ns \subseteq DOMAIN ms
    /\ \A n \in DOMAIN ns : Learnt(ns[n], ms[n])

LEMMA GrownTransitive ==
    ASSUME NEW a, NEW b, NEW c, Mind(a), Mind(b), Mind(c), Grown(a, b), Grown(b, c)
    PROVE  Grown(a, c)
<1> SUFFICES ASSUME NEW n \in DOMAIN a PROVE Learnt(a[n], c[n])
  BY DEF Grown
<1>1. n \in DOMAIN b /\ n \in DOMAIN c
  BY DEF Grown
<1>2. Learnt(a[n], b[n]) /\ Learnt(b[n], c[n])
  BY <1>1 DEF Grown
<1>3. a[n] \in Node /\ b[n] \in Node /\ c[n] \in Node
  BY <1>1 DEF Mind
<1> QED
  BY <1>2, <1>3, LearntTransitive

LEMMA WithTyped ==
    ASSUME NEW ns, Mind(ns), NEW x \in Ids \cup Shapes, NEW node \in Node,
           node.abstract <=> x \in Shapes, node.abstract => node.atoms = {},
           node.rights # {}, node.evidence > 0
    PROVE  LET ms == With(ns, x, node)
           IN  /\ Mind(ms) /\ DOMAIN ms = DOMAIN ns \cup {x} /\ ms[x] = node
               /\ \A n \in DOMAIN ns : n # x => ms[n] = ns[n]
<1> DEFINE ms == With(ns, x, node)
<1>1. /\ DOMAIN ms = DOMAIN ns \cup {x} /\ ms[x] = node
      /\ \A n \in DOMAIN ns : n # x => ms[n] = ns[n]
      /\ ms = [y \in DOMAIN ms |-> ms[y]]
  BY DEF With
<1> HIDE DEF ms
<1>2. \A n \in DOMAIN ms : ms[n] \in Node
  BY <1>1 DEF Mind
<1>3. IsFiniteSet(DOMAIN ms)
  BY <1>1, FS_AddElement DEF Mind
<1>4. \A n \in DOMAIN ms : Placed(ms, n)
  BY <1>1 DEF Mind, Placed
<1>5. ms \in [DOMAIN ms -> Node]
  BY <1>1, <1>2
<1> QED
  BY <1>1, <1>3, <1>4, <1>5 DEF Mind, ms

\* No id is that of a structure.
LEMMA IdsApart == \A x \in Ids : x \notin Shapes
BY ShapesApart DEF Ids, Shapes

LEMMA UpsertGrows ==
    ASSUME NEW ns, Mind(ns), NEW id \in Ids, NEW row \in Rows
    PROVE  LET ms == UpsertNode(ns, id, row)
           IN  Mind(ms) /\ Grown(ns, ms) /\ Evidence(ms) = Evidence(ns) + 1
<1> DEFINE old == NodeOf(ns, id)
           new == Absorbed(old, row)
           ms  == With(ns, id, new)
<1>1. id \notin Shapes /\ row \in Signals
  BY IdsApart DEF Signals
<1>2. old \in Node /\ ~old.abstract
  BY <1>1, BlankTyped DEF NodeOf, Mind, Placed
<1>3. id \in DOMAIN ns => old = ns[id]
  BY DEF NodeOf
<1>4. id \notin DOMAIN ns => old.evidence = 0
  BY BlankTyped DEF NodeOf
<1>5. old.evidence \in Nat
  BY <1>2 DEF Node
<1> HIDE DEF old
<1>6. /\ new \in Node /\ ~new.abstract /\ new.rights # {}
      /\ new.evidence = old.evidence + 1 /\ Learnt(old, new)
  BY <1>1, <1>2, AbsorbedTyped
<1> HIDE DEF new
<1>7. new.evidence > 0
  BY <1>5, <1>6
<1>8. /\ Mind(ms) /\ DOMAIN ms = DOMAIN ns \cup {id} /\ ms[id] = new
      /\ \A n \in DOMAIN ns : n # id => ms[n] = ns[n]
  BY <1>1, <1>6, <1>7, WithTyped
<1>9. ms = UpsertNode(ns, id, row)
  BY DEF UpsertNode, old, new
<1> HIDE DEF ms
<1>10. Grown(ns, ms)
  <2> SUFFICES ASSUME NEW n \in DOMAIN ns PROVE Learnt(ns[n], ms[n])
    BY <1>8 DEF Grown
  <2>1. CASE n = id
    BY <1>3, <1>6, <1>8, <2>1
  <2>2. CASE n # id
    BY <1>8, <2>2, LearntReflexive DEF Mind
  <2> QED
    BY <2>1, <2>2
<1>11. Evidence(ms) = Evidence(ns) + 1
  <2> DEFINE k == old.evidence
  <2>1. Plain(ms) = Plain(ns) \cup {id}
    BY <1>6, <1>8 DEF Plain
  <2>2. id \in DOMAIN ns => id \in Plain(ns)
    BY <1>1 DEF Plain, Mind, Placed
  <2>3. id \in Plain(ns) => id \in DOMAIN ns
    BY DEF Plain
  <2>4. k = (IF id \in Plain(ns) THEN ns[id].evidence ELSE 0)
    BY <1>3, <1>4, <2>2, <2>3
  <2>5. \A n \in Plain(ns) : n # id => ms[n].evidence = ns[n].evidence
    BY <1>8 DEF Plain
  <2>6. ms[id].evidence = k + 1 /\ k \in Nat
    BY <1>5, <1>6, <1>8
  <2> HIDE DEF k
  <2> QED
    BY <1>8, <2>1, <2>4, <2>5, <2>6, OneMore
<1> QED
  BY <1>8, <1>9, <1>10, <1>11

\* The structure of a product is not counted again.
LEMMA StructureGrows ==
    ASSUME NEW ns, Mind(ns), NEW row \in Rows
    PROVE  LET ms == WithStructure(ns, row)
           IN  Mind(ms) /\ Grown(ns, ms) /\ Evidence(ms) = Evidence(ns)
<1> DEFINE x == Shape(row)
<1>1. x \in Shapes
  BY DEF Shapes
<1>2. CASE x \in DOMAIN ns
  <2> DEFINE new == [ns[x] EXCEPT !.evidence = @ + 1]
             ms  == With(ns, x, new)
  <2>1. /\ ns[x] \in Node /\ ns[x].abstract /\ ns[x].atoms = {}
        /\ ns[x].rights # {} /\ ns[x].evidence > 0
    BY <1>1, <1>2 DEF Mind, Placed
  <2>2. ns[x].evidence \in Nat /\ ns[x].evidence + 1 \in Nat
    BY <2>1 DEF Node
  <2>3. new \in Node
    BY <2>1, <2>2, NodeUpdates
  <2>4. /\ new.abstract = ns[x].abstract /\ new.atoms = {} /\ new.rights = ns[x].rights
        /\ new.evidence = ns[x].evidence + 1 /\ new.failure = ns[x].failure
        /\ new.invalid = ns[x].invalid
    BY <2>1 DEF Node
  <2>5. Learnt(ns[x], new) /\ new.evidence > 0
    BY <2>1, <2>2, <2>4 DEF Learnt, Node
  <2>10. new.abstract /\ new.rights # {}
    BY <2>1, <2>4
  <2>6. WithStructure(ns, row) = ms
    <3>1. WithStructure(ns, row) = [ns EXCEPT ![x] = new]
      BY <1>2 DEF WithStructure
    <3> HIDE DEF x, new
    <3> QED
      BY <1>2, <3>1 DEF With, Mind
  <2> HIDE DEF new, x
  <2>11. x \in Ids \cup Shapes /\ (new.abstract <=> x \in Shapes)
         /\ (new.abstract => new.atoms = {}) /\ new.rights # {} /\ new.evidence > 0
    BY <1>1, <2>4, <2>5, <2>10
  <2>7. /\ Mind(ms) /\ DOMAIN ms = DOMAIN ns \cup {x} /\ ms[x] = new
        /\ \A n \in DOMAIN ns : n # x => ms[n] = ns[n]
    BY <2>3, <2>11, WithTyped
  <2> HIDE DEF ms
  <2>8. Grown(ns, ms)
    <3> SUFFICES ASSUME NEW n \in DOMAIN ns PROVE Learnt(ns[n], ms[n])
      BY <2>7 DEF Grown
    <3>1. CASE n = x
      BY <2>5, <2>7, <3>1
    <3>2. CASE n # x
      BY <2>7, <3>2, LearntReflexive DEF Mind
    <3> QED
      BY <3>1, <3>2
  <2>9. Plain(ns) = Plain(ms) /\ \A n \in Plain(ns) : ms[n].evidence = ns[n].evidence
    BY <1>2, <2>1, <2>4, <2>7 DEF Plain
  <2> QED
    BY <2>6, <2>7, <2>8, <2>9, SameEvidence
<1>3. CASE x \notin DOMAIN ns
  <2> DEFINE old == Absorbed(Blank, Abstraction(row))
             new == [old EXCEPT !.abstract = TRUE]
             ms  == With(ns, x, new)
  <2>1. Abstraction(row) \in Signals /\ Abstraction(row).atoms = {}
    BY DEF Signals, Abstraction
  <2>2. old \in Node /\ old.atoms = {} /\ old.rights # {} /\ old.evidence = 1
    BY <2>1, BlankTyped, AbsorbedTyped
  <2> HIDE DEF old
  <2>3. new \in Node
    BY <2>2, NodeUpdates
  <2>4. new.abstract /\ new.atoms = {} /\ new.rights # {} /\ new.evidence > 0
    BY <2>2 DEF Node
  <2>5. WithStructure(ns, row) = ms
    BY <1>3 DEF WithStructure, old
  <2> HIDE DEF new, x
  <2>6. /\ Mind(ms) /\ DOMAIN ms = DOMAIN ns \cup {x} /\ ms[x] = new
        /\ \A n \in DOMAIN ns : n # x => ms[n] = ns[n]
    BY <1>1, <2>3, <2>4, WithTyped
  <2> HIDE DEF ms
  <2>7. Grown(ns, ms)
    BY <1>3, <2>6, LearntReflexive DEF Grown, Mind
  <2>8. Plain(ns) = Plain(ms) /\ \A n \in Plain(ns) : ms[n].evidence = ns[n].evidence
    BY <1>3, <2>4, <2>6 DEF Plain
  <2> QED
    BY <2>5, <2>6, <2>7, <2>8, SameEvidence
<1> QED
  BY <1>2, <1>3

\* Nodes that change in nothing the mind counts.
LEMMA AlteredGrows ==
    ASSUME NEW ns, NEW ms, Mind(ns), ms \in [DOMAIN ns -> Node],
           \A n \in DOMAIN ns :
               /\ ms[n].abstract = ns[n].abstract /\ ms[n].atoms = ns[n].atoms
               /\ ms[n].evidence = ns[n].evidence /\ ms[n].rights = ns[n].rights
               /\ ns[n].failure <= ms[n].failure /\ ns[n].invalid \subseteq ms[n].invalid
    PROVE  /\ Mind(ms) /\ Grown(ns, ms) /\ Evidence(ms) = Evidence(ns)
           /\ DOMAIN ms = DOMAIN ns
<1>1. DOMAIN ms = DOMAIN ns
  OBVIOUS
<1>2. \A n \in DOMAIN ms : Placed(ms, n)
  BY <1>1 DEF Mind, Placed
<1>3. Mind(ms)
  BY <1>1, <1>2 DEF Mind
<1>4. \A n \in DOMAIN ns : ns[n].evidence <= ms[n].evidence
  BY DEF Mind, Node
<1>5. Grown(ns, ms)
  BY <1>1, <1>4 DEF Grown, Learnt
<1>6. Plain(ns) = Plain(ms) /\ \A n \in Plain(ns) : ms[n].evidence = ns[n].evidence
  BY <1>1 DEF Plain
<1> QED
  BY <1>1, <1>3, <1>5, <1>6, SameEvidence

LEMMA RescopedGrows ==
    ASSUME NEW ns, Mind(ns), NEW x \in DOMAIN ns, NEW row \in Rows
    PROVE  LET ms == Rescoped(ns, x, row)
           IN  Mind(ms) /\ Grown(ns, ms) /\ Evidence(ms) = Evidence(ns)
<1> DEFINE ms == [ns EXCEPT ![x].contexts = <<>>]
<1>1. ns \in [DOMAIN ns -> Node] /\ ns[x] \in Node
  BY DEF Mind
<1>2. [ns[x] EXCEPT !.contexts = <<>>] \in Node
  BY <1>1, NodeUpdates
<1>3. ms = [ns EXCEPT ![x] = [ns[x] EXCEPT !.contexts = <<>>]]
  OBVIOUS
<1>4. ms \in [DOMAIN ns -> Node]
  BY <1>1, <1>2, <1>3
<1>5. \A n \in DOMAIN ns : ns[n] \in Node /\ ns[n].failure <= ns[n].failure
  BY DEF Mind, Node
<1>6. \A n \in DOMAIN ns :
               /\ ms[n].abstract = ns[n].abstract /\ ms[n].atoms = ns[n].atoms
               /\ ms[n].evidence = ns[n].evidence /\ ms[n].rights = ns[n].rights
               /\ ms[n].failure = ns[n].failure /\ ms[n].invalid = ns[n].invalid
  BY <1>1, <1>5 DEF Node
<1> HIDE DEF ms
<1>7. Mind(ms) /\ Grown(ns, ms) /\ Evidence(ms) = Evidence(ns)
  BY <1>4, <1>5, <1>6, AlteredGrows
<1>8. Grown(ns, ns)
  BY LearntReflexive DEF Mind, Grown
<1> QED
  BY <1>7, <1>8 DEF Rescoped, ms

LEMMA UpsertEdgesTyped ==
    ASSUME NEW es, Graph(es), NEW S, IsFiniteSet(S) PROVE Graph(UpsertEdges(es, S))
<1> DEFINE fs == UpsertEdges(es, S)
<1>1. DOMAIN fs = DOMAIN es \cup S
  BY DEF UpsertEdges
<1>2. \A e \in DOMAIN es \cup S :
        (IF e \in DOMAIN es THEN es[e] ELSE 0) + (IF e \in S THEN 1 ELSE 0) \in Nat \ {0}
  BY DEF Graph
<1>3. fs \in [DOMAIN fs -> Nat \ {0}]
  BY <1>1, <1>2 DEF UpsertEdges
<1>4. IsFiniteSet(DOMAIN fs)
  BY <1>1, FS_Union DEF Graph
<1> QED
  BY <1>3, <1>4 DEF Graph

LEMMA MembersFinite ==
    ASSUME NEW row \in Rows, NEW id
    PROVE  IsFiniteSet({<<id, m, "member_of">> : m \in row.members \ {id}})
<1> DEFINE D == row.members \ {id}
           T == {<<id, m, "member_of">> : m \in D}
           f == [m \in D |-> <<id, m, "member_of">>]
<1>1. IsFiniteSet(D)
  BY MindStoreAssumption, FS_Difference
<1>2. f \in [D -> T] /\ \A x \in T : \E m \in D : f[m] = x
  OBVIOUS
<1>3. f \in Surjection(D, T)
  BY <1>2 DEF Surjection
<1> QED
  BY <1>1, <1>3, FS_Surjection

-----------------------------------------------------------------------------
(* The steps                                                               *)

\* What every fold into the nodes of ns does, whichever node takes the row in.
LEMMA FoldedGrows ==
    ASSUME NEW ns, Mind(ns), Graph(edges), NEW id \in Ids, NEW row \in Rows,
           Folded(id, ns, row)
    PROVE  /\ Mind(nodes') /\ Grown(ns, nodes') /\ Evidence(nodes') = Evidence(ns) + 1
           /\ Graph(edges')
<1> DEFINE plain   == UpsertNode(ns, id, row)
           members == {<<id, m, "member_of">> : m \in row.members \ {id}}
<1>1. Mind(plain) /\ Grown(ns, plain) /\ Evidence(plain) = Evidence(ns) + 1
  BY UpsertGrows
<1>2. IsFiniteSet(members)
  BY MembersFinite
<1> DEFINE full == WithStructure(plain, row)
           all  == members \cup {<<id, Shape(row), "abstracted_as">>}
<1>3. /\ row.kind = "sleep" => nodes' = full /\ edges' = UpsertEdges(edges, all)
      /\ row.kind # "sleep" => nodes' = plain /\ edges' = UpsertEdges(edges, members)
  BY DEF Folded
<1> HIDE DEF plain, members
<1>4. Mind(full) /\ Grown(plain, full) /\ Evidence(full) = Evidence(plain)
  BY <1>1, StructureGrows
<1>5. IsFiniteSet(all)
  BY <1>2, FS_AddElement
<1> HIDE DEF full, all
<1>6. Grown(ns, full)
  BY <1>1, <1>4, GrownTransitive
<1>7. CASE row.kind = "sleep"
  BY <1>1, <1>3, <1>4, <1>5, <1>6, <1>7, UpsertEdgesTyped
<1>8. CASE row.kind # "sleep"
  BY <1>1, <1>2, <1>3, <1>8, UpsertEdgesTyped
<1> QED
  BY <1>7, <1>8

LEMMA ContradictedGrows ==
    ASSUME Mind(nodes), NEW x \in DOMAIN nodes, NEW row \in Rows, Contradicted(x, row)
    PROVE  Mind(nodes') /\ Grown(nodes, nodes') /\ Evidence(nodes') = Evidence(nodes)
<1> DEFINE more == IF row.kind = "sleep" THEN Cardinality(row.invalid)
                   ELSE IF row.failure > 0 THEN row.failure ELSE 1
           old  == nodes[x]
<1>1. more \in Nat
  BY MindStoreAssumption, FS_CardinalityType
<1>2. row \in Signals /\ row.invalid \in SUBSET Reasons
  BY SignalTyped DEF Signals
<1>3. nodes \in [DOMAIN nodes -> Node] /\ old \in Node
  BY DEF Mind
<1> DEFINE new == [old EXCEPT !.failure = old.failure + more, !.invalid = old.invalid \cup row.invalid]
<1>4. nodes' = [nodes EXCEPT ![x] = new]
  BY <1>3 DEF Contradicted
<1> HIDE DEF more
<1>5. old.failure + more \in Nat /\ old.invalid \cup row.invalid \in SUBSET Reasons
  BY <1>1, <1>2, <1>3 DEF Node
<1>6. new \in Node
  BY <1>3, <1>5, NodeUpdates
<1>7. /\ new.abstract = old.abstract /\ new.atoms = old.atoms /\ new.evidence = old.evidence
      /\ new.rights = old.rights /\ new.failure = old.failure + more
      /\ new.invalid = old.invalid \cup row.invalid
  BY <1>3 DEF Node
<1>8. old.failure <= old.failure + more
  BY <1>1, <1>3 DEF Node
<1> HIDE DEF new
<1> DEFINE ms == [nodes EXCEPT ![x] = new]
<1>9. ms \in [DOMAIN nodes -> Node]
  BY <1>3, <1>6
<1>10. \A n \in DOMAIN nodes : nodes[n] \in Node /\ nodes[n].failure <= nodes[n].failure
  BY DEF Mind, Node
<1>11. \A n \in DOMAIN nodes :
               /\ ms[n].abstract = nodes[n].abstract /\ ms[n].atoms = nodes[n].atoms
               /\ ms[n].evidence = nodes[n].evidence /\ ms[n].rights = nodes[n].rights
               /\ nodes[n].failure <= ms[n].failure /\ nodes[n].invalid \subseteq ms[n].invalid
  BY <1>3, <1>7, <1>8, <1>10
<1> HIDE DEF ms
<1>12. Mind(ms) /\ Grown(nodes, ms) /\ Evidence(ms) = Evidence(nodes)
  BY <1>9, <1>11, AlteredGrows
<1> QED
  BY <1>4, <1>12 DEF ms

LEMMA EventGrows ==
    ASSUME Mind(nodes), NEW event \in Events, IngestEvent(event)
    PROVE  Mind(nodes') /\ Grown(nodes, nodes') /\ Evidence(nodes') = Evidence(nodes)
<1> DEFINE once == IF event.effect > 0 THEN 1 ELSE 0
           won  == IF event.success THEN once ELSE 0
           lost == IF event.success THEN 0 ELSE once
           ms   == [n \in DOMAIN nodes |-> IF n \in event.active THEN WithEffect(nodes[n], event)
                                           ELSE nodes[n]]
<1>1. event.effect \in Nat /\ won \in Nat /\ lost \in Nat
  BY MindStoreAssumption
<1>2. ASSUME NEW n \in DOMAIN nodes
      PROVE  /\ ms[n] \in Node
             /\ ms[n].abstract = nodes[n].abstract /\ ms[n].atoms = nodes[n].atoms
             /\ ms[n].evidence = nodes[n].evidence /\ ms[n].rights = nodes[n].rights
             /\ nodes[n].failure <= ms[n].failure /\ nodes[n].invalid \subseteq ms[n].invalid
  <2> DEFINE old == nodes[n]
             new == [old EXCEPT !.effects = old.effects + event.effect,
                                !.success = old.success + won, !.failure = old.failure + lost]
  <2>1. old \in Node
    BY DEF Mind
  <2>2. WithEffect(old, event) = new
    BY <2>1 DEF WithEffect, Node
  <2>3. /\ old.effects + event.effect \in Nat /\ old.success + won \in Nat
        /\ old.failure + lost \in Nat /\ old.failure <= old.failure + lost
        /\ old.failure <= old.failure
    BY <1>1, <2>1 DEF Node
  <2> HIDE DEF won, lost
  <2>4. new \in Node
    BY <2>1, <2>3, NodeUpdates DEF Node
  <2>5. /\ new.abstract = old.abstract /\ new.atoms = old.atoms /\ new.evidence = old.evidence
        /\ new.rights = old.rights /\ new.failure = old.failure + lost
        /\ new.invalid = old.invalid
    BY <2>1 DEF Node
  <2>6. ms[n] = IF n \in event.active THEN new ELSE old
    BY <2>2
  <2> HIDE DEF new, ms
  <2> QED
    BY <2>1, <2>3, <2>4, <2>5, <2>6
<1>3. ms \in [DOMAIN nodes -> Node]
  <2>1. DOMAIN ms = DOMAIN nodes /\ ms = [n \in DOMAIN nodes |-> ms[n]]
    OBVIOUS
  <2> HIDE DEF ms
  <2> QED
    BY <1>2, <2>1
<1>4. nodes' = ms
  BY DEF IngestEvent
<1> HIDE DEF ms
<1>5. Mind(ms) /\ Grown(nodes, ms) /\ Evidence(ms) = Evidence(nodes)
  BY <1>2, <1>3, AlteredGrows
<1> QED
  BY <1>4, <1>5

\* A residual that does not fit pushes another one out.
LEMMA HeldBounded ==
    ASSUME residuals \in Seq(Rows), Len(residuals) <= MaxResiduals, NEW row \in Rows,
           NEW rs \in Holding(residuals, row)
    PROVE  /\ rs \in Seq(Rows) /\ Len(rs) <= MaxResiduals /\ Len(rs) <= Len(residuals) + 1
           /\ Len(rs) \in Nat
<1> DEFINE all == Append(residuals, row)
<1>1. all \in Seq(Rows) /\ Len(all) = Len(residuals) + 1 /\ Len(residuals) \in Nat
  BY AppendProperties, LenProperties
<1>2. MaxResiduals \in Nat
  BY MindStoreAssumption
<1>3. \/ rs = all /\ Len(all) <= MaxResiduals
      \/ ~(Len(all) <= MaxResiduals) /\ \E i \in DOMAIN all : rs = RemoveAt(all, i)
  BY DEF Holding
<1> HIDE DEF all
<1>4. CASE rs = all /\ Len(all) <= MaxResiduals
  BY <1>1, <1>4
<1>5. CASE ~(Len(all) <= MaxResiduals) /\ \E i \in DOMAIN all : rs = RemoveAt(all, i)
  <2>1. PICK i \in 1 .. Len(all) : rs = RemoveAt(all, i)
    BY <1>1, <1>5, LenProperties
  <2> DEFINE n == Len(all)
             a == SubSeq(all, 1, i - 1)
             b == SubSeq(all, i + 1, n)
  <2>2. n \in Nat /\ i \in Int /\ 1 <= i /\ i <= n
    BY <1>1
  <2>3. \A j \in 1 .. n : all[j] \in Rows
    BY <1>1, ElementOfSeq
  <2>4. a \in Seq(Rows) /\ Len(a) = i - 1
    <3>1. \A j \in 1 .. (i - 1) : all[j] \in Rows
      BY <2>2, <2>3
    <3>2. 1 \in Int /\ i - 1 \in Int
      BY <2>2
    <3>3. Len(a) = IF 1 <= i - 1 THEN (i - 1) - 1 + 1 ELSE 0
      BY <3>1, <3>2, SubSeqProperties
    <3>4. a \in Seq(Rows)
      BY <3>1, <3>2, SubSeqProperties
    <3> QED
      BY <2>2, <3>3, <3>4
  <2>5. b \in Seq(Rows) /\ Len(b) = n - i
    <3>1. \A j \in (i + 1) .. n : all[j] \in Rows
      BY <2>2, <2>3
    <3>2. i + 1 \in Int /\ n \in Int
      BY <2>2
    <3>3. Len(b) = IF i + 1 <= n THEN n - (i + 1) + 1 ELSE 0
      BY <3>1, <3>2, SubSeqProperties
    <3>4. b \in Seq(Rows)
      BY <3>1, <3>2, SubSeqProperties
    <3> QED
      BY <2>2, <3>3, <3>4
  <2>6. rs = a \o b
    BY <2>1 DEF RemoveAt
  <2> HIDE DEF a, b, n
  <2>7. rs \in Seq(Rows) /\ Len(rs) = Len(a) + Len(b)
    BY <2>4, <2>5, <2>6, ConcatProperties
  <2>8. Len(rs) = n - 1
    BY <2>2, <2>4, <2>5, <2>7
  <2> QED
    BY <1>1, <1>2, <1>5, <2>7, <2>8 DEF n
<1> QED
  BY <1>3, <1>4, <1>5

\* What a verdict names holds rows, not structures.
LEMMA ExplainedByRows ==
    ASSUME NEW ns, Mind(ns), NEW row \in Rows, NEW e \in Explanations(ns, row)
    PROVE  e.verdict # "new" => e.by \in DOMAIN ns /\ e.by \in Ids
<1> SUFFICES ASSUME e.verdict # "new" PROVE e.by \in DOMAIN ns /\ e.by \in Ids
  OBVIOUS
<1>1. e.by \in BestMatches(ns, row)
  BY DEF Explanations
<1>2. e.by \in DOMAIN ns /\ ns[e.by].atoms \cap row.atoms # {}
  BY <1>1 DEF BestMatches
<1> QED
  BY <1>2 DEF Mind, Placed

\* A row is evidence of a node, a residual, or gone.
LEMMA IngestKeeps ==
    ASSUME MindKept, NEW row \in Rows, Ingest(row)
    PROVE  MindKept' /\ Grown(nodes, nodes')
<1> DEFINE n == Len(residuals)
           m == Len(residuals')
<1>1. /\ Mind(nodes) /\ Graph(edges)
      /\ residuals \in Seq(Rows) /\ n <= MaxResiduals /\ n \in Nat
      /\ world \in Nat /\ world < MaxRows /\ gone \in Nat /\ Evidence(nodes) \in Nat
      /\ world = Evidence(nodes) + n + gone
  BY CountedFinite, LenProperties, MindStoreAssumption
     DEF MindKept, Typed, EvidenceAccounted, Ingest
<1>2. stage' = "ingest" /\ world' = world + 1
  BY DEF Ingest
<1>3. row.id \in Ids
  BY DEF Ids
<1> DEFINE Sound ==
        /\ Mind(nodes') /\ Graph(edges') /\ Grown(nodes, nodes')
        /\ residuals' \in Seq(Rows) /\ m <= MaxResiduals /\ gone' \in Nat
        /\ world' = Evidence(nodes') + m + gone'
<1>4. ASSUME NEW ns, NEW id \in Ids, Mind(ns), Grown(nodes, ns), Evidence(ns) = Evidence(nodes),
             Folded(id, ns, row), UNCHANGED <<residuals, gone>>
      PROVE  Sound
  <2>1. /\ Mind(nodes') /\ Grown(ns, nodes') /\ Evidence(nodes') = Evidence(ns) + 1
        /\ Graph(edges')
    BY <1>1, <1>4, FoldedGrows
  <2>2. Grown(nodes, nodes')
    BY <1>1, <1>4, <2>1, GrownTransitive
  <2>3. Evidence(nodes') = Evidence(nodes) + 1 /\ m = n /\ gone' = gone
    BY <1>4, <2>1
  <2>4. world' = Evidence(nodes') + m + gone'
    BY <1>1, <1>2, <2>3
  <2> QED
    BY <1>1, <1>4, <2>1, <2>2, <2>4
<1>5. Grown(nodes, nodes)
  BY <1>1, LearntReflexive DEF Mind, Grown
<1>6. ASSUME Known(row) PROVE Sound
  BY <1>1, <1>3, <1>4, <1>5, <1>6 DEF Known
<1>7. ASSUME Unknown(row) PROVE Sound
  <2>1. PICK e \in Explanations(nodes, row) :
         \/ e.verdict = "residual" /\ Held(row)
         \/ e.verdict = "contradiction" /\ Contradicted(e.by, row)
         \/ /\ e.verdict = "new"
            /\ Folded(row.id, nodes, row) /\ UNCHANGED <<residuals, gone>>
         \/ /\ e.verdict = "assimilated"
            /\ Folded(e.by, Rescoped(nodes, e.by, row), row) /\ UNCHANGED <<residuals, gone>>
    BY <1>7 DEF Unknown
  <2>2. e.verdict # "new" => e.by \in DOMAIN nodes /\ e.by \in Ids
    BY <1>1, ExplainedByRows
  <2>3. CASE e.verdict = "residual" /\ Held(row)
    <3>1. m <= MaxResiduals /\ residuals' \in Seq(Rows) /\ m <= n + 1 /\ m \in Nat
      BY <1>1, <2>3, HeldBounded DEF Held
    <3>2. gone' = gone + n + 1 - m /\ nodes' = nodes /\ edges' = edges
      BY <2>3 DEF Held
    <3> HIDE DEF n, m
    <3>3. gone' \in Nat /\ world' = Evidence(nodes) + m + gone'
      BY <1>1, <1>2, <3>1, <3>2
    <3> QED
      BY <1>1, <1>5, <3>1, <3>2, <3>3
  <2>4. CASE e.verdict = "contradiction" /\ Contradicted(e.by, row)
    <3>1. Mind(nodes') /\ Grown(nodes, nodes') /\ Evidence(nodes') = Evidence(nodes)
      BY <1>1, <2>2, <2>4, ContradictedGrows
    <3>2. gone' = gone + 1 /\ edges' = edges /\ residuals' = residuals
      BY <2>4 DEF Contradicted
    <3> QED
      BY <1>1, <1>2, <3>1, <3>2
  <2>5. CASE /\ e.verdict = "new"
             /\ Folded(row.id, nodes, row) /\ UNCHANGED <<residuals, gone>>
    BY <1>1, <1>3, <1>4, <1>5, <2>5
  <2>6. CASE /\ e.verdict = "assimilated"
             /\ Folded(e.by, Rescoped(nodes, e.by, row), row) /\ UNCHANGED <<residuals, gone>>
    <3> DEFINE ns == Rescoped(nodes, e.by, row)
    <3>1. Mind(ns) /\ Grown(nodes, ns) /\ Evidence(ns) = Evidence(nodes)
      BY <1>1, <2>2, <2>6, RescopedGrows
    <3>2. e.by \in Ids /\ Folded(e.by, ns, row) /\ UNCHANGED <<residuals, gone>>
      BY <2>2, <2>6
    <3> HIDE DEF ns, Sound
    <3> QED
      BY <1>4, <3>1, <3>2
  <2> QED
    BY <2>1, <2>3, <2>4, <2>5, <2>6
<1>8. Sound
  BY <1>6, <1>7 DEF Ingest
<1>9. world' \in 0 .. MaxRows
  BY <1>1, <1>2, MindStoreAssumption
<1>10. Typed'
  BY <1>2, <1>8, <1>9 DEF Typed
<1>11. WrittenWhole' /\ EvidenceAccounted'
  BY <1>2, <1>8 DEF WrittenWhole, EvidenceAccounted
<1> QED
  BY <1>8, <1>10, <1>11 DEF MindKept

LEMMA EventKeeps ==
    ASSUME MindKept, NEW event \in Events, IngestEvent(event)
    PROVE  MindKept' /\ Grown(nodes, nodes')
<1>1. /\ Mind(nodes) /\ Graph(edges) /\ Len(residuals) \in Nat
      /\ world \in Nat /\ world < MaxRows /\ gone \in Nat /\ Evidence(nodes) \in Nat
      /\ world = Evidence(nodes) + Len(residuals) + gone
  BY CountedFinite, LenProperties, MindStoreAssumption
     DEF MindKept, Typed, EvidenceAccounted, IngestEvent
<1>2. Mind(nodes') /\ Grown(nodes, nodes') /\ Evidence(nodes') = Evidence(nodes)
  BY <1>1, EventGrows
<1>3. /\ stage' = "ingest" /\ world' = world + 1 /\ gone' = gone + 1
      /\ edges' = edges /\ residuals' = residuals
  BY DEF IngestEvent
<1>4. world' \in 0 .. MaxRows /\ gone' \in Nat
  BY <1>1, <1>3, MindStoreAssumption
<1>5. world' = Evidence(nodes') + Len(residuals') + gone'
  BY <1>1, <1>2, <1>3
<1>6. Typed'
  BY <1>2, <1>3, <1>4 DEF MindKept, Typed, Graph
<1> QED
  BY <1>2, <1>3, <1>5, <1>6 DEF MindKept, WrittenWhole, EvidenceAccounted

\* What is kept fits, and nothing of what must be kept goes while anything else
\* stays.
LEMMA KeptBounded ==
    ASSUME NEW ns, Mind(ns), NEW kept \in Kept(ns)
    PROVE  /\ kept \in SUBSET DOMAIN ns /\ Cardinality(kept) <= MaxNodes
           /\ Safety(ns) \subseteq kept \/ kept \subseteq Safety(ns)
<1> DEFINE D == DOMAIN ns
           safe == Safety(ns)
           rest == D \ safe
<1>1. safe \subseteq D
  BY DEF Safety
<1> HIDE DEF safe, D
<1>2. \/ Cardinality(D) <= MaxNodes /\ kept = D
      \/ /\ Cardinality(safe) > MaxNodes
         /\ kept \in SUBSET safe
         /\ Cardinality(kept) = (IF MaxNodes < Cardinality(safe) THEN MaxNodes
                                 ELSE Cardinality(safe))
      \/ /\ ~(Cardinality(safe) > MaxNodes)
         /\ \E T \in SUBSET rest :
              /\ kept = safe \cup T
              /\ Cardinality(T) = (IF MaxNodes - Cardinality(safe) < Cardinality(rest)
                                   THEN MaxNodes - Cardinality(safe) ELSE Cardinality(rest))
  BY DEF Kept, Top, safe, D
<1>3. IsFiniteSet(D) /\ IsFiniteSet(safe) /\ IsFiniteSet(rest)
  BY <1>1, FS_Subset DEF Mind, D
<1>4. Cardinality(D) \in Nat /\ Cardinality(safe) \in Nat /\ Cardinality(rest) \in Nat
  BY <1>3, FS_CardinalityType
<1>5. MaxNodes \in Nat
  BY MindStoreAssumption
<1>6. CASE Cardinality(D) <= MaxNodes /\ kept = D
  BY <1>1, <1>6 DEF safe, D
<1>7. CASE /\ Cardinality(safe) > MaxNodes
           /\ kept \in SUBSET safe
           /\ Cardinality(kept) = (IF MaxNodes < Cardinality(safe) THEN MaxNodes
                                   ELSE Cardinality(safe))
  <2>1. Cardinality(kept) <= MaxNodes
    BY <1>4, <1>5, <1>7
  <2> QED
    BY <1>1, <1>7, <2>1 DEF safe, D
<1>8. CASE /\ ~(Cardinality(safe) > MaxNodes)
           /\ \E T \in SUBSET rest :
                /\ kept = safe \cup T
                /\ Cardinality(T) = (IF MaxNodes - Cardinality(safe) < Cardinality(rest)
                                     THEN MaxNodes - Cardinality(safe) ELSE Cardinality(rest))
  <2>1. PICK T \in SUBSET rest :
                /\ kept = safe \cup T
                /\ Cardinality(T) = (IF MaxNodes - Cardinality(safe) < Cardinality(rest)
                                     THEN MaxNodes - Cardinality(safe) ELSE Cardinality(rest))
    BY <1>8
  <2>2. Cardinality(T) <= MaxNodes - Cardinality(safe) /\ Cardinality(T) \in Int
    BY <1>4, <1>5, <1>8, <2>1
  <2>3. IsFiniteSet(T) /\ safe \cap T = {}
    BY <1>3, <2>1, FS_Subset
  <2>4. Cardinality(safe \cap T) = 0
    BY <2>3, FS_EmptySet
  <2>5. Cardinality(kept) = Cardinality(safe) + Cardinality(T) - Cardinality(safe \cap T)
    BY <1>3, <2>1, <2>3, FS_Union
  <2>6. Cardinality(kept) <= MaxNodes
    BY <1>4, <1>5, <2>2, <2>4, <2>5
  <2> QED
    BY <1>1, <2>1, <2>6 DEF safe, D
<1> QED
  BY <1>2, <1>6, <1>7, <1>8

LEMMA KeptEdgesBounded ==
    ASSUME NEW es, Graph(es), NEW kept, NEW left \in KeptEdges(es, kept)
    PROVE  left \in SUBSET DOMAIN es /\ Cardinality(left) <= MaxEdges
<1> DEFINE valid == {e \in DOMAIN es : e[1] \in kept /\ e[2] \in kept}
<1>1. \/ Cardinality(DOMAIN es) <= MaxEdges /\ left = DOMAIN es
      \/ /\ left \in SUBSET valid
         /\ Cardinality(left) = (IF MaxEdges < Cardinality(valid) THEN MaxEdges
                                 ELSE Cardinality(valid))
  BY DEF KeptEdges, Top
<1>2. IsFiniteSet(valid) /\ valid \subseteq DOMAIN es
  BY FS_Subset DEF Graph
<1> HIDE DEF valid
<1>3. Cardinality(valid) \in Nat /\ MaxEdges \in Nat
  BY <1>2, FS_CardinalityType, MindStoreAssumption
<1> QED
  BY <1>1, <1>2, <1>3

\* Pruning forgets whole nodes, and those that carry nothing first.
Shrunk(ns, ms) ==
    \E kept \in SUBSET DOMAIN ns :
        /\ ms = [n \in kept |-> ns[n]]
        /\ Safety(ns) \subseteq kept \/ kept \subseteq Safety(ns)

LEMMA WriteKeeps == ASSUME MindKept, WriteCompact PROVE MindKept' /\ Shrunk(nodes, nodes')
<1> DEFINE Write(kept, left) ==
         /\ nodes' = [n \in kept |-> nodes[n]]
         /\ edges' = [e \in left |-> edges[e]]
         /\ gone' = gone + Evidence(nodes) - Evidence(nodes')
<1>12. PICK kept \in Kept(nodes) : \E left \in KeptEdges(edges, kept) : Write(kept, left)
  BY DEF WriteCompact
<1>1. PICK left \in KeptEdges(edges, kept) : Write(kept, left)
  BY <1>12
<1>2. /\ Mind(nodes) /\ Graph(edges) /\ Len(residuals) \in Nat
      /\ world \in Nat /\ gone \in Nat /\ Evidence(nodes) \in Nat
      /\ world = Evidence(nodes) + Len(residuals) + gone
  BY CountedFinite, LenProperties, MindStoreAssumption DEF MindKept, Typed, EvidenceAccounted
<1>3. /\ kept \in SUBSET DOMAIN nodes /\ Cardinality(kept) <= MaxNodes
      /\ Safety(nodes) \subseteq kept \/ kept \subseteq Safety(nodes)
  BY <1>2, KeptBounded
<1>4. left \in SUBSET DOMAIN edges /\ Cardinality(left) <= MaxEdges
  BY <1>2, KeptEdgesBounded
<1>5. Mind(nodes') /\ Evidence(nodes') \in Nat /\ Evidence(nodes') <= Evidence(nodes)
  BY <1>1, <1>2, <1>3, Pruned
<1>6. Graph(edges')
  <2>1. IsFiniteSet(left) /\ DOMAIN edges' = left
    BY <1>1, <1>2, <1>4, FS_Subset DEF Graph
  <2>2. edges' \in [left -> Nat \ {0}]
    BY <1>1, <1>2, <1>4 DEF Graph
  <2> QED
    BY <2>1, <2>2 DEF Graph
<1>7. world' = world /\ residuals' = residuals /\ stage' = "written"
  BY DEF WriteCompact
<1>8. gone' \in Nat /\ world' = Evidence(nodes') + Len(residuals') + gone'
  BY <1>1, <1>2, <1>5, <1>7
<1>9. Typed'
  BY <1>5, <1>6, <1>7, <1>8 DEF MindKept, Typed
<1>10. WrittenWhole'
  <2>1. disk' = [nodes |-> [n \in DOMAIN nodes' |-> Serialised(nodes'[n])], edges |-> edges',
                 residuals |-> residuals]
    BY DEF WriteCompact
  <2>2. DOMAIN nodes' = kept /\ DOMAIN edges' = left
    BY <1>1
  <2> QED
    BY <1>3, <1>4, <1>7, <2>1, <2>2 DEF WrittenWhole
<1>11. Shrunk(nodes, nodes')
  BY <1>1, <1>3 DEF Shrunk
<1> QED
  BY <1>8, <1>9, <1>10, <1>11 DEF MindKept, EvidenceAccounted

\* The file brings back what was written but for the roles.
LEMMA LoadKeeps == ASSUME MindKept, Load PROVE MindKept' /\ Grown(nodes, nodes')
<1> DEFINE ms == [n \in DOMAIN nodes |-> Serialised(nodes[n])]
<1>1. disk = [nodes |-> ms, edges |-> edges, residuals |-> residuals]
  BY DEF MindKept, WrittenWhole, Load
<1>2. /\ nodes' = ms /\ edges' = edges /\ residuals' = residuals
      /\ stage' = "ingest" /\ world' = world /\ gone' = gone
  BY <1>1 DEF Load, history
<1>3. Mind(nodes)
  BY DEF MindKept, Typed
<1>4. ASSUME NEW n \in DOMAIN nodes
      PROVE  /\ ms[n] \in Node
             /\ ms[n].abstract = nodes[n].abstract /\ ms[n].atoms = nodes[n].atoms
             /\ ms[n].evidence = nodes[n].evidence /\ ms[n].rights = nodes[n].rights
             /\ nodes[n].failure <= ms[n].failure /\ nodes[n].invalid \subseteq ms[n].invalid
  <2>1. nodes[n] \in Node /\ ms[n] = [nodes[n] EXCEPT !.roles = {}]
    BY <1>3 DEF Mind, Serialised
  <2>2. ms[n] \in Node
    <3>1. 0 \in Nat /\ {} \in SUBSET Reasons /\ TRUE \in BOOLEAN
      OBVIOUS
    <3>2. [nodes[n] EXCEPT !.roles = {}] \in Node
      BY <2>1, <3>1, NodeUpdates
    <3> QED
      BY <2>1, <3>2
  <2> QED
    BY <2>1, <2>2 DEF Node
<1>5. ms \in [DOMAIN nodes -> Node]
  <2>1. ms = [n \in DOMAIN nodes |-> ms[n]]
    OBVIOUS
  <2> HIDE DEF ms
  <2> QED
    BY <1>4, <2>1
<1> HIDE DEF ms
<1>6. Mind(ms) /\ Grown(nodes, ms) /\ Evidence(ms) = Evidence(nodes)
  BY <1>3, <1>4, <1>5, AlteredGrows
<1>7. Typed'
  BY <1>2, <1>6 DEF MindKept, Typed
<1> QED
  BY <1>2, <1>6, <1>7 DEF MindKept, WrittenWhole, EvidenceAccounted

-----------------------------------------------------------------------------
(* The theorems                                                            *)

LEMMA Initially == MindInit => MindKept
<1> SUFFICES ASSUME MindInit PROVE MindKept
  OBVIOUS
<1>1. residuals \in Seq(Rows) /\ Len(residuals) = 0
  BY EmptySeq DEF MindInit
<1> QED
  BY <1>1, EmptyMind, MindStoreAssumption
     DEF MindInit, MindKept, Typed, WrittenWhole, EvidenceAccounted

\* A step keeps the invariant, and adds to the nodes unless it prunes them.
LEMMA StepKeeps ==
    ASSUME MindKept, [MindNext]_mindVars
    PROVE  MindKept' /\ (Grown(nodes, nodes') \/ Shrunk(nodes, nodes'))
<1>1. CASE UNCHANGED mindVars
  <2>1. UNCHANGED <<nodes, edges, residuals, disk, stage, world, gone>>
    BY <1>1 DEF mindVars, memory, history
  <2>2. Grown(nodes, nodes')
    BY <2>1, LearntReflexive DEF MindKept, Typed, Mind, Grown
  <2> QED
    BY <2>1, <2>2 DEF MindKept, Typed, WrittenWhole, EvidenceAccounted
<1>2. ASSUME NEW row \in Rows, Ingest(row)
      PROVE  MindKept' /\ Grown(nodes, nodes')
  BY <1>2, IngestKeeps
<1>3. ASSUME NEW event \in Events, IngestEvent(event)
      PROVE  MindKept' /\ Grown(nodes, nodes')
  BY <1>3, EventKeeps
<1>4. ASSUME NEW row \in Refused, Refuse(row) PROVE UNCHANGED mindVars
  BY <1>4 DEF Refuse
<1>5. CASE WriteCompact
  BY <1>5, WriteKeeps
<1>6. CASE Load
  BY <1>6, LoadKeeps
<1> QED
  BY <1>1, <1>2, <1>3, <1>4, <1>5, <1>6 DEF MindNext

\* MindKept is an inductive invariant.
THEOREM MindInvariance == MindSpec => []MindKept
<1>1. MindKept /\ [MindNext]_mindVars => MindKept'
  BY StepKeeps
<1> QED
  BY <1>1, Initially, PTL DEF MindSpec

\* Types, caps and what a mind just written holds (nethra_mind_store.py).
THEOREM MindTyped == MindSpec => []MindTypeOK
<1>1. ASSUME MindKept PROVE MindTypeOK
  <2>1. ASSUME NEW n \in DOMAIN nodes PROVE NodeType(nodes[n])
    BY <1>1 DEF MindKept, Typed, Mind, Placed, Node, ContextLists, NodeType
  <2>2. ASSUME NEW e \in DOMAIN edges PROVE edges[e] > 0
    <3>1. edges[e] \in Nat \ {0}
      BY <1>1 DEF MindKept, Typed, Graph
    <3> QED
      BY <3>1
  <2> QED
    BY <1>1, <2>1, <2>2 DEF MindKept, Typed, WrittenWhole, MindTypeOK
<1> QED
  BY <1>1, MindInvariance, PTL

\* Every world-backed row counts once, through folds, residuals, prunings and
\* reloads (ingest_record, ingest_sleep_product, write_compact, load).
THEOREM RowsAccounted == MindSpec => []EvidenceAccounted
<1>1. MindKept => EvidenceAccounted
  BY DEF MindKept
<1> QED
  BY <1>1, MindInvariance, PTL

\* Pruning drops no node that carries a failure, an invalidator or an effect while
\* one that carries none stays (prune_to_cap).
THEOREM SafetyFirst == MindSpec => SafetyKept
<1> DEFINE Safe == (Safety(nodes) \ DOMAIN nodes') # {} => DOMAIN nodes' \subseteq Safety(nodes)
<1>1. ASSUME MindKept, [MindNext]_mindVars PROVE Safe
  <2>1. CASE Grown(nodes, nodes')
    BY <2>1 DEF Grown, Safety
  <2>2. CASE Shrunk(nodes, nodes')
    BY <2>2 DEF Shrunk
  <2> QED
    BY <1>1, <2>1, <2>2, StepKeeps
<1>2. MindKept /\ [MindNext]_mindVars => [Safe]_nodes
  BY <1>1
<1> QED
  BY <1>2, MindInvariance, PTL DEF MindSpec, SafetyKept

\* No step takes a right, a failure, an invalidator or a piece of evidence from a
\* node that stays (upsert_node, to_dict, load).
THEOREM RightsKept == MindSpec => NothingUnlearned
<1> DEFINE Stays ==
        \A n \in DOMAIN nodes \cap DOMAIN nodes' :
            /\ nodes[n].rights \subseteq nodes'[n].rights
            /\ nodes[n].failure <= nodes'[n].failure
            /\ nodes[n].evidence <= nodes'[n].evidence
            /\ nodes[n].invalid \subseteq nodes'[n].invalid
<1>1. ASSUME MindKept, [MindNext]_mindVars PROVE Stays
  <2>1. CASE Grown(nodes, nodes')
    BY <2>1 DEF Grown, Learnt
  <2>2. CASE Shrunk(nodes, nodes')
    <3>1. \A n \in DOMAIN nodes : Learnt(nodes[n], nodes[n])
      BY <1>1, LearntReflexive DEF MindKept, Typed, Mind
    <3>2. \A n \in DOMAIN nodes' : nodes'[n] = nodes[n]
      BY <2>2 DEF Shrunk
    <3> QED
      BY <3>1, <3>2 DEF Learnt
  <2> QED
    BY <1>1, <2>1, <2>2, StepKeeps
<1>2. MindKept /\ [MindNext]_mindVars => [Stays]_nodes
  BY <1>1
<1> QED
  BY <1>2, MindInvariance, PTL DEF MindSpec, NothingUnlearned
-----------------------------------------------------------------------------
(* The scaffold loop: lists                                                *)

\* Induction over the naturals, for a set of them.
LEMMA SetInduction ==
  ASSUME NEW S, 0 \in S, \A n \in Nat : n \in S => n + 1 \in S
  PROVE  Nat \subseteq S
<1> SUFFICES ASSUME Nat \ S # {} PROVE FALSE
  OBVIOUS
<1> DEFINE R == OpToRel(<, Nat)
           T == Nat \ S
<1>1. IsWellFoundedOn(R, Nat)
  BY NatLessThanWellFounded
<1>2. T \subseteq Nat /\ T # {}
  OBVIOUS
<1>3. \E x \in T : \A y \in T : ~(<<y, x>> \in R)
  <2> HIDE DEF R, T
  <2> QED
    BY <1>1, <1>2, WFMin
<1>4. \A x, y \in Nat : <<x, y>> \in R <=> x < y
  BY DEF OpToRel
<1>5. PICK x \in T : \A y \in T : ~(y < x)
  BY <1>3, <1>4
<1>6. x # 0 /\ x \in Nat /\ x - 1 \in Nat /\ x - 1 < x
  BY <1>5
<1>7. x - 1 \in S
  BY <1>5, <1>6
<1>8. (x - 1) + 1 \in S /\ (x - 1) + 1 = x
  BY <1>6, <1>7
<1> QED
  BY <1>5, <1>8

\* A list whose elements all lie in T is a list over T.
LEMMA SeqOver ==
    ASSUME NEW S, NEW s \in Seq(S), NEW T, \A i \in 1 .. Len(s) : s[i] \in T
    PROVE  s \in Seq(T)
BY LenProperties

LEMMA ToSetOfSeq ==
    ASSUME NEW S, NEW s \in Seq(S)
    PROVE  /\ ToSet(s) = {s[i] : i \in 1 .. Len(s)} /\ ToSet(s) \subseteq S
           /\ s \in Seq(ToSet(s))
<1>1. DOMAIN s = 1 .. Len(s) /\ \A i \in 1 .. Len(s) : s[i] \in S
  BY LenProperties, ElementOfSeq
<1>2. ToSet(s) = {s[i] : i \in 1 .. Len(s)}
  BY <1>1 DEF ToSet
<1>3. \A i \in 1 .. Len(s) : s[i] \in ToSet(s)
  BY <1>2
<1> QED
  BY <1>1, <1>2, <1>3, SeqOver

\* g lists what is picked from the first places of s, step by step.
PicksTo(s, P, n, g) ==
    g = [k \in 0 .. n |-> IF k = 0 THEN <<>>
                          ELSE IF k \in P THEN Append(g[k - 1], s[k]) ELSE g[k - 1]]

LEMMA PicksExist ==
    ASSUME NEW s, NEW P
    PROVE  \A n \in Nat : \E g : PicksTo(s, P, n, g)
<1> DEFINE Good == {n \in Nat : \E g : PicksTo(s, P, n, g)}
           Step(x, k) == IF k \in P THEN Append(x, s[k]) ELSE x
<1>1. 0 \in Good
  <2>1. PicksTo(s, P, 0, [k \in 0 .. 0 |-> <<>>])
    BY DEF PicksTo
  <2> QED
    BY <2>1
<1>2. ASSUME NEW n \in Nat, n \in Good
      PROVE  n + 1 \in Good
  <2>1. PICK g : PicksTo(s, P, n, g)
    BY <1>2
  <2> DEFINE h == [k \in 0 .. (n + 1) |-> IF k = n + 1 THEN Step(g[n], n + 1) ELSE g[k]]
  <2>2. \A k \in 0 .. n : g[k] = IF k = 0 THEN <<>> ELSE Step(g[k - 1], k)
    BY <2>1 DEF PicksTo
  <2> HIDE DEF Step
  <2>3. ASSUME NEW k \in 0 .. (n + 1)
        PROVE  h[k] = IF k = 0 THEN <<>> ELSE Step(h[k - 1], k)
    <3>1. CASE k = n + 1
      <4>1. k # 0 /\ k - 1 = n /\ n \in 0 .. (n + 1) /\ n # n + 1
        BY <3>1
      <4>2. h[k] = Step(g[n], k) /\ h[k - 1] = g[n]
        BY <3>1, <4>1
      <4> QED
        BY <4>1, <4>2
    <3>2. CASE k # n + 1
      <4>1. k \in 0 .. n /\ (k # 0 => k - 1 \in 0 .. n /\ k - 1 \in 0 .. (n + 1) /\ k - 1 # n + 1)
        BY <3>2
      <4>2. h[k] = g[k] /\ (k # 0 => h[k - 1] = g[k - 1])
        BY <3>2, <4>1
      <4> QED
        BY <4>1, <4>2, <2>2
    <3> QED
      BY <3>1, <3>2
  <2>4. PicksTo(s, P, n + 1, h)
    <3>1. h = [k \in 0 .. (n + 1) |-> h[k]]
      OBVIOUS
    <3> HIDE DEF h
    <3> QED
      BY <2>3, <3>1 DEF PicksTo, Step
  <2> QED
    BY <2>4
<1> HIDE DEF Good
<1>3. Nat \subseteq Good
  BY <1>1, <1>2, SetInduction
<1> QED
  BY <1>3 DEF Good

\* Which place of s each element of p stands at.
PlacedBy(p, s, Q, h) ==
    /\ h \in [1 .. Len(p) -> Q]
    /\ \A a \in 1 .. Len(p) : p[a] = s[h[a]]
    /\ \A a, b \in 1 .. Len(p) : h[a] = h[b] => a = b

Takes(p, s, S, Q) == p \in Seq(S) /\ \E h : PlacedBy(p, s, Q, h)

\* Picked takes each place of P once.
LEMMA PickedPlaces ==
    ASSUME NEW S, NEW s \in Seq(S), NEW P
    PROVE  /\ Picked(s, P) \in Seq(S)
           /\ \E h : PlacedBy(Picked(s, P), s, P \cap 1 .. Len(s), h)
<1> DEFINE N == Len(s)
           g == CHOOSE g : PicksTo(s, P, N, g)
           Good == {n \in Nat : n <= N => Takes(g[n], s, S, P \cap 1 .. n)}
<1>1. N \in Nat
  BY LenProperties
<1>2. PicksTo(s, P, N, g)
  BY <1>1, PicksExist
<1>3. Picked(s, P) = g[N]
  BY DEF Picked, PicksTo
<1> HIDE DEF g
<1>4. \A k \in 0 .. N : g[k] = IF k = 0 THEN <<>>
                               ELSE IF k \in P THEN Append(g[k - 1], s[k]) ELSE g[k - 1]
  BY <1>2 DEF PicksTo
<1>5. 0 \in Good
  <2>1. g[0] = <<>>
    BY <1>1, <1>4
  <2>2. PlacedBy(<<>>, s, P \cap 1 .. 0, [a \in {} |-> 0])
    BY DEF PlacedBy
  <2>3. Takes(<<>>, s, S, P \cap 1 .. 0)
    BY <2>2, EmptySeq DEF Takes
  <2> QED
    BY <2>1, <2>3
<1>6. ASSUME NEW n \in Nat, n \in Good PROVE n + 1 \in Good
  <2> SUFFICES ASSUME n + 1 <= N PROVE Takes(g[n + 1], s, S, P \cap 1 .. (n + 1))
    OBVIOUS
  <2>1. Takes(g[n], s, S, P \cap 1 .. n)
    BY <1>1, <1>6
  <2>2. PICK h : PlacedBy(g[n], s, P \cap 1 .. n, h)
    BY <2>1 DEF Takes
  <2>3. n + 1 \in 0 .. N /\ n + 1 # 0 /\ (n + 1) - 1 = n /\ n + 1 \in 1 .. N
    BY <1>1
  <2>4. g[n + 1] = IF n + 1 \in P THEN Append(g[n], s[n + 1]) ELSE g[n]
    BY <1>4, <2>3
  <2>5. CASE n + 1 \notin P
    <3>1. P \cap 1 .. n = P \cap 1 .. (n + 1)
      BY <2>5
    <3> QED
      BY <2>1, <2>4, <2>5, <3>1
  <2>6. CASE n + 1 \in P
    <3> DEFINE p == g[n]
               q == Append(p, s[n + 1])
               f == [a \in 1 .. Len(q) |-> IF a = Len(q) THEN n + 1 ELSE h[a]]
    <3>1. s[n + 1] \in S /\ p \in Seq(S)
      BY <2>1, <2>3, ElementOfSeq DEF Takes
    <3>2. /\ q \in Seq(S) /\ Len(q) = Len(p) + 1 /\ Len(p) \in Nat
          /\ \A a \in 1 .. Len(p) : q[a] = p[a]
          /\ q[Len(p) + 1] = s[n + 1]
      BY <3>1, AppendProperties, LenProperties
    <3>3. /\ h \in [1 .. Len(p) -> P \cap 1 .. n]
          /\ \A a \in 1 .. Len(p) : p[a] = s[h[a]]
          /\ \A a, b \in 1 .. Len(p) : h[a] = h[b] => a = b
      BY <2>2 DEF PlacedBy
    <3> HIDE DEF p, q
    <3>4. ASSUME NEW a \in 1 .. Len(q)
          PROVE  /\ f[a] \in P \cap 1 .. (n + 1) /\ q[a] = s[f[a]]
                 /\ a = Len(q) => f[a] = n + 1
                 /\ a # Len(q) => a \in 1 .. Len(p) /\ f[a] = h[a] /\ f[a] # n + 1
      <4>1. CASE a = Len(q)
        <5>1. f[a] = n + 1 /\ n + 1 \in P \cap 1 .. (n + 1)
          BY <2>6, <4>1
        <5> QED
          BY <3>2, <4>1, <5>1
      <4>2. CASE a # Len(q)
        <5>1. a \in 1 .. Len(p) /\ f[a] = h[a]
          BY <3>2, <4>2
        <5>2. h[a] \in P \cap 1 .. n /\ p[a] = s[h[a]] /\ q[a] = p[a]
          BY <3>2, <3>3, <5>1
        <5> QED
          BY <4>2, <5>1, <5>2
      <4> QED
        BY <4>1, <4>2
    <3>5. ASSUME NEW a \in 1 .. Len(q), NEW b \in 1 .. Len(q), f[a] = f[b] PROVE a = b
      <4>1. a = Len(q) <=> f[a] = n + 1
        BY <3>4
      <4>2. b = Len(q) <=> f[b] = n + 1
        BY <3>4
      <4> QED
        BY <3>3, <3>4, <3>5, <4>1, <4>2
    <3>6. f \in [1 .. Len(q) -> P \cap 1 .. (n + 1)]
      BY <3>4
    <3> HIDE DEF f
    <3>7. PlacedBy(q, s, P \cap 1 .. (n + 1), f)
      BY <3>4, <3>5, <3>6 DEF PlacedBy
    <3> QED
      BY <2>4, <2>6, <3>2, <3>7 DEF p, q, Takes
  <2> QED
    BY <2>5, <2>6
<1>7. Nat \subseteq Good
  <2> HIDE DEF Good
  <2> QED
    BY <1>5, <1>6, SetInduction
<1>8. Takes(g[N], s, S, P \cap 1 .. N)
  <2>1. N \in Good
    BY <1>1, <1>7
  <2> HIDE DEF N
  <2> QED
    BY <1>1, <2>1
<1> QED
  BY <1>3, <1>8 DEF Takes

\* All that is picked was there, at a place of P.
LEMMA PickedFrom ==
    ASSUME NEW S, NEW s \in Seq(S), NEW P
    PROVE  Picked(s, P) \in Seq({s[i] : i \in P \cap 1 .. Len(s)})
<1> DEFINE p == Picked(s, P)
<1>1. PICK h : PlacedBy(p, s, P \cap 1 .. Len(s), h)
  BY PickedPlaces
<1>2. p \in Seq(S)
  BY PickedPlaces
<1> HIDE DEF p
<1>3. \A a \in 1 .. Len(p) : p[a] \in {s[i] : i \in P \cap 1 .. Len(s)}
  BY <1>1 DEF PlacedBy
<1> QED
  BY <1>2, <1>3, SeqOver DEF p

\* Distinct names each element once.
LEMMA DistinctApart ==
    ASSUME NEW S, NEW s \in Seq(S)
    PROVE  /\ Distinct(s) \in Seq(ToSet(s))
           /\ \A a, b \in 1 .. Len(Distinct(s)) : Distinct(s)[a] = Distinct(s)[b] => a = b
<1> DEFINE P == {i \in 1 .. Len(s) : \A j \in 1 .. i - 1 : s[j] # s[i]}
           p == Picked(s, P)
<1>1. Distinct(s) = p
  BY DEF Distinct, FirstOfEach
<1>2. /\ Len(s) \in Nat /\ ToSet(s) = {s[i] : i \in 1 .. Len(s)}
  BY LenProperties, ToSetOfSeq
<1>3. p \in Seq({s[i] : i \in P \cap 1 .. Len(s)})
  BY PickedFrom
<1>4. PICK h : PlacedBy(p, s, P \cap 1 .. Len(s), h)
  BY PickedPlaces
<1>5. ASSUME NEW i \in P, NEW j \in P, s[i] = s[j] PROVE i = j
  <2>1. i \in 1 .. Len(s) /\ j \in 1 .. Len(s)
    OBVIOUS
  <2>2. i < j => i \in 1 .. j - 1
    BY <1>2, <2>1
  <2>3. j < i => j \in 1 .. i - 1
    BY <1>2, <2>1
  <2> QED
    BY <1>2, <1>5, <2>1, <2>2, <2>3
<1>6. p \in Seq(ToSet(s))
  BY <1>2, <1>3, SeqMonotonic
<1> HIDE DEF p, P
<1>7. \A a, b \in 1 .. Len(p) : p[a] = p[b] => a = b
  BY <1>4, <1>5 DEF PlacedBy
<1> QED
  BY <1>1, <1>6, <1>7

\* g joins the first lists of ss, step by step.
JoinsTo(ss, n, g) ==
    g = [k \in 1 .. n |-> IF k = 1 THEN ss[k] ELSE g[k - 1] \o ss[k]]

LEMMA JoinsExist ==
    ASSUME NEW ss
    PROVE  \A n \in Nat : \E g : JoinsTo(ss, n, g)
<1> DEFINE Good == {n \in Nat : \E g : JoinsTo(ss, n, g)}
<1>1. 0 \in Good
  <2>1. JoinsTo(ss, 0, [k \in 1 .. 0 |-> <<>>])
    BY DEF JoinsTo
  <2> QED
    BY <2>1
<1>2. ASSUME NEW n \in Nat, n \in Good
      PROVE  n + 1 \in Good
  <2>1. PICK g : JoinsTo(ss, n, g)
    BY <1>2
  <2> DEFINE h == [k \in 1 .. (n + 1) |->
                     IF k = n + 1 THEN IF k = 1 THEN ss[k] ELSE g[n] \o ss[k] ELSE g[k]]
  <2>2. \A k \in 1 .. n : g[k] = IF k = 1 THEN ss[k] ELSE g[k - 1] \o ss[k]
    BY <2>1 DEF JoinsTo
  <2>3. ASSUME NEW k \in 1 .. (n + 1)
        PROVE  h[k] = IF k = 1 THEN ss[k] ELSE h[k - 1] \o ss[k]
    <3>1. CASE k = n + 1
      <4>1. k # 1 => k - 1 = n /\ n \in 1 .. (n + 1) /\ n # n + 1
        BY <3>1
      <4>2. h[k] = IF k = 1 THEN ss[k] ELSE g[n] \o ss[k]
        BY <3>1
      <4>3. k # 1 => h[k - 1] = g[n]
        BY <4>1
      <4> QED
        BY <4>2, <4>3
    <3>2. CASE k # n + 1
      <4>1. k \in 1 .. n /\ (k # 1 => k - 1 \in 1 .. n /\ k - 1 \in 1 .. (n + 1) /\ k - 1 # n + 1)
        BY <3>2
      <4>2. h[k] = g[k] /\ (k # 1 => h[k - 1] = g[k - 1])
        BY <3>2, <4>1
      <4> QED
        BY <4>1, <4>2, <2>2
    <3> QED
      BY <3>1, <3>2
  <2>4. JoinsTo(ss, n + 1, h)
    <3>1. h = [k \in 1 .. (n + 1) |-> h[k]]
      OBVIOUS
    <3> HIDE DEF h
    <3> QED
      BY <2>3, <3>1 DEF JoinsTo
  <2> QED
    BY <2>4
<1> HIDE DEF Good
<1>3. Nat \subseteq Good
  BY <1>1, <1>2, SetInduction
<1> QED
  BY <1>3 DEF Good

\* What is joined are the elements of the parts.
LEMMA FlattenOver ==
    ASSUME NEW S, NEW ss \in Seq(Seq(S))
    PROVE  FlattenSeq(ss) \in Seq(S)
<1> DEFINE N == Len(ss)
           g == CHOOSE g : JoinsTo(ss, N, g)
           Good == {n \in Nat : n \in 1 .. N => g[n] \in Seq(S)}
<1>1. N \in Nat
  BY LenProperties
<1>2. JoinsTo(ss, N, g)
  BY <1>1, JoinsExist
<1>3. FlattenSeq(ss) = IF N = 0 THEN ss ELSE g[N]
  BY DEF FlattenSeq, JoinsTo
<1> HIDE DEF g
<1>4. \A k \in 1 .. N : g[k] = IF k = 1 THEN ss[k] ELSE g[k - 1] \o ss[k]
  BY <1>2 DEF JoinsTo
<1>5. 0 \in Good
  OBVIOUS
<1>6. ASSUME NEW n \in Nat, n \in Good PROVE n + 1 \in Good
  <2> SUFFICES ASSUME n + 1 \in 1 .. N PROVE g[n + 1] \in Seq(S)
    OBVIOUS
  <2>1. ss[n + 1] \in Seq(S)
    BY ElementOfSeq
  <2>2. CASE n = 0
    BY <1>4, <2>1, <2>2
  <2>3. CASE n # 0
    <3>1. n \in 1 .. N /\ (n + 1) - 1 = n /\ n + 1 # 1
      BY <1>1, <2>3
    <3>2. g[n] \in Seq(S) /\ g[n + 1] = g[n] \o ss[n + 1]
      BY <1>4, <1>6, <3>1
    <3> QED
      BY <2>1, <3>2, ConcatProperties
  <2> QED
    BY <2>2, <2>3
<1>7. Nat \subseteq Good
  <2> HIDE DEF Good
  <2> QED
    BY <1>5, <1>6, SetInduction
<1>8. CASE N = 0
  <2>1. \A i \in 1 .. Len(ss) : ss[i] \in S
    BY <1>8
  <2> QED
    BY <1>3, <1>8, <2>1, SeqOver
<1>9. CASE N # 0
  <2>1. N \in Good /\ N \in 1 .. N
    BY <1>1, <1>7, <1>9
  <2> HIDE DEF N
  <2> QED
    BY <1>3, <1>9, <2>1
<1> QED
  BY <1>8, <1>9

\* The first elements of a list.
LEMMA FirstOver ==
    ASSUME NEW S, NEW s \in Seq(S), NEW n \in 0 .. Len(s)
    PROVE  /\ SubSeq(s, 1, n) \in Seq(S) /\ Len(SubSeq(s, 1, n)) = n
           /\ \A i \in 1 .. n : SubSeq(s, 1, n)[i] = s[i]
<1>1. Len(s) \in Nat /\ n \in Int /\ 1 \in Int
  BY LenProperties
<1>2. \A i \in 1 .. n : s[i] \in S
  BY <1>1, ElementOfSeq
<1>3. /\ SubSeq(s, 1, n) \in Seq(S)
      /\ Len(SubSeq(s, 1, n)) = IF 1 <= n THEN n - 1 + 1 ELSE 0
      /\ \A i \in 1 .. n - 1 + 1 : SubSeq(s, 1, n)[i] = s[1 + i - 1]
  BY <1>1, <1>2, SubSeqProperties
<1>4. n - 1 + 1 = n /\ \A i \in 1 .. n : 1 + i - 1 = i
  BY <1>1
<1> QED
  BY <1>1, <1>3, <1>4

LEMMA LeastWithin ==
    ASSUME NEW a \in Nat, NEW b \in Nat
    PROVE  LeastOf(a, b) \in 0 .. a
BY DEF LeastOf

-----------------------------------------------------------------------------
(* The scaffold loop: what sleep proposes                                  *)

\* The run ids sleep tells apart; it numbers them.
IdsOf(rows) == Distinct([k \in 1 .. Len(rows) |-> rows[k].run])

LEMMA RunIdsApart ==
    ASSUME NEW S, NEW rows \in Seq(S)
    PROVE  /\ Len(IdsOf(rows)) \in Nat
           /\ \A a, b \in 1 .. Len(IdsOf(rows)) : IdsOf(rows)[a] = IdsOf(rows)[b] => a = b
<1> DEFINE ids == [k \in 1 .. Len(rows) |-> rows[k].run]
           T == {rows[k].run : k \in 1 .. Len(rows)}
<1>1. Len(rows) \in Nat
  BY LenProperties
<1>2. ids \in Seq(T)
  BY <1>1
<1> HIDE DEF ids, T
<1>3. /\ Distinct(ids) \in Seq(ToSet(ids))
      /\ \A a, b \in 1 .. Len(Distinct(ids)) : Distinct(ids)[a] = Distinct(ids)[b] => a = b
  BY <1>2, DistinctApart
<1>4. Len(Distinct(ids)) \in Nat
  BY <1>3, LenProperties
<1>5. IdsOf(rows) = Distinct(ids)
  BY DEF IdsOf, ids
<1> QED
  BY <1>3, <1>4, <1>5

\* Each numbered run holds rows of its own id.
LEMMA SleepRowsOver ==
    ASSUME NEW S, NEW rows \in Seq(S)
    PROVE  LET perRun == ToSleepRows(rows)
           IN  /\ DOMAIN perRun = 1 .. Len(IdsOf(rows)) /\ Len(perRun) = Len(IdsOf(rows))
               /\ \A k \in 1 .. Len(IdsOf(rows)) :
                    perRun[k] \in Seq({row \in ToSet(rows) : row.run = IdsOf(rows)[k]})
<1> DEFINE ids == IdsOf(rows)
           N == Len(ids)
           own(k) == {i \in DOMAIN rows : rows[i].run = ids[k]}
<1>1. ToSleepRows(rows) = [k \in 1 .. N |-> Picked(rows, own(k))]
  BY DEF ToSleepRows, IdsOf
<1>2. N \in Nat
  BY RunIdsApart
<1>3. ASSUME NEW k \in 1 .. N
      PROVE  Picked(rows, own(k)) \in Seq({row \in ToSet(rows) : row.run = ids[k]})
  <2>1. Picked(rows, own(k)) \in Seq({rows[i] : i \in own(k) \cap 1 .. Len(rows)})
    BY PickedFrom
  <2>2. {rows[i] : i \in own(k) \cap 1 .. Len(rows)} \subseteq
            {row \in ToSet(rows) : row.run = ids[k]}
    BY ToSetOfSeq
  <2> HIDE DEF own
  <2> QED
    BY <2>1, <2>2, SeqMonotonic
<1> HIDE DEF N, own, ids
<1>4. /\ DOMAIN ToSleepRows(rows) = 1 .. N /\ Len(ToSleepRows(rows)) = N
      /\ \A k \in 1 .. N : ToSleepRows(rows)[k] = Picked(rows, own(k))
  BY <1>1, <1>2
<1> QED
  BY <1>3, <1>4 DEF N, ids

\* What may be observed of a type of rows: a record and the number of its run.
Noted(rows, type) ==
    {o \in {[rec |-> row.rec, run |-> k] : row \in ToSet(rows), k \in 1 .. Len(IdsOf(rows))} :
        \E row \in ToSet(rows) :
            row.type = type /\ row.rec = o.rec /\ row.run = IdsOf(rows)[o.run]}

LEMMA ExtractOver ==
    ASSUME NEW S, NEW rows \in Seq(S), NEW type
    PROVE  Extract(ToSleepRows(rows), type) \in Seq(Noted(rows, type))
<1> DEFINE perRun == ToSleepRows(rows)
           N == Len(IdsOf(rows))
           ofType(k) == Picked(perRun[k], {i \in DOMAIN perRun[k] : perRun[k][i].type = type})
           part(k) == [j \in 1 .. Len(ofType(k)) |-> [rec |-> ofType(k)[j].rec, run |-> k]]
           parts == [k \in 1 .. N |-> part(k)]
<1>1. /\ N \in Nat /\ Len(perRun) = N
      /\ \A k \in 1 .. N : perRun[k] \in Seq({row \in ToSet(rows) : row.run = IdsOf(rows)[k]})
  BY SleepRowsOver, RunIdsApart
<1>2. Extract(perRun, type) = FlattenSeq(parts)
  BY <1>1 DEF Extract
<1>3. ASSUME NEW k \in 1 .. N PROVE part(k) \in Seq(Noted(rows, type))
  <2> DEFINE own == {row \in ToSet(rows) : row.run = IdsOf(rows)[k]}
             typed == {i \in DOMAIN perRun[k] : perRun[k][i].type = type}
  <2>1. perRun[k] \in Seq(own)
    BY <1>1
  <2>2. /\ Len(perRun[k]) \in Nat /\ DOMAIN perRun[k] = 1 .. Len(perRun[k])
        /\ \A i \in 1 .. Len(perRun[k]) : perRun[k][i] \in own
    BY <2>1, LenProperties, ElementOfSeq
  <2>3. ofType(k) \in Seq({perRun[k][i] : i \in typed \cap 1 .. Len(perRun[k])})
    <3> HIDE DEF own, typed, perRun
    <3>1. Picked(perRun[k], typed) \in Seq({perRun[k][i] : i \in typed \cap 1 .. Len(perRun[k])})
      BY <2>1, PickedFrom
    <3> QED
      BY <3>1 DEF typed
  <2>4. Len(ofType(k)) \in Nat
    BY <2>3, LenProperties
  <2>5. ASSUME NEW j \in 1 .. Len(ofType(k))
        PROVE  [rec |-> ofType(k)[j].rec, run |-> k] \in Noted(rows, type)
    <3>1. ofType(k)[j] \in {perRun[k][i] : i \in typed \cap 1 .. Len(perRun[k])}
      <4> HIDE DEF ofType, typed, perRun
      <4> QED
        BY <2>3, ElementOfSeq
    <3>2. ofType(k)[j] \in own /\ ofType(k)[j].type = type
      <4> HIDE DEF ofType, perRun, own
      <4> QED
        BY <2>2, <3>1
    <3> HIDE DEF ofType
    <3> QED
      BY <3>2 DEF Noted
  <2> HIDE DEF ofType
  <2> QED
    BY <2>4, <2>5
<1>4. parts \in Seq(Seq(Noted(rows, type)))
  <2> HIDE DEF part, N
  <2> QED
    BY <1>1, <1>3
<1> HIDE DEF parts
<1> QED
  BY <1>2, <1>4, FlattenOver

\* The anchor a type of rows is grouped by.
Anchor(type, rec) == IF type = "context_role" THEN ContextKey(rec) ELSE AuthorityKey(rec)

\* The observations of one anchor.
Bunch(rows, type, key) == {o \in Noted(rows, type) : Anchor(type, o.rec) = key}

\* The groups observations may be put in, by keys of theirs in K.
OfKey(obs, keys, k) == Picked(obs, {i \in 1 .. Len(obs) : keys[i] = k})
Family(obs, keys, K) == {[key |-> k, seen |-> OfKey(obs, keys, k)] : k \in K}

LEMMA GroupsOver ==
    ASSUME NEW S, NEW obs \in Seq(S), NEW K, NEW keys \in Seq(K), Len(keys) = Len(obs)
    PROVE  Groups(obs, keys) \in Seq(Family(obs, keys, K))
<1> DEFINE total == Len(obs)
           found == Distinct(keys)
           places(key) == {i \in 1 .. total : keys[i] = key}
           ofSize(n) == Picked(found, {k \in DOMAIN found : Cardinality(places(found[k])) = n})
           sizes == [k \in 1 .. total |-> ofSize(total + 1 - k)]
           ordered == FlattenSeq(sizes)
           family == {[key |-> k, seen |-> Picked(obs, places(k))] : k \in K}
<1>1. total \in Nat
  BY LenProperties
<1>2. found \in Seq(K)
  BY DistinctApart, ToSetOfSeq, SeqMonotonic
<1>3. ASSUME NEW n PROVE ofSize(n) \in Seq(K)
  <2> HIDE DEF found, places
  <2> QED
    BY <1>2, PickedPlaces
<1>4. sizes \in Seq(Seq(K))
  <2> HIDE DEF ofSize, total
  <2> QED
    BY <1>1, <1>3
<1>5. ordered \in Seq(K)
  <2> HIDE DEF sizes
  <2> QED
    BY <1>4, FlattenOver
<1>6. Groups(obs, keys) = [k \in 1 .. Len(ordered) |->
          [key |-> ordered[k], seen |-> Picked(obs, places(ordered[k]))]]
  BY DEF Groups
<1>7. Len(ordered) \in Nat /\ \A k \in 1 .. Len(ordered) : ordered[k] \in K
  BY <1>5, LenProperties, ElementOfSeq
<1> HIDE DEF ordered, places, total
<1>8. Groups(obs, keys) \in Seq(family)
  BY <1>6, <1>7
<1> QED
  BY <1>8 DEF places, total, Family, OfKey

\* The runs that left a structure in memory.
SeenIn(type, key) == {r \in RunIds : <<<<type, key>>, r>> \in witnessed}

\* What FamiliarityEarned says of one row of the proposals file.
Earned(row) ==
    LET type == IF row.kind = "context_role_recurrence" THEN "context_role" ELSE "authority_strength"
    IN  /\ row.runs \in Nat /\ row.runs <= Cardinality(SeenIn(type, row.key))
        /\ row.use = "clustering_prior" => Cardinality(SeenIn(type, row.key)) >= 2

\* Every row in memory is of a run that is known to have left its structure.
Witnessed(rows) ==
    \A row \in ToSet(rows) : row.run \in RunIds /\ <<Structure(row), row.run>> \in witnessed

\* A proposal counts no run twice and none that did not leave the structure.
LEMMA RunsSeenBound ==
    ASSUME NEW S, NEW rows \in Seq(S), Witnessed(rows),
           NEW type \in {"context_role", "authority_strength"}, NEW key,
           NEW seen \in Seq(Bunch(rows, type, key))
    PROVE  /\ RunsSeen(Capped(seen)) \in Nat
           /\ RunsSeen(Capped(seen)) <= Cardinality(SeenIn(type, key))
           /\ Cardinality(SeenIn(type, key)) \in Nat
<1> DEFINE ids == IdsOf(rows)
           N == Len(ids)
           B == Bunch(rows, type, key)
           numbers == {o.run : o \in ToSet(Capped(seen))}
           claims == SeenIn(type, key)
           f == [k \in numbers |-> ids[k]]
<1>1. IsFiniteSet(claims) /\ Cardinality(claims) \in Nat
  <2>1. IsFiniteSet(RunIds) /\ claims \subseteq RunIds
    BY ScaffoldLoopAssumption DEF SeenIn
  <2> QED
    BY <2>1, FS_Subset, FS_CardinalityType
<1>2. ToSet(Capped(seen)) \subseteq B
  <2>1. Len(seen) \in Nat
    BY LenProperties
  <2>2. LeastOf(Len(seen), MaxSources) \in 0 .. Len(seen)
    BY <2>1, LeastWithin, MemorySleepAssumption
  <2>3. Capped(seen) \in Seq(B)
    BY <2>2, FirstOver DEF Capped
  <2> QED
    BY <2>3, ToSetOfSeq
<1>3. ASSUME NEW o \in B PROVE o.run \in 1 .. N /\ ids[o.run] \in claims
  <2>1. /\ o \in {[rec |-> row.rec, run |-> k] : row \in ToSet(rows), k \in 1 .. N}
        /\ Anchor(type, o.rec) = key
    BY DEF Bunch, Noted
  <2>2. PICK row \in ToSet(rows) : row.type = type /\ row.rec = o.rec /\ row.run = ids[o.run]
    BY DEF Bunch, Noted
  <2>3. Structure(row) = <<type, key>>
    BY <2>1, <2>2 DEF Structure, Anchor
  <2>4. row.run \in RunIds /\ <<Structure(row), row.run>> \in witnessed
    BY DEF Witnessed
  <2>5. ids[o.run] \in claims
    BY <2>2, <2>3, <2>4 DEF SeenIn
  <2>6. o.run \in 1 .. N
    BY <2>1
  <2> QED
    BY <2>5, <2>6
<1>4. \A a, b \in 1 .. N : ids[a] = ids[b] => a = b
  BY RunIdsApart
<1> HIDE DEF ids, N, B, claims
<1>5. ASSUME NEW k \in numbers PROVE k \in 1 .. N /\ ids[k] \in claims
  BY <1>2, <1>3
<1> HIDE DEF numbers
<1>6. f \in Injection(numbers, claims)
  <2>1. f \in [numbers -> claims]
    BY <1>5
  <2>2. \A a, b \in numbers : f[a] = f[b] => a = b
    BY <1>4, <1>5
  <2> HIDE DEF f
  <2> QED
    BY <2>1, <2>2 DEF Injection, IsInjective
<1> HIDE DEF f
<1>7. IsFiniteSet(numbers) /\ Cardinality(numbers) <= Cardinality(claims)
  BY <1>1, <1>6, FS_Injection
<1>8. RunsSeen(Capped(seen)) = Cardinality(numbers)
  BY DEF RunsSeen, numbers
<1>9. Cardinality(numbers) \in Nat
  BY <1>7, FS_CardinalityType
<1> QED
  BY <1>1, <1>7, <1>8, <1>9 DEF claims

\* The groups of a type, each of one anchor.
LEMMA FamilyOver ==
    ASSUME NEW S, NEW rows \in Seq(S), NEW type, NEW obs \in Seq(Noted(rows, type)),
           NEW keys, keys = [k \in 1 .. Len(obs) |-> Anchor(type, obs[k].rec)],
           NEW P
    PROVE  /\ Len(Picked(Groups(obs, keys), P)) \in Nat
           /\ \A j \in 1 .. Len(Picked(Groups(obs, keys), P)) :
                LET g == Picked(Groups(obs, keys), P)[j]
                IN  g.seen \in Seq(Bunch(rows, type, g.key))
<1> DEFINE K == {Anchor(type, obs[k].rec) : k \in 1 .. Len(obs)}
           seen(k) == OfKey(obs, keys, k)
           family == Family(obs, keys, K)
           picked == Picked(Groups(obs, keys), P)
<1>1. Len(obs) \in Nat
  BY LenProperties
<1>2. keys \in Seq(K) /\ Len(keys) = Len(obs)
  BY <1>1
<1> HIDE DEF K
<1>3. Groups(obs, keys) \in Seq(family)
  BY <1>2, GroupsOver
<1>4. picked \in Seq(family)
  <2> HIDE DEF family
  <2> QED
    BY <1>3, PickedPlaces
<1>5. ASSUME NEW k PROVE seen(k) \in Seq(Bunch(rows, type, k))
  <2> DEFINE at == {i \in 1 .. Len(obs) : keys[i] = k}
  <2>1. Picked(obs, at) \in Seq({obs[i] : i \in at \cap 1 .. Len(obs)})
    BY PickedFrom
  <2>2. {obs[i] : i \in at \cap 1 .. Len(obs)} \subseteq Bunch(rows, type, k)
    BY ElementOfSeq DEF Bunch
  <2> HIDE DEF at
  <2>3. Picked(obs, at) \in Seq(Bunch(rows, type, k))
    BY <2>1, <2>2, SeqMonotonic
  <2> QED
    BY <2>3 DEF at, OfKey
<1> HIDE DEF picked
<1>6. Len(picked) \in Nat /\ \A j \in 1 .. Len(picked) : picked[j] \in family
  <2> HIDE DEF family
  <2> QED
    BY <1>4, LenProperties, ElementOfSeq
<1>7. \A j \in 1 .. Len(picked) : picked[j].seen \in Seq(Bunch(rows, type, picked[j].key))
  BY <1>5, <1>6 DEF Family
<1> QED
  BY <1>6, <1>7 DEF picked

LEMMA AuthorityEarned ==
    ASSUME NEW S, NEW rows \in Seq(S), Witnessed(rows), NEW g,
           g.seen \in Seq(Bunch(rows, "authority_strength", g.key))
    PROVE  Earned(AuthorityProposal(g))
<1> DEFINE p == AuthorityProposal(g)
<1>1. p.kind = "authority_debt_family" /\ p.key = g.key /\ p.use = "feature_only"
      /\ p.runs = RunsSeen(Capped(g.seen))
  BY DEF AuthorityProposal
<1>2. /\ RunsSeen(Capped(g.seen)) \in Nat
      /\ RunsSeen(Capped(g.seen)) <= Cardinality(SeenIn("authority_strength", g.key))
  BY RunsSeenBound
<1> HIDE DEF p
<1>3. Earned(p)
  BY <1>1, <1>2 DEF Earned
<1> QED
  BY <1>3 DEF p

LEMMA ContextEarned ==
    ASSUME NEW S, NEW rows \in Seq(S), Witnessed(rows), NEW g,
           g.seen \in Seq(Bunch(rows, "context_role", g.key))
    PROVE  Earned(ContextProposal(g))
<1> DEFINE p == ContextProposal(g)
           many == RunsSeen(Capped(g.seen))
           use == SuggestedUse("context_role_recurrence", many, g.key.edges # {}, FALSE)
<1>1. p.kind = "context_role_recurrence" /\ p.key = g.key /\ p.use = use /\ p.runs = many
  BY DEF ContextProposal
<1>2. /\ many \in Nat /\ Cardinality(SeenIn("context_role", g.key)) \in Nat
      /\ many <= Cardinality(SeenIn("context_role", g.key))
  BY RunsSeenBound
<1> HIDE DEF many
<1>3. use = "clustering_prior" => many >= 2
  BY DEF SuggestedUse
<1> HIDE DEF p, use
<1>4. Earned(p)
  BY <1>1, <1>2, <1>3 DEF Earned
<1> QED
  BY <1>4 DEF p

\* auto_sleep: no proposal claims more than the memory was left with.
LEMMA SleepEarned ==
    ASSUME NEW S, NEW rows \in Seq(S), Witnessed(rows)
    PROVE  /\ RunSleep(rows) \in Seq(ToSet(RunSleep(rows)))
           /\ \A k \in 1 .. Len(RunSleep(rows)) : Earned(RunSleep(rows)[k])
<1> DEFINE perRun == ToSleepRows(rows)
           authorities == AuthorityObservations(perRun)
           contexts == ContextObservations(perRun)
           aKeys == [k \in 1 .. Len(authorities) |-> AuthorityKey(authorities[k].rec)]
           cKeys == [k \in 1 .. Len(contexts) |-> ContextKey(contexts[k].rec)]
           large(groups) == {k \in DOMAIN groups : Len(groups[k].seen) >= MinSources}
           debts == Picked(Groups(authorities, aKeys), large(Groups(authorities, aKeys)))
           recurring == Picked(Groups(contexts, cKeys), large(Groups(contexts, cKeys)))
           fromDebts == [k \in 1 .. Len(debts) |-> AuthorityProposal(debts[k])]
           fromRoles == [k \in 1 .. Len(recurring) |-> ContextProposal(recurring[k])]
           built == fromDebts \o fromRoles
           capped == SubSeq(built, 1, LeastOf(Len(built), MaxProposals))
           made == {fromDebts[k] : k \in 1 .. Len(debts)} \cup {fromRoles[k] : k \in 1 .. Len(recurring)}
<1>1. RunSleep(rows) = Numbered(capped)
  BY DEF RunSleep, BuildProposals
<1>2. /\ Len(debts) \in Nat
      /\ \A j \in 1 .. Len(debts) :
           debts[j].seen \in Seq(Bunch(rows, "authority_strength", debts[j].key))
  <2>1. authorities \in Seq(Noted(rows, "authority_strength"))
    <3> DEFINE all == Extract(perRun, "authority_strength")
    <3>1. all \in Seq(Noted(rows, "authority_strength"))
      BY ExtractOver
    <3> HIDE DEF all
    <3>2. Picked(all, {i \in DOMAIN all : all[i].rec.state # ""})
              \in Seq(Noted(rows, "authority_strength"))
      BY <3>1, PickedPlaces
    <3> QED
      BY <3>2 DEF AuthorityObservations, all
  <2> HIDE DEF authorities
  <2>2. aKeys = [k \in 1 .. Len(authorities) |-> Anchor("authority_strength", authorities[k].rec)]
    BY DEF Anchor
  <2> HIDE DEF aKeys, large
  <2> QED
    BY <2>1, <2>2, FamilyOver
<1>3. /\ Len(recurring) \in Nat
      /\ \A j \in 1 .. Len(recurring) :
           recurring[j].seen \in Seq(Bunch(rows, "context_role", recurring[j].key))
  <2>1. contexts \in Seq(Noted(rows, "context_role"))
    <3> DEFINE all == Extract(perRun, "context_role")
    <3>1. all \in Seq(Noted(rows, "context_role"))
      BY ExtractOver
    <3> HIDE DEF all
    <3>2. Picked(all, {i \in DOMAIN all : all[i].rec.target # NoVar})
              \in Seq(Noted(rows, "context_role"))
      BY <3>1, PickedPlaces
    <3> QED
      BY <3>2 DEF ContextObservations, all
  <2> HIDE DEF contexts
  <2>2. cKeys = [k \in 1 .. Len(contexts) |-> Anchor("context_role", contexts[k].rec)]
    BY DEF Anchor
  <2> HIDE DEF cKeys, large
  <2> QED
    BY <2>1, <2>2, FamilyOver
<1> HIDE DEF debts, recurring
<1>4. \A k \in 1 .. Len(debts) : Earned(fromDebts[k])
  BY <1>2, AuthorityEarned
<1>5. \A k \in 1 .. Len(recurring) : Earned(fromRoles[k])
  <2>1. \A k \in 1 .. Len(recurring) : Earned(ContextProposal(recurring[k]))
    BY <1>3, ContextEarned
  <2> QED
    BY <2>1
<1>6. /\ \A k \in 1 .. Len(debts) : {"kind", "key", "runs", "use"} \subseteq DOMAIN fromDebts[k]
      /\ \A k \in 1 .. Len(recurring) : {"kind", "key", "runs", "use"} \subseteq DOMAIN fromRoles[k]
  BY DEF AuthorityProposal, ContextProposal
<1>7. /\ fromDebts = [k \in 1 .. Len(debts) |-> fromDebts[k]]
      /\ fromRoles = [k \in 1 .. Len(recurring) |-> fromRoles[k]]
  OBVIOUS
<1> HIDE DEF fromDebts, fromRoles
<1>8. fromDebts \in Seq(made) /\ fromRoles \in Seq(made)
  BY <1>2, <1>3, <1>7
<1>9. \A p \in made : Earned(p) /\ {"kind", "key", "runs", "use"} \subseteq DOMAIN p
  BY <1>4, <1>5, <1>6
<1> HIDE DEF made
<1>10. built \in Seq(made)
  BY <1>8, ConcatProperties
<1> HIDE DEF built
<1>11. LeastOf(Len(built), MaxProposals) \in 0 .. Len(built)
  BY <1>10, LenProperties, LeastWithin, MemorySleepAssumption
<1>12. capped \in Seq(made)
  BY <1>10, <1>11, FirstOver
<1> HIDE DEF capped
<1>13. Len(capped) \in Nat /\ \A k \in 1 .. Len(capped) : capped[k] \in made
  BY <1>12, LenProperties, ElementOfSeq
<1>14. Len(Numbered(capped)) = Len(capped)
       /\ Numbered(capped) \in Seq({Numbered(capped)[k] : k \in 1 .. Len(capped)})
  BY <1>13 DEF Numbered
<1>15. ASSUME NEW k \in 1 .. Len(capped) PROVE Earned(Numbered(capped)[k])
  <2> DEFINE p == capped[k]
             q == Numbered(capped)[k]
  <2>1. q = [p EXCEPT !.id = <<k, p.kind>>]
    BY DEF Numbered
  <2>2. {"kind", "key", "runs", "use"} \subseteq DOMAIN p
    BY <1>9, <1>13
  <2>3. q.kind = p.kind /\ q.key = p.key /\ q.runs = p.runs /\ q.use = p.use
    BY <2>1, <2>2
  <2>4. Earned(p)
    BY <1>9, <1>13
  <2> HIDE DEF p, q
  <2>5. Earned(q)
    BY <2>3, <2>4 DEF Earned
  <2> QED
    BY <2>5 DEF q
<1>16. Numbered(capped) \in Seq(ToSet(Numbered(capped)))
  BY <1>14, ToSetOfSeq
<1> QED
  BY <1>1, <1>13, <1>14, <1>15, <1>16

-----------------------------------------------------------------------------
(* The scaffold loop: expressions                                          *)

\* What the table keeps of an expression.
Body(e) ==
    /\ DOMAIN e = {"vars", "right", "evidence"}
    /\ e.right \in DOMAIN UseRank /\ e.evidence \in Nat

\* The right an expression is mined with.
MinedRight(op) == IF op \in {"union", "gated"} THEN "record_only" ELSE "feature_only"

MinedAs(e) ==
    /\ {"key", "vars", "right", "evidence"} \subseteq DOMAIN e
    /\ e.evidence = 0 /\ e.right = MinedRight(e.key.op)

LEMMA WhenOver ==
    ASSUME NEW condition, NEW T, NEW expr \in T
    PROVE  When(condition, expr) \in Seq(T)
<1>1. <<>> \in Seq(T)
  BY EmptySeq
<1>2. <<expr>> \in Seq(T)
  OBVIOUS
<1> QED
  BY <1>1, <1>2 DEF When

\* Every expression of a pair is an annotation or a record.
LEMMA PairMined ==
    ASSUME NEW a, NEW b
    PROVE  /\ MinedFromPair(a, b) \in Seq(ToSet(MinedFromPair(a, b)))
           /\ \A e \in ToSet(MinedFromPair(a, b)) : MinedAs(e)
<1> DEFINE both == {a.id, b.id}
           all  == a.vars \cup b.vars
           shared == a.vars \cap b.vars
           e1 == Expr("intersection", both, <<>>, shared, "feature_only")
           e2 == Expr("union", both, <<>>, all, "record_only")
           e3 == Expr("difference", both, <<>>, all \ shared, "feature_only")
           e4 == Expr("coactive", both, <<>>, all, "feature_only")
           e5 == Expr("gated", {a.id}, b.id, a.vars, "record_only")
           c1 == Cardinality(shared) >= 2
           c2 == Cardinality(all) >= 3
           c3 == a.vars # b.vars /\ (a.vars \subseteq b.vars \/ b.vars \subseteq a.vars)
           c4 == a.contexts \cap b.contexts # {}
           c5 == a.contexts # {} /\ b.contexts \ a.contexts # {} /\ Cardinality(a.vars) >= 2
           S == {e1, e2, e3, e4, e5}
<1>1. MinedFromPair(a, b) =
          When(c1, e1) \o When(c2, e2) \o When(c3, e3) \o When(c4, e4) \o When(c5, e5)
  BY DEF MinedFromPair
<1>2. /\ MinedRight("intersection") = "feature_only" /\ MinedRight("union") = "record_only"
      /\ MinedRight("difference") = "feature_only" /\ MinedRight("coactive") = "feature_only"
      /\ MinedRight("gated") = "record_only"
  BY DEF MinedRight
<1>3. MinedAs(e1) /\ MinedAs(e2) /\ MinedAs(e3) /\ MinedAs(e4) /\ MinedAs(e5)
  BY <1>2 DEF MinedAs, Expr
<1> HIDE DEF e1, e2, e3, e4, e5, c1, c2, c3, c4, c5
<1>4. e1 \in S /\ e2 \in S /\ e3 \in S /\ e4 \in S /\ e5 \in S /\ \A e \in S : MinedAs(e)
  BY <1>3
<1> HIDE DEF S
<1>5. /\ When(c1, e1) \in Seq(S) /\ When(c2, e2) \in Seq(S) /\ When(c3, e3) \in Seq(S)
      /\ When(c4, e4) \in Seq(S) /\ When(c5, e5) \in Seq(S)
  BY <1>4, WhenOver
<1>6. MinedFromPair(a, b) \in Seq(S)
  <2> DEFINE w1 == When(c1, e1)
             w2 == When(c2, e2)
             w3 == When(c3, e3)
             w4 == When(c4, e4)
             w5 == When(c5, e5)
  <2> HIDE DEF w1, w2, w3, w4, w5
  <2>1. w1 \o w2 \in Seq(S)
    BY <1>5, ConcatProperties DEF w1, w2
  <2>2. w1 \o w2 \o w3 \in Seq(S)
    BY <1>5, <2>1, ConcatProperties DEF w3
  <2>3. w1 \o w2 \o w3 \o w4 \in Seq(S)
    BY <1>5, <2>2, ConcatProperties DEF w4
  <2>4. w1 \o w2 \o w3 \o w4 \o w5 \in Seq(S)
    BY <1>5, <2>3, ConcatProperties DEF w5
  <2> QED
    BY <1>1, <2>4 DEF w1, w2, w3, w4, w5
<1> QED
  BY <1>4, <1>6, ToSetOfSeq

\* All that is mined are annotations and records.
LEMMA MinedOver ==
    ASSUME NEW S, NEW proposals \in Seq(S)
    PROVE  \E T : Mined(proposals) \in Seq(T) /\ \A e \in T : MinedAs(e)
<1> DEFINE p == Picked(proposals, {i \in DOMAIN proposals : proposals[i].vars # {}})
           n == Len(p)
           row(i) == [d \in 1 .. n - i |-> MinedFromPair(p[i], p[i + d])]
           rows == [i \in 1 .. n |-> FlattenSeq(row(i))]
           pairs == FlattenSeq(rows)
           keys == [k \in 1 .. Len(pairs) |-> pairs[k].key]
           found == FirstOfEach(pairs, keys)
           most == IF Len(found) < MaxExpressions THEN Len(found) ELSE MaxExpressions
           T == UNION {ToSet(MinedFromPair(p[x[1]], p[x[2]])) : x \in (1 .. n) \X (1 .. n)}
<1>1. Mined(proposals) = SubSeq(found, 1, most)
  BY DEF Mined
<1>2. n \in Nat
  <2>1. p \in Seq(S)
    BY PickedPlaces
  <2> HIDE DEF p
  <2> QED
    BY <2>1, LenProperties
<1> HIDE DEF p, n
<1>3. \A e \in T : MinedAs(e)
  BY PairMined
<1>4. ASSUME NEW i \in 1 .. n PROVE FlattenSeq(row(i)) \in Seq(T)
  <2>1. ASSUME NEW d \in 1 .. n - i PROVE MinedFromPair(p[i], p[i + d]) \in Seq(T)
    <3>1. MinedFromPair(p[i], p[i + d]) \in Seq(ToSet(MinedFromPair(p[i], p[i + d])))
      BY PairMined
    <3>2. <<i, i + d>> \in (1 .. n) \X (1 .. n)
      BY <1>2
    <3>3. ToSet(MinedFromPair(p[i], p[i + d])) \subseteq T
      BY <3>2
    <3> HIDE DEF T
    <3> QED
      BY <3>1, <3>3, SeqMonotonic
  <2> HIDE DEF T
  <2>2. n - i \in Nat
    BY <1>2
  <2>3. row(i) \in Seq(Seq(T))
    BY <2>1, <2>2
  <2> HIDE DEF row
  <2> QED
    BY <2>3, FlattenOver
<1> HIDE DEF T, row
<1>5. rows \in Seq(Seq(T))
  BY <1>2, <1>4
<1> HIDE DEF rows
<1>6. pairs \in Seq(T)
  BY <1>5, FlattenOver
<1> HIDE DEF pairs, keys
<1>7. found \in Seq(T)
  BY <1>6, PickedPlaces DEF FirstOfEach
<1> HIDE DEF found
<1>8. Len(found) \in Nat
  BY <1>7, LenProperties
<1>9. most \in 0 .. Len(found)
  BY <1>8, NethraExpressionsAssumption
<1> HIDE DEF most
<1>10. Mined(proposals) \in Seq(T)
  BY <1>1, <1>7, <1>9, FirstOver
<1> QED
  BY <1>3, <1>10

\* What an expression of a table loaded over index starts with.
Start(index, k)   == IF k \in DOMAIN index THEN index[k].right ELSE MinedRight(k.op)
Brought(index, k) == IF k \in DOMAIN index THEN index[k].evidence ELSE 0

\* The table has the expressions of the index and mined ones.
LoadedOver(index, t) ==
    /\ DOMAIN index \subseteq DOMAIN t
    /\ \A k \in DOMAIN t : /\ Body(t[k])
                           /\ t[k].right = Start(index, k) /\ t[k].evidence = Brought(index, k)
    /\ \A k \in DOMAIN index : t[k].vars = index[k].vars

LEMMA AddedOver ==
    ASSUME NEW index, NEW t, LoadedOver(index, t), NEW e, MinedAs(e)
    PROVE  LoadedOver(index, AddExpression(t, e))
<1>1. e.evidence = 0 /\ e.right = MinedRight(e.key.op) /\ e.right \in DOMAIN UseRank
  BY DEF MinedAs, MinedRight, UseRank
<1>2. CASE e.key \in DOMAIN t
  <2> DEFINE u == [t EXCEPT ![e.key].evidence = @ + e.evidence]
  <2>1. AddExpression(t, e) = u
    BY <1>2 DEF AddExpression
  <2>2. DOMAIN u = DOMAIN t
    OBVIOUS
  <2>3. ASSUME NEW k \in DOMAIN t
        PROVE  Body(u[k]) /\ u[k].right = t[k].right /\ u[k].evidence = t[k].evidence
               /\ u[k].vars = t[k].vars
    <3>1. Body(t[k])
      BY DEF LoadedOver
    <3>2. CASE k = e.key
      <4> DEFINE x == t[k]
      <4>1. u[k] = [x EXCEPT !.evidence = @ + e.evidence]
        BY <3>2
      <4>2. Body(x) /\ x.evidence + e.evidence = x.evidence
        BY <1>1, <3>1 DEF Body
      <4> HIDE DEF x, u
      <4>3. Body(u[k]) /\ u[k].right = x.right /\ u[k].evidence = x.evidence /\ u[k].vars = x.vars
        BY <4>1, <4>2 DEF Body
      <4> QED
        BY <4>3 DEF x
    <3>3. CASE k # e.key
      <4>1. u[k] = t[k]
        BY <3>3
      <4> QED
        BY <3>1, <4>1
    <3> QED
      BY <3>2, <3>3
  <2> HIDE DEF u
  <2> QED
    BY <2>1, <2>2, <2>3 DEF LoadedOver
<1>3. CASE e.key \notin DOMAIN t
  <2> DEFINE body == [vars |-> e.vars, right |-> e.right, evidence |-> e.evidence]
             u == [k \in DOMAIN t \cup {e.key} |-> IF k = e.key THEN body ELSE t[k]]
  <2>1. AddExpression(t, e) = u
    BY <1>3 DEF AddExpression
  <2>2. DOMAIN u = DOMAIN t \cup {e.key} /\ e.key \notin DOMAIN index
    BY <1>3 DEF LoadedOver
  <2>3. \A k \in DOMAIN t : u[k] = t[k]
    BY <1>3
  <2>4. u[e.key] = body
    OBVIOUS
  <2>5. Body(body) /\ body.right = Start(index, e.key) /\ body.evidence = Brought(index, e.key)
    BY <1>1, <2>2 DEF Body, Start, Brought
  <2> HIDE DEF u, body
  <2> QED
    BY <2>1, <2>2, <2>3, <2>4, <2>5 DEF LoadedOver
<1> QED
  BY <1>2, <1>3

\* g adds the first expressions of es to the index, step by step.
AddsTo(index, es, n, g) ==
    g = [k \in 0 .. n |-> IF k = 0 THEN index ELSE AddExpression(g[k - 1], es[k])]

LEMMA AddsExist ==
    ASSUME NEW index, NEW es
    PROVE  \A n \in Nat : \E g : AddsTo(index, es, n, g)
<1> DEFINE Good == {n \in Nat : \E g : AddsTo(index, es, n, g)}
<1>1. 0 \in Good
  <2>1. AddsTo(index, es, 0, [k \in 0 .. 0 |-> index])
    BY DEF AddsTo
  <2> QED
    BY <2>1
<1>2. ASSUME NEW n \in Nat, n \in Good
      PROVE  n + 1 \in Good
  <2>1. PICK g : AddsTo(index, es, n, g)
    BY <1>2
  <2> DEFINE h == [k \in 0 .. (n + 1) |->
                     IF k = n + 1 THEN AddExpression(g[n], es[n + 1]) ELSE g[k]]
  <2>2. \A k \in 0 .. n : g[k] = IF k = 0 THEN index ELSE AddExpression(g[k - 1], es[k])
    BY <2>1 DEF AddsTo
  <2>3. ASSUME NEW k \in 0 .. (n + 1)
        PROVE  h[k] = IF k = 0 THEN index ELSE AddExpression(h[k - 1], es[k])
    <3>1. CASE k = n + 1
      <4>1. k # 0 /\ k - 1 = n /\ n \in 0 .. (n + 1) /\ n # n + 1
        BY <3>1
      <4>2. h[k] = AddExpression(g[n], es[k]) /\ h[k - 1] = g[n]
        BY <3>1, <4>1
      <4> QED
        BY <4>1, <4>2
    <3>2. CASE k # n + 1
      <4>1. k \in 0 .. n /\ (k # 0 => k - 1 \in 0 .. n /\ k - 1 \in 0 .. (n + 1) /\ k - 1 # n + 1)
        BY <3>2
      <4>2. h[k] = g[k] /\ (k # 0 => h[k - 1] = g[k - 1])
        BY <3>2, <4>1
      <4> QED
        BY <4>1, <4>2, <2>2
    <3> QED
      BY <3>1, <3>2
  <2>4. AddsTo(index, es, n + 1, h)
    <3>1. h = [k \in 0 .. (n + 1) |-> h[k]]
      OBVIOUS
    <3> HIDE DEF h
    <3> QED
      BY <2>3, <3>1 DEF AddsTo
  <2> QED
    BY <2>4
<1> HIDE DEF Good
<1>3. Nat \subseteq Good
  BY <1>1, <1>2, SetInduction
<1> QED
  BY <1>3 DEF Good

\* load_into_expression_index adds no right and no evidence to what it mines or finds.
LEMMA LoadedIsOver ==
    ASSUME NEW S, NEW proposals \in Seq(S), NEW index, \A k \in DOMAIN index : Body(index[k])
    PROVE  LoadedOver(index, Loaded(index, proposals))
<1> DEFINE es == Mined(proposals)
           N == Len(es)
           g == CHOOSE g : AddsTo(index, es, N, g)
           Good == {n \in Nat : n <= N => LoadedOver(index, g[n])}
<1>1. PICK T : es \in Seq(T) /\ \A e \in T : MinedAs(e)
  BY MinedOver
<1>2. Loaded(index, proposals) = g[N]
  BY DEF Loaded, AddsTo
<1> HIDE DEF es
<1>3. N \in Nat /\ \A n \in 1 .. N : MinedAs(es[n])
  BY <1>1, LenProperties, ElementOfSeq
<1>4. AddsTo(index, es, N, g)
  BY <1>3, AddsExist
<1> HIDE DEF g
<1>5. \A k \in 0 .. N : g[k] = IF k = 0 THEN index ELSE AddExpression(g[k - 1], es[k])
  BY <1>4 DEF AddsTo
<1> HIDE DEF N
<1>6. 0 \in Good
  <2>1. LoadedOver(index, index)
    BY DEF LoadedOver, Start, Brought
  <2>2. g[0] = index
    BY <1>3, <1>5
  <2> QED
    BY <2>1, <2>2
<1>7. ASSUME NEW n \in Nat, n \in Good PROVE n + 1 \in Good
  <2> SUFFICES ASSUME n + 1 <= N PROVE LoadedOver(index, g[n + 1])
    OBVIOUS
  <2>1. LoadedOver(index, g[n])
    BY <1>3, <1>7
  <2>2. n + 1 \in 0 .. N /\ n + 1 \in 1 .. N /\ n + 1 # 0 /\ (n + 1) - 1 = n
    BY <1>3
  <2>3. g[n + 1] = AddExpression(g[n], es[n + 1]) /\ MinedAs(es[n + 1])
    BY <1>3, <1>5, <2>2
  <2> QED
    BY <2>1, <2>3, AddedOver
<1>8. Nat \subseteq Good
  <2> HIDE DEF Good
  <2> QED
    BY <1>6, <1>7, SetInduction
<1>9. LoadedOver(index, g[N])
  <2>1. N \in Good
    BY <1>3, <1>8
  <2> QED
    BY <1>3, <2>1
<1> QED
  BY <1>2, <1>9

-----------------------------------------------------------------------------
(* The scaffold loop: the inductive invariant                              *)

\* The agent's index keeps its nodes in a list.
Listed(x) == "nodes" \in DOMAIN x /\ x.nodes \in Seq(ToSet(x.nodes))

\* Memory holds only what runs are known to have left, and the proposals file
\* only what memory justified when sleep wrote it.
MemoryKept ==
    /\ "rows" \in DOMAIN store /\ store.rows \in Seq(ToSet(store.rows)) /\ Witnessed(store.rows)
    /\ Listed(ix) /\ run \subseteq RunIds
    /\ file \in Seq(ToSet(file))
    /\ \A row \in ToSet(file) : row.whole => Earned(row)

LEMMA AddNodeListed ==
    ASSUME NEW x, Listed(x), NEW node
    PROVE  Listed(AddNode(x, node))
<1> DEFINE y == [x EXCEPT !.nodes = Append(@, node)]
<1>1. AddNode(x, node) = x \/ AddNode(x, node) = y
  BY DEF AddNode
<1>2. Listed(y)
  <2>1. "nodes" \in DOMAIN y /\ y.nodes = Append(x.nodes, node)
    BY DEF Listed
  <2>2. x.nodes \in Seq(ToSet(x.nodes) \cup {node})
    BY SeqMonotonic DEF Listed
  <2>3. Append(x.nodes, node) \in Seq(ToSet(x.nodes) \cup {node})
    BY <2>2, AppendProperties
  <2> HIDE DEF y
  <2> QED
    BY <2>1, <2>3, ToSetOfSeq DEF Listed
<1> QED
  BY <1>1, <1>2

LEMMA AssignRoleListed ==
    ASSUME NEW x, Listed(x), NEW id, NEW ctx, NEW role, NEW c
    PROVE  Listed(AssignRole(x, id, ctx, role, c))
<1>1. ASSUME NEW y, Listed(y) PROVE Listed(AssignSurface(y, id, ctx, role))
  <2> DEFINE z == AssignSurface(y, id, ctx, role)
  <2>1. DOMAIN z = DOMAIN y /\ z.nodes = y.nodes
    BY DEF AssignSurface
  <2> HIDE DEF z
  <2> QED
    BY <1>1, <2>1 DEF Listed, z
<1>2. ASSUME NEW record PROVE Listed([x EXCEPT !.roles = Append(@, record)])
  <2> DEFINE z == [x EXCEPT !.roles = Append(@, record)]
  <2>1. DOMAIN z = DOMAIN x /\ z.nodes = x.nodes
    OBVIOUS
  <2> HIDE DEF z
  <2> QED
    BY <2>1 DEF Listed, z
<1> QED
  BY <1>1, <1>2 DEF AssignRole

LEMMA DerivedListed ==
    ASSUME NEW x, Listed(x), NEW node, NEW ctx, NEW role, NEW c, NEW allowed
    PROVE  Listed(Derived(x, node, ctx, role, c, allowed))
BY AddNodeListed, AssignRoleListed DEF Derived

\* What a batch appends for a run is a list of rows of that run.
LEMMA RecordsOwn ==
    ASSUME NEW x, Listed(x), NEW id, NEW authority \in Authorities
    PROVE  LET rows == RecordsOf(id, ExportRecords(x).records, authority)
           IN  rows \in Seq({r \in ToSet(rows) : r.run = id})
<1> DEFINE exported == Oldest(x.nodes)
           rows == RecordsOf(id, exported, authority)
           row(type, rec) == [run |-> id, type |-> type, rec |-> rec]
           R == {row("context_role", rec) : rec \in ToSet(x.nodes)}
                \cup {row("authority_strength", rec) : rec \in ToSet(authority)}
           a == [k \in 1 .. Len(exported) |-> row("context_role", exported[k])]
           b == [k \in 1 .. Len(authority) |-> row("authority_strength", authority[k])]
<1>1. ExportRecords(x).records = exported
  BY DEF ExportRecords
<1>2. exported \in Seq(ToSet(x.nodes))
  <2>1. x.nodes \in Seq(ToSet(x.nodes)) /\ Len(x.nodes) \in Nat
    BY LenProperties DEF Listed
  <2>2. LeastOf(Len(x.nodes), ExportLimit) \in 0 .. Len(x.nodes)
    BY <2>1, LeastWithin, ContextRolesAssumption
  <2> QED
    BY <2>1, <2>2, FirstOver DEF Oldest
<1>3. authority \in Seq(ToSet(authority))
  BY ScaffoldLoopAssumption
<1>4. rows = a \o b
  BY DEF RecordsOf
<1> HIDE DEF exported
<1>5. /\ Len(exported) \in Nat /\ \A k \in 1 .. Len(exported) : exported[k] \in ToSet(x.nodes)
      /\ Len(authority) \in Nat /\ \A k \in 1 .. Len(authority) : authority[k] \in ToSet(authority)
  BY <1>2, <1>3, LenProperties, ElementOfSeq
<1>6. a \in Seq(R) /\ b \in Seq(R)
  BY <1>5
<1>7. \A r \in R : r.run = id
  OBVIOUS
<1> HIDE DEF a, b, R, rows
<1>8. rows \in Seq(R)
  BY <1>4, <1>6, ConcatProperties
<1>9. ToSet(rows) \subseteq R /\ rows \in Seq(ToSet(rows))
  BY <1>8, ToSetOfSeq
<1>10. ToSet(rows) \subseteq {r \in ToSet(rows) : r.run = id}
  BY <1>7, <1>9
<1>11. rows \in Seq({r \in ToSet(rows) : r.run = id})
  BY <1>9, <1>10, SeqMonotonic
<1> QED
  BY <1>1, <1>11 DEF rows

\* The rows of two lists joined are those of either.
LEMMA JoinedOver ==
    ASSUME NEW S, NEW T, NEW s \in Seq(S), NEW t \in Seq(T)
    PROVE  /\ s \o t \in Seq(ToSet(s \o t))
           /\ ToSet(s \o t) \subseteq ToSet(s) \cup ToSet(t)
<1>1. s \in Seq(ToSet(s)) /\ t \in Seq(ToSet(t))
  BY ToSetOfSeq
<1> DEFINE U == ToSet(s) \cup ToSet(t)
<1>2. s \in Seq(U) /\ t \in Seq(U)
  BY <1>1, SeqMonotonic
<1> HIDE DEF U
<1>3. s \o t \in Seq(U)
  BY <1>2, ConcatProperties
<1>4. s \o t \in Seq(ToSet(s \o t)) /\ ToSet(s \o t) \subseteq U
  BY <1>3, ToSetOfSeq
<1> QED
  BY <1>4 DEF U

\* What was earned stays earned: no run is unlearned.
LEMMA EarnedStays ==
    ASSUME witnessed \subseteq witnessed', NEW row, Earned(row)
    PROVE  Earned(row)'
<1> DEFINE type == IF row.kind = "context_role_recurrence"
                   THEN "context_role" ELSE "authority_strength"
           old == SeenIn(type, row.key)
           new == SeenIn(type, row.key)'
<1>1. old \subseteq new /\ new \subseteq RunIds
  BY DEF SeenIn
<1>2. IsFiniteSet(RunIds)
  BY ScaffoldLoopAssumption
<1> HIDE DEF old, new
<1>3. IsFiniteSet(new)
  BY <1>1, <1>2, FS_Subset
<1>4. IsFiniteSet(old) /\ Cardinality(old) <= Cardinality(new)
  BY <1>1, <1>3, FS_Subset
<1>5. Cardinality(old) \in Nat /\ Cardinality(new) \in Nat
  BY <1>3, <1>4, FS_CardinalityType
<1>6. row.runs \in Nat /\ row.runs <= Cardinality(old)
      /\ (row.use = "clustering_prior" => Cardinality(old) >= 2)
  BY DEF Earned, old
<1>7. row.runs \in Nat /\ row.runs <= Cardinality(new)
      /\ (row.use = "clustering_prior" => Cardinality(new) >= 2)
  BY <1>4, <1>5, <1>6
<1> QED
  BY <1>7 DEF Earned, new

LEMMA MemoryStart == Init => MemoryKept
<1> SUFFICES ASSUME Init PROVE MemoryKept
  OBVIOUS
<1>1. <<>> \in Seq({}) /\ ToSet(<<>>) = {}
  <2>1. <<>> \in Seq({})
    BY EmptySeq
  <2>2. ToSet(<<>>) = {}
    BY DEF ToSet
  <2> QED
    BY <2>1, <2>2
<1>2. store.rows = <<>> /\ "rows" \in DOMAIN store /\ file = <<>> /\ run = {}
  BY DEF Init
<1>3. "nodes" \in DOMAIN ix /\ ix.nodes = <<>>
  BY DEF Init, EmptyIndex
<1> QED
  BY <1>1, <1>2, <1>3 DEF MemoryKept, Witnessed, Listed

\* The batch appends only rows of the run that ends, and notes their structures.
LEMMA EndRolesKept ==
    ASSUME MemoryKept, NEW id \in run, NEW authority \in Authorities,
           NEW torn \in BOOLEAN, EndRoles(id, authority, torn)
    PROVE  MemoryKept'
<1> DEFINE rows == RecordsOf(id, ExportRecords(ix).records, authority)
<1>1. PICK n \in 0 .. Len(rows) :
        LET whole == n = Len(rows) /\ ~torn
            kept  == SubSeq(rows, 1, n)
        IN  /\ store' = IF whole /\ rows = <<>> THEN [store EXCEPT !.torn = FALSE]
                        ELSE Appended(kept, torn \/ (n = 0 /\ store.torn))
            /\ witnessed' = witnessed \cup {<<Structure(r), id>> : r \in ToSet(kept)}
  BY DEF EndRoles
<1> DEFINE kept == SubSeq(rows, 1, n)
           more == IF store.torn /\ kept # <<>> THEN Tail(kept) ELSE kept
<1>2. ix' = EmptyIndex /\ run' = {} /\ file' = file
  BY DEF EndRoles
<1>3. id \in RunIds
  BY DEF MemoryKept
<1>4. rows \in Seq({r \in ToSet(rows) : r.run = id})
  BY RecordsOwn DEF MemoryKept
<1> DEFINE own == {r \in ToSet(rows) : r.run = id}
<1>5. kept \in Seq(own)
  <2> HIDE DEF rows, own
  <2> QED
    BY <1>4, FirstOver DEF own
<1>6. store' = [store EXCEPT !.torn = FALSE]
      \/ \E t : store' = Appended(kept, t)
  BY <1>1
<1>7. witnessed' = witnessed \cup {<<Structure(r), id>> : r \in ToSet(kept)}
  BY <1>1
<1>8. \A r \in own : r.run = id
  OBVIOUS
<1> HIDE DEF rows, own, kept
<1>9. more \in Seq(ToSet(kept))
  <2>1. kept \in Seq(ToSet(kept))
    BY <1>5, ToSetOfSeq
  <2>2. kept # <<>> => Tail(kept) \in Seq(ToSet(kept))
    BY <2>1, HeadTailProperties
  <2> QED
    BY <2>1, <2>2
<1>10. ToSet(kept) \subseteq own
  BY <1>5, ToSetOfSeq
<1>11. \A r \in ToSet(kept) : r.run \in RunIds /\ <<Structure(r), r.run>> \in witnessed'
  BY <1>3, <1>7, <1>8, <1>10
<1>12. \A r \in ToSet(store.rows) : r.run \in RunIds /\ <<Structure(r), r.run>> \in witnessed'
  BY <1>7 DEF MemoryKept, Witnessed
<1>13. /\ "rows" \in DOMAIN store' /\ store'.rows \in Seq(ToSet(store'.rows))
       /\ ToSet(store'.rows) \subseteq ToSet(store.rows) \cup ToSet(kept)
  <2>1. CASE store' = [store EXCEPT !.torn = FALSE]
    <3>1. "rows" \in DOMAIN store' /\ store'.rows = store.rows
      BY <2>1 DEF MemoryKept
    <3> QED
      BY <3>1 DEF MemoryKept
  <2>2. CASE \E t : store' = Appended(kept, t)
    <3>1. "rows" \in DOMAIN store' /\ store'.rows = store.rows \o more
      <4> DEFINE joined == store.rows \o more
      <4>1. PICK t : store' = [rows |-> joined, torn |-> t]
        BY <2>2 DEF Appended
      <4> HIDE DEF joined
      <4>2. "rows" \in DOMAIN store' /\ store'.rows = joined
        BY <4>1
      <4> QED
        BY <4>2 DEF joined
    <3>2. store.rows \in Seq(ToSet(store.rows))
      BY DEF MemoryKept
    <3>3. ToSet(more) \subseteq ToSet(kept)
      BY <1>9, ToSetOfSeq
    <3> HIDE DEF more
    <3>4. /\ store.rows \o more \in Seq(ToSet(store.rows \o more))
          /\ ToSet(store.rows \o more) \subseteq ToSet(store.rows) \cup ToSet(more)
      BY <1>9, <3>2, JoinedOver
    <3> QED
      BY <3>1, <3>3, <3>4
  <2> QED
    BY <1>6, <2>1, <2>2
<1>14. Witnessed(store.rows)'
  <2>1. \A r \in ToSet(store'.rows) : r.run \in RunIds /\ <<Structure(r), r.run>> \in witnessed'
    BY <1>11, <1>12, <1>13
  <2> QED
    BY <2>1 DEF Witnessed, Structure
<1>15. Listed(EmptyIndex)
  <2>1. <<>> \in Seq({})
    BY EmptySeq
  <2>2. <<>> \in Seq(ToSet(<<>>))
    BY <2>1, ToSetOfSeq
  <2> QED
    BY <2>2 DEF Listed, EmptyIndex
<1>16. \A row \in ToSet(file') : row.whole => Earned(row)'
  BY <1>2, <1>7, EarnedStays DEF MemoryKept
<1>17. Listed(ix')
  BY <1>2, <1>15
<1>18. file' \in Seq(ToSet(file')) /\ run' \subseteq RunIds
  BY <1>2 DEF MemoryKept
<1> QED
  BY <1>13, <1>14, <1>16, <1>17, <1>18 DEF MemoryKept, Listed

\* Sleep rewrites the file with what memory justifies now, or the first of it.
LEMMA SleepKept ==
    ASSUME MemoryKept, NEW cut \in BOOLEAN, Sleep(cut)
    PROVE  MemoryKept'
<1> DEFINE proposals == RunSleep(store.rows)
           last == IF cut THEN <<CutRow>> ELSE <<>>
<1>1. PICK n \in 0 .. Len(proposals) : file' = SubSeq(proposals, 1, n) \o last
  BY DEF Sleep
<1>2. UNCHANGED <<store, run, roles, witnessed>>
  BY DEF Sleep
<1>3. /\ proposals \in Seq(ToSet(proposals))
      /\ \A k \in 1 .. Len(proposals) : Earned(proposals[k])
  BY SleepEarned DEF MemoryKept
<1> HIDE DEF proposals
<1> DEFINE first == SubSeq(proposals, 1, n)
<1>4. first \in Seq(ToSet(proposals)) /\ \A row \in ToSet(proposals) : Earned(row)
  <2>1. first \in Seq(ToSet(proposals))
    BY <1>3, FirstOver
  <2>2. ToSet(proposals) = {proposals[k] : k \in 1 .. Len(proposals)}
    BY <1>3, ToSetOfSeq
  <2> QED
    BY <1>3, <2>1, <2>2
<1>5. last \in Seq({CutRow})
  <2>1. <<>> \in Seq({CutRow})
    BY EmptySeq
  <2>2. <<CutRow>> \in Seq({CutRow})
    OBVIOUS
  <2> QED
    BY <2>1, <2>2
<1> HIDE DEF first, last
<1>6. file' \in Seq(ToSet(file')) /\ ToSet(file') \subseteq ToSet(first) \cup ToSet(last)
  <2>1. /\ first \o last \in Seq(ToSet(first \o last))
        /\ ToSet(first \o last) \subseteq ToSet(first) \cup ToSet(last)
    BY <1>4, <1>5, JoinedOver
  <2>2. file' = first \o last
    BY <1>1 DEF first, last
  <2> QED
    BY <2>1, <2>2
<1>7. ToSet(first) \subseteq ToSet(proposals) /\ ToSet(last) \subseteq {CutRow}
  BY <1>4, <1>5, ToSetOfSeq
<1>8. ~CutRow.whole
  BY DEF CutRow
<1>9. \A row \in ToSet(file') : row.whole => Earned(row)
  BY <1>4, <1>6, <1>7, <1>8
<1>10. \A row \in ToSet(file') : row.whole => Earned(row)'
  BY <1>2, <1>9, EarnedStays
<1>11. Witnessed(store.rows)' /\ Listed(ix')
  BY <1>2 DEF MemoryKept, Witnessed, Structure, roles
<1> QED
  BY <1>2, <1>6, <1>10, <1>11 DEF MemoryKept, Listed

LEMMA MemoryStep ==
    ASSUME MemoryKept, [Next]_vars
    PROVE  MemoryKept'
<1>1. ASSUME UNCHANGED <<store, file, witnessed>>, Listed(ix'), run' \subseteq RunIds
      PROVE  MemoryKept'
  <2>1. \A row \in ToSet(file') : row.whole => Earned(row)'
    BY <1>1, EarnedStays DEF MemoryKept
  <2>2. Witnessed(store.rows)'
    BY <1>1 DEF MemoryKept, Witnessed, Structure
  <2> QED
    BY <1>1, <2>1, <2>2 DEF MemoryKept, Listed
<1>2. Listed(ix) /\ run \subseteq RunIds
  BY DEF MemoryKept
<1>3. Listed(EmptyIndex)
  <2>1. <<>> \in Seq({})
    BY EmptySeq
  <2>2. <<>> \in Seq(ToSet(<<>>))
    BY <2>1, ToSetOfSeq
  <2> QED
    BY <2>2 DEF Listed, EmptyIndex
<1>4. ASSUME UNCHANGED <<store, file, run, ix, witnessed>> PROVE MemoryKept'
  BY <1>1, <1>2, <1>4
<1>5. CASE Record
  <2>1. ASSUME NEW next, Recording(next), Listed(next) PROVE MemoryKept'
    BY <1>1, <1>2, <2>1 DEF Recording, batch
  <2>2. PICK role \in {"tareth", "trass"}, v \in Vars, fit \in Fits, allowed \in BOOLEAN :
          \/ Skip(v, fit, role)
          \/ \E p \in Vars : Route(p, v, fit, role, allowed)
          \/ \E pair \in Pairs : Composite(pair, v, fit, allowed)
          \/ \E pair \in Pairs : RegimeConfirmed(pair)
    BY <1>5 DEF Record
  <2>3. CASE Skip(v, fit, role)
    <3>1. Listed(RecordSkip(ix, v, fit, role, cycle))
      BY <1>2, AddNodeListed, AssignRoleListed DEF RecordSkip
    <3> QED
      BY <2>1, <2>3, <3>1 DEF Skip
  <2>4. ASSUME NEW p \in Vars, Route(p, v, fit, role, allowed) PROVE MemoryKept'
    <3>1. Listed(RecordRoute(ix, p, v, fit, role, cycle, allowed))
      BY <1>2, DerivedListed DEF RecordRoute
    <3> QED
      BY <2>1, <2>4, <3>1 DEF Route
  <2>5. ASSUME NEW pair \in Pairs, Composite(pair, v, fit, allowed) PROVE MemoryKept'
    <3>1. Listed(RecordComposite(ix, pair, v, fit.edges, cycle, allowed))
      BY <1>2, DerivedListed DEF RecordComposite
    <3> QED
      BY <2>1, <2>5, <3>1 DEF Composite
  <2>6. ASSUME NEW pair \in Pairs, RegimeConfirmed(pair) PROVE MemoryKept'
    <3>1. Listed(RecordRegime(ix, 0, pair, cycle))
      BY <1>2, DerivedListed DEF RecordRegime
    <3> QED
      BY <2>1, <2>6, <3>1 DEF RegimeConfirmed
  <2> QED
    BY <2>2, <2>3, <2>4, <2>5, <2>6
<1>6. CASE Batch
  <2>1. ASSUME NEW id \in RunIds, StartRoles(id) PROVE MemoryKept'
    BY <1>1, <1>3, <2>1 DEF StartRoles
  <2>2. CASE NextCycle
    BY <1>4, <2>2 DEF NextCycle, batch
  <2>3. ASSUME NEW id \in run, NEW authority \in Authorities, NEW torn \in BOOLEAN,
               EndRoles(id, authority, torn)
        PROVE  MemoryKept'
    BY <2>3, EndRolesKept
  <2>4. CASE FailRoles
    <3>1. store' = [store EXCEPT !.torn = FALSE] /\ UNCHANGED <<file, witnessed>>
          /\ ix' = EmptyIndex /\ run' = {}
      BY <2>4 DEF FailRoles
    <3>2. "rows" \in DOMAIN store' /\ store'.rows = store.rows
      BY <3>1 DEF MemoryKept
    <3>3. \A row \in ToSet(file') : row.whole => Earned(row)'
      BY <3>1, EarnedStays DEF MemoryKept
    <3>4. Witnessed(store.rows)'
      BY <3>1, <3>2 DEF MemoryKept, Witnessed, Structure
    <3>5. Listed(ix')
      BY <1>3, <3>1
    <3> QED
      BY <3>1, <3>2, <3>3, <3>4, <3>5 DEF MemoryKept, Listed
  <2>5. CASE Continue
    BY <1>4, <2>5 DEF Continue, roles
  <2>6. ASSUME NEW cut \in BOOLEAN, Sleep(cut) PROVE MemoryKept'
    BY <2>6, SleepKept
  <2> QED
    BY <1>6, <2>1, <2>2, <2>3, <2>4, <2>5, <2>6 DEF Batch
<1>7. CASE Steer
  <2>1. ASSUME NEW index, NEW rows, StartExpressions(index, rows) PROVE MemoryKept'
    BY <1>4, <2>1 DEF StartExpressions, roles
  <2>2. ASSUME NEW v, NEW available, NEW inCycle, NEW improved,
               Audit(v, available, inCycle, improved)
        PROVE  MemoryKept'
    BY <1>4, <2>2 DEF Audit, batch, roles
  <2>3. CASE EndExpressions
    BY <1>4, <2>3 DEF EndExpressions, roles
  <2> QED
    BY <1>7, <2>1, <2>2, <2>3 DEF Steer
<1>8. CASE UNCHANGED vars
  BY <1>4, <1>8 DEF vars, batch, roles
<1> QED
  BY <1>5, <1>6, <1>7, <1>8 DEF Next

\* The expressions passed to the run with one of these rights.
PassedWith(rights) == {k \in DOMAIN given : given[k].right \in rights}

\* An expression has the right it started with or earned that of a hint.
Risen(k) ==
    \/ table[k].right = Start(given, k)
    \/ /\ Start(given, k) = "feature_only" /\ table[k].right = "ranking_hint"
       /\ credits[k] > 0 /\ Brought(given, k) + credits[k] >= Threshold
       /\ PassedWith({"ranking_hint"}) # {}

\* Evidence is what was brought and what was credited since; a variable is due
\* credit only when the caller passed a hint.
PowerKept ==
    /\ \A k \in DOMAIN given :
           k \in DOMAIN table /\ Body(given[k]) /\ table[k].vars = given[k].vars
    /\ DOMAIN credits = DOMAIN table
    /\ \A k \in DOMAIN table :
           /\ Body(table[k]) /\ credits[k] \in Nat
           /\ table[k].evidence = Brought(given, k) + credits[k]
           /\ Risen(k)
    /\ DOMAIN pending = Vars
    /\ \A v \in Vars : /\ pending[v] \subseteq DOMAIN table
                       /\ pending[v] # {} => PassedWith({"ranking_hint"}) # {}
    /\ audit.removed \subseteq UNION {given[k].vars : k \in PassedWith({"hard_filter", "block"})}
    /\ ~audit.starved

LEMMA PowerStart == Init => PowerKept
<1> SUFFICES ASSUME Init PROVE PowerKept
  OBVIOUS
<1>1. DOMAIN given = {} /\ DOMAIN table = {} /\ DOMAIN credits = {}
  BY DEF Init
<1>2. DOMAIN pending = Vars /\ \A v \in Vars : pending[v] = {}
  BY DEF Init, Absent, NoCredit
<1>3. audit.removed = {} /\ ~audit.starved
  BY DEF Init, NoAudit
<1> QED
  BY <1>1, <1>2, <1>3 DEF PowerKept

\* What a run loads starts with what was passed to it.
LEMMA StartKept ==
    ASSUME NEW index \in Givens \cup {<<>>}, NEW S, NEW rows \in Seq(S),
           StartExpressions(index, rows)
    PROVE  PowerKept'
<1>1. /\ given' = index /\ table' = Loaded(index, LoadProposals(rows))
      /\ credits' = [k \in DOMAIN table' |-> 0]
      /\ pending' = Absent /\ audit' = NoAudit
  BY DEF StartExpressions
<1>2. \A k \in DOMAIN index : Body(index[k])
  <2>1. CASE index = <<>>
    BY <2>1
  <2>2. CASE index \in Givens
    <3>1. \A k \in DOMAIN index :
            index[k] \in [vars : SUBSET Nat, right : DOMAIN UseRank, evidence : Nat]
      BY <2>2, ScaffoldLoopAssumption
    <3> QED
      BY <3>1 DEF Body
  <2> QED
    BY <2>1, <2>2
<1>3. \E T : LoadProposals(rows) \in Seq(T)
  <2> DEFINE readable == Picked(rows, {i \in DOMAIN rows :
                             rows[i].whole /\ ~rows[i].hidden /\ rows[i].id # <<>>})
             T == {FromDict(readable[k]) : k \in 1 .. Len(readable)}
  <2>1. LoadProposals(rows) = [k \in 1 .. Len(readable) |-> FromDict(readable[k])]
    BY DEF LoadProposals
  <2>2. readable \in Seq(S)
    BY PickedPlaces
  <2> HIDE DEF readable
  <2>3. Len(readable) \in Nat
    BY <2>2, LenProperties
  <2>4. LoadProposals(rows) \in Seq(T)
    BY <2>1, <2>3
  <2> QED
    BY <2>4
<1>4. LoadedOver(index, Loaded(index, LoadProposals(rows)))
  BY <1>2, <1>3, LoadedIsOver
<1>5. LoadedOver(given', table')
  BY <1>1, <1>4
<1>6. \A k \in DOMAIN table' :
        /\ Body(table'[k]) /\ credits'[k] = 0
        /\ table'[k].right = Start(given', k) /\ table'[k].evidence = Brought(given', k)
  BY <1>1, <1>5 DEF LoadedOver
<1>7. \A k \in DOMAIN table' : Brought(given', k) \in Nat
  BY <1>6 DEF Body
<1>8. \A k \in DOMAIN given' :
        k \in DOMAIN table' /\ Body(given'[k]) /\ table'[k].vars = given'[k].vars
  BY <1>1, <1>2, <1>5 DEF LoadedOver
<1>9. DOMAIN credits' = DOMAIN table'
  BY <1>1
<1>10. DOMAIN pending' = Vars /\ \A v \in Vars : pending'[v] = {}
  BY <1>1 DEF Absent, NoCredit
<1>11. audit'.removed = {} /\ ~audit'.starved
  BY <1>1 DEF NoAudit
<1>12. \A k \in DOMAIN table' : table'[k].evidence = Brought(given', k) + credits'[k]
  BY <1>6, <1>7
<1>13. \A k \in DOMAIN table' : Risen(k)' /\ credits'[k] \in Nat
  BY <1>6 DEF Risen, Start
<1> QED
  BY <1>6, <1>8, <1>9, <1>10, <1>11, <1>12, <1>13 DEF PowerKept, Body, Brought

\* An audit narrows by what was passed, and credits only what was hinted at.
LEMMA AuditKept ==
    ASSUME PowerKept, NEW v \in Vars, NEW available, NEW inCycle \in BOOLEAN,
           NEW improved \in BOOLEAN, Audit(v, available, inCycle, improved)
    PROVE  PowerKept'
<1> DEFINE keys == IF ActiveIds(loaded, v) = {} THEN {}
                   ELSE Contributing(table, ActiveIds(loaded, v))
           barred == Covered(table, keys, {"hard_filter", "block"})
           searched == Narrowed(available, barred)
           hints == PassedWith({"ranking_hint"})
           due(credit) == IF credit = NoCredit THEN pending[v] ELSE credit
<1>1. PICK credit \in Creditable(table, keys, searched) :
        /\ audit' = [removed |-> available \ searched,
                     starved |-> available # {} /\ searched = {}]
        /\ pending' = [pending EXCEPT ![v] = IF inCycle THEN NoCredit ELSE due(credit)]
        /\ table' = IF inCycle THEN Outcome(table, due(credit), improved) ELSE table
        /\ credits' = IF inCycle /\ improved
                      THEN [k \in DOMAIN credits |->
                               credits[k] + (IF k \in due(credit) THEN 1 ELSE 0)]
                      ELSE credits
  BY DEF Audit
<1>2. given' = given
  BY DEF Audit
<1>3. keys \subseteq DOMAIN table
  BY DEF Contributing
<1>4. searched = available \/ (searched = available \ barred /\ searched # {})
  BY DEF Narrowed
<1> HIDE DEF keys
<1>5. barred \subseteq UNION {given[k].vars : k \in PassedWith({"hard_filter", "block"})}
  <2>1. ASSUME NEW k \in keys, table[k].right \in {"hard_filter", "block"}
        PROVE  k \in PassedWith({"hard_filter", "block"}) /\ table[k].vars = given[k].vars
    <3>1. Risen(k) /\ (k \in DOMAIN given => table[k].vars = given[k].vars)
      BY <1>3 DEF PowerKept
    <3>2. Start(given, k) \in {"hard_filter", "block"}
      BY <2>1, <3>1 DEF Risen
    <3>3. k \in DOMAIN given
      BY <3>2 DEF Start, MinedRight
    <3> QED
      BY <3>1, <3>2, <3>3 DEF PassedWith, Start
  <2> QED
    BY <2>1 DEF Covered
<1>6. /\ due(credit) \subseteq DOMAIN table
      /\ due(credit) # {} => hints # {}
  <2>1. CASE credit = NoCredit
    BY <2>1 DEF PowerKept
  <2>2. CASE credit # NoCredit
    <3>1. /\ Covered(table, keys, {"ranking_hint"}) # {}
          /\ \E k \in keys : credit = {k}
      BY <2>2, <1>1 DEF Creditable
    <3>2. PICK k \in keys : table[k].right = "ranking_hint"
      BY <3>1 DEF Covered
    <3>3. Risen(k)
      BY <1>3 DEF PowerKept
    <3>4. hints # {}
      <4>1. CASE table[k].right = Start(given, k)
        <5>1. k \in DOMAIN given /\ given[k].right = "ranking_hint"
          BY <3>2, <4>1 DEF Start, MinedRight
        <5> QED
          BY <5>1 DEF PassedWith
      <4>2. CASE table[k].right # Start(given, k)
        BY <3>3, <4>2 DEF Risen
      <4> QED
        BY <4>1, <4>2
    <3>5. due(credit) = credit /\ credit \subseteq DOMAIN table
      BY <1>3, <2>2, <3>1
    <3> QED
      BY <3>4, <3>5
  <2> QED
    BY <2>1, <2>2
<1> DEFINE owed == due(credit)
<1>7. /\ pending' = [pending EXCEPT ![v] = IF inCycle THEN NoCredit ELSE owed]
      /\ table' = IF inCycle THEN Outcome(table, owed, improved) ELSE table
      /\ credits' = IF inCycle /\ improved
                    THEN [k \in DOMAIN credits |-> credits[k] + (IF k \in owed THEN 1 ELSE 0)]
                    ELSE credits
      /\ owed \subseteq DOMAIN table /\ (owed # {} => hints # {})
  BY <1>1, <1>6
<1>8. /\ audit'.removed \subseteq barred /\ ~audit'.starved
  <2>1. audit'.removed = available \ searched
        /\ audit'.starved = (available # {} /\ searched = {})
    BY <1>1
  <2> HIDE DEF searched, barred
  <2> QED
    BY <1>4, <2>1
<1> HIDE DEF owed, barred, searched
<1>9. PassedWith({"ranking_hint"})' = hints
      /\ PassedWith({"hard_filter", "block"})' = PassedWith({"hard_filter", "block"})
  BY <1>2 DEF PassedWith
<1>10. /\ DOMAIN table' = DOMAIN table /\ DOMAIN credits' = DOMAIN table
       /\ DOMAIN pending' = Vars
  BY <1>7 DEF PowerKept, Outcome
<1>11. ASSUME NEW k \in DOMAIN table
       PROVE  /\ table'[k] = IF inCycle /\ k \in owed THEN Credited(table[k], improved) ELSE table[k]
              /\ credits'[k] = IF inCycle /\ improved /\ k \in owed
                               THEN credits[k] + 1 ELSE credits[k]
  <2>1. credits[k] \in Nat /\ k \in DOMAIN credits
    BY DEF PowerKept
  <2> QED
    BY <1>7, <2>1 DEF Outcome
<1>12. ASSUME NEW k \in DOMAIN table
       PROVE  /\ Body(table'[k]) /\ table'[k].vars = table[k].vars /\ credits'[k] \in Nat
              /\ table'[k].evidence = Brought(given, k) + credits'[k]
              /\ Risen(k)'
  <2> DEFINE e == table[k]
             c == credits[k]
             b == Brought(given, k)
             s == Start(given, k)
             f == table'[k]
             d == credits'[k]
  <2>1. /\ Body(e) /\ c \in Nat /\ e.evidence = b + c
        /\ \/ e.right = s
           \/ /\ s = "feature_only" /\ e.right = "ranking_hint"
              /\ c > 0 /\ b + c >= Threshold /\ hints # {}
    BY DEF PowerKept, Risen
  <2>2. b \in Nat
    BY DEF PowerKept, Brought, Body
  <2>3. /\ f = IF inCycle /\ k \in owed THEN Credited(e, improved) ELSE e
        /\ d = IF inCycle /\ improved /\ k \in owed THEN c + 1 ELSE c
    BY <1>11
  <2>4. Threshold \in Nat
    BY NethraExpressionsAssumption
  <2>5. Risen(k)' = (\/ f.right = s
                     \/ /\ s = "feature_only" /\ f.right = "ranking_hint"
                        /\ d > 0 /\ b + d >= Threshold /\ hints # {})
    BY <1>2, <1>9 DEF Risen, Start, Brought
  <2> HIDE DEF e, c, b, s, f, d
  <2>6. CASE ~(inCycle /\ k \in owed)
    <3>1. f = e /\ d = c
      BY <2>3, <2>6
    <3> QED
      BY <2>1, <2>5, <3>1 DEF e, f, d, b
  <2>7. CASE inCycle /\ k \in owed
    <3> DEFINE n == IF improved THEN 1 ELSE 0
               r == IF improved /\ e.evidence + n >= Threshold /\ e.right = "feature_only"
                    THEN "ranking_hint" ELSE e.right
    <3>1. f = [e EXCEPT !.evidence = e.evidence + n, !.right = r]
      BY <2>3, <2>7 DEF Credited
    <3>2. d = c + n
      BY <2>1, <2>3, <2>7
    <3>3. n \in {0, 1} /\ (n = 1 <=> improved)
      OBVIOUS
    <3>4. DOMAIN f = DOMAIN e /\ f.evidence = e.evidence + n /\ f.right = r /\ f.vars = e.vars
      BY <2>1, <3>1 DEF Body
    <3>5. r \in DOMAIN UseRank
      BY <2>1 DEF Body, UseRank
    <3>6. hints # {}
      BY <1>7, <2>7
    <3>7. r = e.right \/ (r = "ranking_hint" /\ e.right = "feature_only" /\ n = 1
                          /\ e.evidence + n >= Threshold)
      BY <3>3
    <3> HIDE DEF n, r
    <3>8. f.evidence = b + d /\ f.evidence \in Nat /\ d \in Nat
      BY <2>1, <2>2, <3>2, <3>3, <3>4
    <3>9. Body(f)
      BY <2>1, <3>4, <3>5, <3>8 DEF Body
    <3>10. \/ f.right = s
           \/ /\ s = "feature_only" /\ f.right = "ranking_hint"
              /\ d > 0 /\ b + d >= Threshold /\ hints # {}
      <4>1. CASE r = e.right
        BY <2>1, <2>2, <2>4, <3>2, <3>3, <3>4, <4>1
      <4>2. CASE r # e.right
        <5>1. s = "feature_only"
          BY <2>1, <3>7, <4>2
        <5> QED
          BY <2>1, <2>2, <2>4, <3>2, <3>4, <3>6, <3>7, <4>2, <5>1
      <4> QED
        BY <4>1, <4>2
    <3> QED
      BY <2>5, <3>4, <3>8, <3>9, <3>10 DEF e, f, d, b
  <2> QED
    BY <2>6, <2>7
<1>13. \A w \in Vars : /\ pending'[w] \subseteq DOMAIN table
                       /\ pending'[w] # {} => hints # {}
  BY <1>7 DEF PowerKept, NoCredit
<1>14. \A k \in DOMAIN given' :
         k \in DOMAIN table' /\ Body(given'[k]) /\ table'[k].vars = given'[k].vars
  BY <1>2, <1>10, <1>12 DEF PowerKept
<1>15. \A k \in DOMAIN table' :
         /\ Body(table'[k]) /\ credits'[k] \in Nat
         /\ table'[k].evidence = Brought(given, k)' + credits'[k]
         /\ Risen(k)'
  BY <1>2, <1>10, <1>12 DEF Brought
<1>16. audit'.removed \subseteq UNION {given'[k].vars : k \in PassedWith({"hard_filter", "block"})'}
  BY <1>2, <1>5, <1>8, <1>9
<1> QED
  BY <1>8, <1>9, <1>10, <1>13, <1>14, <1>15, <1>16 DEF PowerKept, Body, Brought

LEMMA PowerStep ==
    ASSUME MemoryKept, PowerKept, [Next]_vars
    PROVE  PowerKept'
<1>1. ASSUME UNCHANGED agent PROVE PowerKept'
  <2>1. UNCHANGED <<table, pending, audit, given, credits>>
    BY <1>1 DEF agent
  <2> QED
    BY <2>1 DEF PowerKept, Body, Brought, Start, Risen, PassedWith
<1>2. CASE Record
  BY <1>1, <1>2 DEF Record, Skip, Route, Composite, RegimeConfirmed, Recording
<1>3. CASE Batch
  BY <1>1, <1>3 DEF Batch, StartRoles, NextCycle, EndRoles, FailRoles, Continue, Sleep
<1>4. CASE Steer
  <2>1. CASE file # <<>> /\ StartExpressions(<<>>, file)
    <3>1. file \in Seq(ToSet(file))
      BY DEF MemoryKept
    <3> QED
      BY <2>1, <3>1, StartKept
  <2>2. ASSUME NEW index \in Givens, NEW rows \in Products, StartExpressions(index, rows)
        PROVE  PowerKept'
    <3>1. rows \in Seq(ToSet(rows))
      BY ScaffoldLoopAssumption
    <3> QED
      BY <2>2, <3>1, StartKept
  <2>3. ASSUME NEW v \in Vars, NEW inCycle \in BOOLEAN, NEW improved \in BOOLEAN,
               NEW available, Audit(v, available, inCycle, improved)
        PROVE  PowerKept'
    BY <2>3, AuditKept
  <2>4. CASE EndExpressions
    <3>1. DOMAIN given' = {} /\ DOMAIN table' = {} /\ DOMAIN credits' = {}
      BY <2>4 DEF EndExpressions
    <3>2. DOMAIN pending' = Vars /\ \A v \in Vars : pending'[v] = {}
      BY <2>4 DEF EndExpressions, Absent, NoCredit
    <3>3. audit'.removed = {} /\ ~audit'.starved
      BY <2>4 DEF EndExpressions, NoAudit
    <3> QED
      BY <3>1, <3>2, <3>3 DEF PowerKept
  <2> QED
    BY <1>4, <2>1, <2>2, <2>3, <2>4 DEF Steer
<1>5. CASE UNCHANGED vars
  BY <1>1, <1>5 DEF vars
<1> QED
  BY <1>2, <1>3, <1>4, <1>5 DEF Next

-----------------------------------------------------------------------------
(* The theorems                                                            *)

\* However runs, kills, sleeps and audits follow each other, memory and the
\* proposals hold only what runs left, and a table only what was passed, mined
\* or credited (batch_run.py, memory_sleep.py, nethra_expression.py).
THEOREM ScaffoldInvariance == Spec => [](MemoryKept /\ PowerKept)
<1>1. Init => MemoryKept /\ PowerKept
  BY MemoryStart, PowerStart
<1>2. MemoryKept /\ PowerKept /\ [Next]_vars => (MemoryKept /\ PowerKept)'
  BY MemoryStep, PowerStep
<1> QED
  BY <1>1, <1>2, PTL DEF Spec

\* FamiliarityEarned: no proposal in the file claims more runs than left its
\* structure in memory, for any number of runs, records and limits
\* (memory_sleep.py, auto_sleep.py, batch_run.py).
THEOREM Familiarity == Spec => []FamiliarityEarned
<1>1. MemoryKept => FamiliarityEarned
  <2> SUFFICES ASSUME MemoryKept, NEW row \in ToSet(file), row.whole
               PROVE  LET type == IF row.kind = "context_role_recurrence"
                                  THEN "context_role" ELSE "authority_strength"
                          seenIn == {r \in RunIds : <<<<type, row.key>>, r>> \in witnessed}
                      IN  /\ row.runs <= Cardinality(seenIn)
                          /\ row.use = "clustering_prior" => Cardinality(seenIn) >= 2
    BY DEF FamiliarityEarned
  <2>1. Earned(row)
    BY DEF MemoryKept
  <2> QED
    BY <2>1 DEF Earned, SeenIn
<1> QED
  BY <1>1, ScaffoldInvariance, PTL

\* PowerGranted: no sequence of loads, audits and outcomes gives an expression a
\* right the caller did not pass and enough credit did not earn, and no audit is
\* left without candidates (nethra_expression.py, agent.py).
THEOREM Power == Spec => []PowerGranted
<1>1. PowerKept => PowerGranted
  <2> SUFFICES ASSUME PowerKept PROVE PowerGranted
    OBVIOUS
  <2>1. \A k \in DOMAIN table : Risen(k)
    BY DEF PowerKept
  <2> QED
    BY <2>1 DEF PowerKept, PowerGranted, Risen, Start, Brought, MinedRight, PassedWith
<1> QED
  BY <1>1, ScaffoldInvariance, PTL
=============================================================================
