----------------------------- MODULE MindStore ------------------------------
(***************************************************************************)
(* learner/nethra_mind_store.py with the assimilator that decides which    *)
(* node explains a new row.  A process loads the mind the last one wrote,  *)
(* ingests the rows of one generation and writes the mind back.            *)
(*                                                                         *)
(* Ids, atoms, hooks and roles are values of small sets; a context is its  *)
(* hook and its variable.  Similarity is compared by cross-multiplication. *)
(* Which of several equally similar nodes explains a row depends on the    *)
(* order of a Python set of strings: any of them may.  Temporal spans,     *)
(* sample references and lift history only describe a node and are left    *)
(* out.                                                                    *)
(***************************************************************************)
EXTENDS Naturals, Sequences, FiniteSets, FiniteSetsExt, SequencesExt

CONSTANTS Records,      \* the rows a generation may bring
          SleepProducts,
          Events,
          Refused,      \* rows the compactor wrote itself, or with hidden truth
          NoContext,    \* the empty context string
          MaxNodes,     \* _MAX_NODES
          MaxEdges,     \* _MAX_EDGES
          MaxResiduals, \* ResidualIndex max_size
          MaxContexts,  \* _MAX_CONTEXTS
          MaxRows       \* bounds the rows all generations bring together

Rows == Records \cup SleepProducts

ASSUME MindStoreAssumption ==
    /\ MaxNodes \in Nat /\ MaxEdges \in Nat /\ MaxResiduals \in Nat
    /\ MaxContexts \in Nat \ {0} /\ MaxRows \in Nat
    /\ \A row \in Rows : /\ {row.success, row.failure, row.salience} \subseteq Nat
                        /\ IsFiniteSet(row.invalid) /\ IsFiniteSet(row.members)
    /\ \A event \in Events : event.effect \in Nat

VARIABLES nodes,     \* _nodes
          edges,     \* _edges: the count of <<source, target, relation>>
          residuals, \* _assimilator.residuals
          disk,      \* the mind file
          stage,     \* what the process is doing
          world,     \* the world-backed rows brought so far
          gone       \* those no node and no residual stands for any more

memory   == <<nodes, edges, residuals>>
history  == <<world, gone>>
mindVars == <<memory, disk, stage, history>>

-----------------------------------------------------------------------------
(* Nodes and edges                                                         *)

Rank == [soft_filter |-> 4, ranking_hint |-> 3, probe_hint |-> 2,
         feature_only |-> 1, record_only |-> 0]

\* effective_use_right: hard_filter and block have no rank.
EffectiveRight(rights) ==
    LET ranked == rights \cap DOMAIN Rank
    IN  IF ranked = {} THEN "record_only"
        ELSE CHOOSE r \in ranked : \A s \in ranked : Rank[s] <= Rank[r]

Blank == [abstract |-> FALSE, atoms |-> {}, contexts |-> <<>>, roles |-> {},
          rights |-> {}, evidence |-> 0, effects |-> 0, success |-> 0, failure |-> 0,
          invalid |-> {}, sleeps |-> 0, salience |-> 0]

\* The runtime takes the first context of a node for its scope.
Scope(node) == IF node.contexts = <<>> THEN NoContext ELSE Head(node.contexts)

WithContext(contexts, c) ==
    IF c = NoContext \/ c \in ToSet(contexts) \/ Len(contexts) >= MaxContexts
    THEN contexts ELSE Append(contexts, c)

Absorbed(node, row) ==
    [node EXCEPT !.atoms    = @ \cup row.atoms,
                 !.contexts = WithContext(@, row.context),
                 !.roles    = @ \cup row.roles,
                 !.rights   = @ \cup {row.right},
                 !.evidence = @ + 1,
                 !.success  = @ + row.success,
                 !.failure  = @ + row.failure,
                 !.invalid  = @ \cup row.invalid,
                 !.sleeps   = @ + (IF row.kind = "sleep" THEN 1 ELSE 0),
                 !.salience = IF row.salience > @ THEN row.salience ELSE @]

NodeOf(ns, id) == IF id \in DOMAIN ns THEN ns[id] ELSE Blank

\* f with the value v at x, which need not be in its domain.
With(f, x, v) == [y \in DOMAIN f \cup {x} |-> IF y = x THEN v ELSE f[y]]

UpsertNode(ns, id, row) == With(ns, id, Absorbed(NodeOf(ns, id), row))

\* upsert_edge for every edge of S
UpsertEdges(es, S) ==
    [e \in DOMAIN es \cup S |-> (IF e \in DOMAIN es THEN es[e] ELSE 0)
                               + (IF e \in S THEN 1 ELSE 0)]

-----------------------------------------------------------------------------
(* The assimilator                                                         *)

Shared(a, b) == Cardinality(a \cap b)
Joint(a, b)  == Cardinality(a \cup b)

\* Of the nodes that share an atom with the row, those of the highest Jaccard.
BestMatches(ns, row) ==
    LET near == {n \in DOMAIN ns : ns[n].atoms \cap row.atoms # {}}
        Closer(n, m) == Shared(ns[m].atoms, row.atoms) * Joint(ns[n].atoms, row.atoms)
                          <= Shared(ns[n].atoms, row.atoms) * Joint(ns[m].atoms, row.atoms)
    IN  {n \in near : \A m \in near : Closer(n, m)}

Fails(row)     == row.failure > 0 \/ row.invalid # {}
Dominant(node) == node.success > 2 /\ node.success > 3 * node.failure

\* The row comes from another decision hook than the node.
Splits(node, row) ==
    /\ Scope(node).hook # "" /\ row.context.hook # ""
    /\ Scope(node).hook # row.context.hook

\* Steps 4 and 5 of explain for the best match n.
Judged(node, row) ==
    LET shared == Shared(node.atoms, row.atoms)
        joint  == Joint(node.atoms, row.atoms)
    IN  IF 4 * shared < joint THEN "residual"
        ELSE IF Fails(row) /\ Dominant(node) THEN "contradiction"
        ELSE IF 2 * shared < joint THEN "residual"
        ELSE IF Splits(node, row) THEN "new"
        ELSE "assimilated"

\* explain: what becomes of a row whose id no node has, and by which node.  A
\* row without atoms shares none and so starts a node; one with no signal at
\* all is not among Records and SleepProducts.
Explanations(ns, row) ==
    IF BestMatches(ns, row) = {} THEN {[verdict |-> "new", by |-> row.id]}
    ELSE {[verdict |-> Judged(ns[n], row), by |-> n] : n \in BestMatches(ns, row)}

\* ResidualIndex.add: over the bound, the least salient row is evicted.
Holding(rs, row) ==
    LET all == Append(rs, row)
    IN  IF Len(all) <= MaxResiduals THEN {all}
        ELSE {RemoveAt(all, i) : i \in {i \in DOMAIN all :
                \A j \in DOMAIN all :
                    \/ all[i].salience < all[j].salience
                    \/ all[i].salience = all[j].salience /\ j <= i}}

-----------------------------------------------------------------------------
(* Ingestion                                                               *)

\* _ingest_sleep_structure_derivative: products of one shape share a node, of
\* which only the evidence grows.
Shape(row) == [hook  |-> row.context.hook,
               size  |-> Cardinality(row.atoms \ {row.context.var}),
               right |-> row.right]

\* _structural_id: the digest covers the kind, which no row shares with a
\* structural node.
ASSUME ShapesApart == \A row, product \in Rows : row.id # Shape(product)

Abstraction(row) ==
    [kind |-> "structure", id |-> Shape(row), atoms |-> {}, right |-> row.right,
     context |-> [hook |-> row.context.hook, var |-> ""],
     roles |-> {}, success |-> 0, failure |-> 0, invalid |-> {}, salience |-> 0]

WithStructure(ns, row) ==
    LET id == Shape(row)
    IN  IF id \in DOMAIN ns THEN [ns EXCEPT ![id].evidence = @ + 1]
        ELSE With(ns, id, [Absorbed(Blank, Abstraction(row)) EXCEPT !.abstract = TRUE])

\* A sleep product for another context than the node's empties its contexts.
Rescoped(ns, id, row) ==
    IF /\ row.kind = "sleep" /\ row.context # NoContext
       /\ ns[id].contexts # <<>> /\ Scope(ns[id]) # row.context
    THEN [ns EXCEPT ![id].contexts = <<>>]
    ELSE ns

\* The row is evidence of the node id, which gets an edge to the row's members
\* and, for a product, one to its structural form.
Folded(id, ns, row) ==
    LET plain   == UpsertNode(ns, id, row)
        members == {<<id, m, "member_of">> : m \in row.members \ {id}}
    IN  IF row.kind = "sleep"
        THEN /\ nodes' = WithStructure(plain, row)
             /\ edges' = UpsertEdges(edges, members \cup {<<id, Shape(row), "abstracted_as">>})
        ELSE /\ nodes' = plain
             /\ edges' = UpsertEdges(edges, members)

Held(row) ==
    /\ residuals' \in Holding(residuals, row)
    /\ gone' = gone + Len(residuals) + 1 - Len(residuals')
    /\ UNCHANGED <<nodes, edges>>

Contradicted(id, row) ==
    /\ nodes' = [nodes EXCEPT
         ![id].failure = @ + (IF row.kind = "sleep" THEN Cardinality(row.invalid)
                              ELSE IF row.failure > 0 THEN row.failure ELSE 1),
         ![id].invalid = @ \cup row.invalid]
    /\ gone' = gone + 1
    /\ UNCHANGED <<edges, residuals>>

\* A row whose id a node has is folded without asking the assimilator.
Known(row) ==
    /\ row.id \in DOMAIN nodes
    /\ Folded(row.id, nodes, row) /\ UNCHANGED <<residuals, gone>>

Unknown(row) ==
    /\ row.id \notin DOMAIN nodes
    /\ \E e \in Explanations(nodes, row) :
         \/ e.verdict = "residual" /\ Held(row)
         \/ e.verdict = "contradiction" /\ Contradicted(e.by, row)
         \/ /\ e.verdict = "new"
            /\ Folded(row.id, nodes, row) /\ UNCHANGED <<residuals, gone>>
         \/ /\ e.verdict = "assimilated"
            /\ Folded(e.by, Rescoped(nodes, e.by, row), row) /\ UNCHANGED <<residuals, gone>>

\* ingest_record and ingest_sleep_product
Ingest(row) ==
    /\ stage = "ingest" /\ world < MaxRows
    /\ world' = world + 1
    /\ Known(row) \/ Unknown(row)
    /\ UNCHANGED <<disk, stage>>

\* ingest_experience_event: a hint that had an effect succeeded or failed once,
\* however large the effect.
WithEffect(node, event) ==
    LET once == IF event.effect > 0 THEN 1 ELSE 0
    IN  [node EXCEPT !.effects = @ + event.effect,
                     !.success = @ + (IF event.success THEN once ELSE 0),
                     !.failure = @ + (IF event.success THEN 0 ELSE once)]

IngestEvent(event) ==
    /\ stage = "ingest" /\ world < MaxRows
    /\ world' = world + 1 /\ gone' = gone + 1
    /\ nodes' = [n \in DOMAIN nodes |-> IF n \in event.active THEN WithEffect(nodes[n], event)
                                        ELSE nodes[n]]
    /\ UNCHANGED <<edges, residuals, disk, stage>>

\* Mutant: a row the compactor wrote counts as evidence.
AcceptsRefused(row) ==
    /\ stage = "ingest" /\ row.id \in DOMAIN nodes
    /\ nodes[row.id].evidence < MaxRows
    /\ nodes' = UpsertNode(nodes, row.id, row)
    /\ UNCHANGED <<edges, residuals, disk, stage, history>>

\* _has_hidden_truth and _check_and_reject: only counters change.
Refuse(row) == stage = "ingest" /\ UNCHANGED mindVars

-----------------------------------------------------------------------------
(* Pruning, writing and loading                                            *)

\* Failures, invalidators and behaviour effects make a node worth keeping.
Safety(ns) == {n \in DOMAIN ns : ns[n].failure > 0 \/ ns[n].invalid # {} \/ ns[n].effects > 0}

SafetyKey(node) == 10 * node.failure + Cardinality(node.invalid) + node.effects
PlainKey(node)  == 1000 * node.salience + node.evidence + 10 * node.sleeps

\* The k elements of S of the highest key, ties broken in any way.
Top(S, k, Key(_)) ==
    {T \in SUBSET S : /\ Cardinality(T) = (IF k < Cardinality(S) THEN k ELSE Cardinality(S))
                      /\ \A x \in T, y \in S \ T : Key(x) >= Key(y)}

\* Mutant: the most salient nodes stay, whatever they are.
KeptBySalience(ns) ==
    IF Cardinality(DOMAIN ns) <= MaxNodes THEN {DOMAIN ns}
    ELSE LET Key(n) == PlainKey(ns[n]) IN Top(DOMAIN ns, MaxNodes, Key)

Kept(ns) ==
    LET safe == Safety(ns)
        SKey(n) == SafetyKey(ns[n])
        PKey(n) == PlainKey(ns[n])
    IN  IF Cardinality(DOMAIN ns) <= MaxNodes THEN {DOMAIN ns}
        ELSE IF Cardinality(safe) > MaxNodes THEN Top(safe, MaxNodes, SKey)
        ELSE {safe \cup T : T \in Top(DOMAIN ns \ safe, MaxNodes - Cardinality(safe), PKey)}

\* Edges are pruned only over their own cap; until then an edge outlives its nodes.
KeptEdges(es, kept) ==
    LET valid == {e \in DOMAIN es : e[1] \in kept /\ e[2] \in kept}
        Key(e) == es[e]
    IN  IF Cardinality(DOMAIN es) <= MaxEdges THEN {DOMAIN es} ELSE Top(valid, MaxEdges, Key)

\* The evidence of all but the structural nodes: as many rows as there are pairs
\* of a node and the place of a row in it.
Evidence(ns) ==
    Cardinality(UNION {{n} \X (1 .. ns[n].evidence) : n \in {m \in DOMAIN ns : ~ns[m].abstract}})

\* Mutant: only the strongest right of a node is written.
WritesSummary(node) == [node EXCEPT !.roles = {}, !.rights = {EffectiveRight(@)}]

\* to_dict does not write the roles.
Serialised(node) == [node EXCEPT !.roles = {}]

\* write_compact, which prunes first
WriteCompact ==
    /\ stage = "ingest" /\ stage' = "written"
    /\ \E kept \in Kept(nodes) : \E left \in KeptEdges(edges, kept) :
         /\ nodes' = [n \in kept |-> nodes[n]]
         /\ edges' = [e \in left |-> edges[e]]
         /\ gone' = gone + Evidence(nodes) - Evidence(nodes')
    /\ disk' = [nodes |-> [n \in DOMAIN nodes' |-> Serialised(nodes'[n])], edges |-> edges',
                residuals |-> residuals]
    /\ UNCHANGED <<residuals, world>>

\* The next process: load
Load ==
    /\ stage = "written" /\ stage' = "ingest"
    /\ nodes' = disk.nodes /\ edges' = disk.edges /\ residuals' = disk.residuals
    /\ UNCHANGED <<disk, history>>

Empty == [x \in {} |-> 0]

MindInit ==
    /\ nodes = Empty /\ edges = Empty /\ residuals = <<>>
    /\ disk = [nodes |-> Empty, edges |-> Empty, residuals |-> <<>>]
    /\ stage = "ingest" /\ world = 0 /\ gone = 0

MindNext ==
    \/ \E row \in Rows : Ingest(row)
    \/ \E event \in Events : IngestEvent(event)
    \/ \E row \in Refused : Refuse(row)
    \/ WriteCompact
    \/ Load

MindSpec == MindInit /\ [][MindNext]_mindVars

-----------------------------------------------------------------------------
(* Properties                                                              *)

NodeType(node) ==
    /\ node.rights # {} /\ node.evidence > 0
    /\ Len(node.contexts) <= MaxContexts
    /\ Cardinality(ToSet(node.contexts)) = Len(node.contexts)

\* Types, the caps of residuals and contexts, and those of a mind just written.
MindTypeOK ==
    /\ \A n \in DOMAIN nodes : NodeType(nodes[n])
    /\ \A e \in DOMAIN edges : edges[e] > 0
    /\ Len(residuals) <= MaxResiduals
    /\ stage \in {"ingest", "written"}
    /\ stage = "written" => /\ Cardinality(DOMAIN nodes) <= MaxNodes
                            /\ Cardinality(DOMAIN edges) <= MaxEdges
    /\ world \in 0..MaxRows /\ gone \in Nat

\* Every world-backed row any process ever ingested counts exactly once: as
\* evidence of one node, as a residual, or as one that left the mind.  What the
\* compactor itself wrote never counts, however often a mind is loaded.
EvidenceAccounted == world = Evidence(nodes) + Len(residuals) + gone

\* prune_to_cap: no node that carries a failure, an invalidator or an effect is
\* dropped while one that carries none stays.
SafetyKept ==
    [][(Safety(nodes) \ DOMAIN nodes') # {} => DOMAIN nodes' \subseteq Safety(nodes)]_nodes

\* What a surviving node has seen stays through folds, prunings and reloads: its
\* use rights, its failures and its evidence.  So no amount of failure takes a
\* hint right back.
NothingUnlearned ==
    [][\A n \in DOMAIN nodes \cap DOMAIN nodes' :
         /\ nodes[n].rights \subseteq nodes'[n].rights
         /\ nodes[n].failure <= nodes'[n].failure
         /\ nodes[n].evidence <= nodes'[n].evidence
         /\ nodes[n].invalid \subseteq nodes'[n].invalid]_nodes

\* The comment in ingest_sleep_product: a node that a product for another
\* context joins becomes a wildcard, so that it responds to every target.
WidensToWildcard ==
    [][\A n \in DOMAIN nodes \cap DOMAIN nodes' :
         nodes[n].contexts # <<>> /\ Scope(nodes'[n]) # Scope(nodes[n])
           => nodes'[n].contexts = <<>>]_nodes
=============================================================================
