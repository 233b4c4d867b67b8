-------------------------- MODULE TopologicalOrder --------------------------
(***************************************************************************)
(* The graph algorithms the agent runs over the believed sources: the      *)
(* depth-first topological order with its cache (_topological_order), the  *)
(* closure of a cascade (closure_descendants) and the ancestor test        *)
(* (_is_ancestor).  The graph changes as audits install fits and variables *)
(* are revealed; fits may well form cycles.                                *)
(***************************************************************************)
EXTENDS Ledger, SequencesExt

CONSTANTS
    Sources,    \* the source tuples an audit may install for each variable
    Prunable    \* bound: the pairs <<v, p>> of which p may become trass to v

ASSUME SourcesAssumption ==
    /\ \A v \in Vars : Sources[v] \subseteq Seq(Vars)
    /\ Prunable \subseteq Vars \X Vars

VARIABLES
    sources,   \* source_edges of each variable, a tuple
    routes,    \* the candidates with a trass route cert, for each variable
    visibleCount,   \* world.visible_count
    cache      \* _topo_cache and _topo_cache_visible_count

orderVars == <<sources, routes, visibleCount, cache>>

Visible == 0 .. visibleCount - 1
NoCache == [order |-> <<>>, count |-> 0]

\* The graph as a ledger, for the operators of Ledger.
Graph ==
    [v \in Vars |-> [FreshVar EXCEPT !.src = ToSet(sources[v]), !.route = routes[v]]]

-----------------------------------------------------------------------------
(* The algorithms                                                          *)

\* for p in s: call(p), each call handed the state the one before returns; f
\* maps a state and an element to the state after the call.
Through(f, st, s) ==
    LET after[i \in 0 .. Len(s)] == IF i = 0 THEN st ELSE f[<<after[i - 1], s[i]>>]
    IN  after[Len(s)]

\* What visit() works on; its visited holds exactly the variables of result.
Searches == [result : Seq(Vars), inProgress : SUBSET Vars]

\* visit(), of which inner is the nested call.  Only visible variables are
\* visited.
Visit(inner) ==
    [call \in Searches \X Vars |->
        LET st == call[1]
            v  == call[2]
            entered == [st EXCEPT !.inProgress = @ \cup {v}]
            below   == Through(inner, entered, sources[v])
        IN  IF v >= visibleCount \/ v \in ToSet(st.result) \cup st.inProgress THEN st
            ELSE [result     |-> Append(below.result, v),
                  inProgress |-> below.inProgress \ {v}]]

\* Each nested call has one more variable in progress, so that none is deeper
\* than the number of variables.
VisitAll ==
    LET visit[depth \in 0 .. NVars] ==
            IF depth = 0 THEN [call \in Searches \X Vars |-> call[1]]
            ELSE Visit(visit[depth - 1])
    IN  visit[NVars]

TopoOrder ==
    Through(VisitAll, [result |-> <<>>, inProgress |-> {}],
            [i \in 1 .. visibleCount |-> i - 1]).result

\* One round of closure_descendants.
Expand(L, out, frontier) ==
    {d \in Vars \ out : \E v \in frontier :
        d \in VariableDependents(L, v) /\ v \notin L[d].route}

\* Mutant: the frontier is expanded once.
OneRound(L, S) == S \cup Expand(L, S, S)

\* closure_descendants: each round but the last adds a variable, so that none
\* follows as many as there are variables.
ClosureFrom(L, S) ==
    LET round[n \in 0 .. NVars] ==
            IF n = 0 THEN [out |-> S, frontier |-> S]
            ELSE LET last == round[n - 1]
                     new  == Expand(L, last.out, last.frontier)
                 IN  [out |-> last.out \cup new, frontier |-> new]
    IN  round[NVars].out

\* The answer of _is_ancestor, and what was visited for it.
Walks == [found : BOOLEAN, visited : SUBSET Vars]

\* _is_ancestor with its shared visited set; f asks of one source more.
SearchFrom(f, v, target, visited) ==
    IF v \in ToSet(sources[target]) THEN [found |-> TRUE, visited |-> visited]
    ELSE Through(f, [found |-> FALSE, visited |-> visited], sources[target])

\* The body of its loop, of which inner is that of the nested call.
Ask(inner, v) ==
    [call \in Walks \X Vars |->
        LET st == call[1]
            p  == call[2]
        IN  IF st.found \/ p \in st.visited THEN st
            ELSE SearchFrom(inner, v, p, st.visited \cup {p})]

\* Each nested call has one more variable visited.
AskAll(v) ==
    LET ask[depth \in 0 .. NVars] ==
            IF depth = 0 THEN [call \in Walks \X Vars |-> call[1]]
            ELSE Ask(ask[depth - 1], v)
    IN  ask[NVars]

\* Mutant: only the sources of target are asked.
IsSource(v, target) == v \in ToSet(sources[target])

IsAncestor(v, target) == SearchFrom(AskAll(v), v, target, {}).found

-----------------------------------------------------------------------------
OrderInit ==
    /\ sources = [v \in Vars |-> <<>>]
    /\ routes = [v \in Vars |-> {}]
    /\ visibleCount = 1
    /\ cache = NoCache

InstallKeepsCache(v, src) ==
    /\ sources' = [sources EXCEPT ![v] = src]
    /\ UNCHANGED <<routes, visibleCount, cache>>

\* _install_var: another tuple of visible sources drops the cached order.  A
\* source certified irrelevant is no candidate any more.
Install(v, src) ==
    /\ sources' = [sources EXCEPT ![v] = src]
    /\ cache' = IF sources[v] # src THEN NoCache ELSE cache
    /\ UNCHANGED <<routes, visibleCount>>

InstallSome ==
    \E v \in Visible : \E src \in Sources[v] :
        /\ ToSet(src) \subseteq Visible \ ({v} \cup routes[v])
        /\ Install(v, src)

\* A promotion certifies that p does not matter to the fit of v.
CertifyRoute ==
    \E v, p \in Visible :
        /\ <<v, p>> \in Prunable
        /\ p # v /\ p \notin ToSet(sources[v])
        /\ routes' = [routes EXCEPT ![v] = @ \cup {p}]
        /\ UNCHANGED <<sources, visibleCount, cache>>

\* on_variable_revealed
RevealOne ==
    /\ visibleCount < NVars
    /\ visibleCount' = visibleCount + 1
    /\ cache' = NoCache
    /\ UNCHANGED <<sources, routes>>

\* _topological_order: computed unless cached for this count of variables.
Order ==
    /\ cache' = IF cache # NoCache /\ cache.count = visibleCount THEN cache
                ELSE [order |-> TopoOrder, count |-> visibleCount]
    /\ UNCHANGED <<sources, routes, visibleCount>>

OrderNext == InstallSome \/ CertifyRoute \/ RevealOne \/ Order

OrderSpec == OrderInit /\ [][OrderNext]_orderVars

-----------------------------------------------------------------------------
(* Properties                                                              *)

\* The order a cycle would be given lists each visible variable once, sources
\* first, for the sources as they are now: a cached order is never stale.
OrderTopological ==
    cache # NoCache /\ cache.count = visibleCount =>
        /\ Len(cache.order) = visibleCount /\ ToSet(cache.order) = Visible
        /\ Topological(Graph, cache.order)

\* closure_descendants finds exactly what the unpruned belief edges reach,
\* whatever cycles the beliefs form.
ClosureExact ==
    \A S \in SUBSET Visible : ClosureFrom(Graph, S) = ClosureDescendants(Graph, S)

\* _is_ancestor answers exactly whether a chain of sources leads from v to
\* target, through cycles too, although the searches share one visited set.
AncestorExact ==
    \A v, target \in Visible :
        IsAncestor(v, target) <=>
            \E d \in VariableDependents(Graph, v) : target \in Reached(Beliefs(Graph), {d})
=============================================================================
