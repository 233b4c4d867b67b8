---------------------------- MODULE MCAgentGraph ----------------------------
(* Small instances of AgentCycle and of TopologicalOrder for the same      *)
(* number of variables: a chain of believed fits, and every graph.  The    *)
(* two share no variable, and a behaviour belongs to one of them.          *)
EXTENDS MCAgentCycle, TopologicalOrder

CONSTANT MaxSources   \* max_source_edges of the enumeration

\* A fit has at most MaxSources sources, which the enumeration of hypotheses
\* lists in ascending order.
MCTuples ==
    [v \in Vars |-> {s \in BoundedSeq(Vars \ {v}, MaxSources) :
                        \A i, j \in DOMAIN s : i < j => s[i] < s[j]}]

\* Every pair of different variables may be pruned.
MCPrunable == {pair \in Vars \X Vars : pair[1] # pair[2]}

\* One of the initial states of AgentCycle.
Booting == Init /\ inert = {} /\ order = [i \in 1 .. NVars |-> i - 1]

EitherInit == Init /\ OrderInit
CycleStep == OrderInit /\ Next /\ UNCHANGED orderVars
GraphStep == Booting /\ OrderNext /\ UNCHANGED vars

EitherSpec == EitherInit /\ [][CycleStep \/ GraphStep]_<<vars, orderVars>>
=============================================================================
