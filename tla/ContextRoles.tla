---------------------------- MODULE ContextRoles ----------------------------
(***************************************************************************)
(* The record an agent keeps of what it fitted and of the role each fit    *)
(* plays in each context: context_role_index.py, the role surfaces of      *)
(* nethra_role_surface.py and the places where agent.py feeds them.        *)
(*                                                                         *)
(* An id is the tuple its string is formatted from.  A context is an       *)
(* operation, a variable and its edges; the visible count, which only      *)
(* separates contexts further, is left out, as are the counts and the      *)
(* signature of a node.  The scores of a surface are kept in tenths.       *)
(***************************************************************************)
EXTENDS Naturals, Sequences, FiniteSets, SequencesExt

CONSTANTS NoVar,        \* the target_var of a handle that has none
          NodesPerVar,  \* _MAX_NODES_PER_VAR
          MovesKept,    \* _MAX_TRANSITIONS
          ExportLimit   \* the limit the batch passes to the export

ASSUME ContextRolesAssumption ==
    NodesPerVar \in Nat /\ MovesKept \in Nat /\ ExportLimit \in Nat

EmptyIndex == [nodes |-> <<>>, roles |-> <<>>, surfaces |-> <<>>, moves |-> <<>>]

-----------------------------------------------------------------------------
(* Nodes                                                                   *)

\* A fit is [edges, func].
VarFit(v, fit) ==
    [id |-> <<"var_fit", v, fit>>, kind |-> "var_fit", target |-> v, edges |-> fit.edges]

CompositeNode(pair, j) ==
    [id |-> <<"composite", pair, j>>, kind |-> "composite", target |-> j, edges |-> pair]

RouteNode(p, v, fit) ==
    [id |-> <<"route", p, v, fit>>, kind |-> "route_handle", target |-> v, edges |-> fit.edges]

RegimeNode(r, members) ==
    [id |-> <<"regime", r, members>>, kind |-> "regime_handle", target |-> NoVar, edges |-> {}]

\* A known node keeps its place; a new one is dropped when its variable has
\* its full number.
AddNode(ix, node) ==
    LET ofVar == SelectSeq(ix.nodes, LAMBDA n : n.target = node.target)
        full  == node.target # NoVar /\ Len(ofVar) >= NodesPerVar
    IN  IF full \/ \E n \in ToSet(ix.nodes) : n.id = node.id THEN ix
        ELSE [ix EXCEPT !.nodes = Append(@, node)]

-----------------------------------------------------------------------------
(* Roles and surfaces                                                      *)

LeastOf(a, b) == IF a < b THEN a ELSE b

Standing == [tareth |-> 4, best_available |-> 3, unresolved |-> 2, trass |-> 1]

NoSurface == [role |-> "", load |-> 0, residual |-> 0, projects |-> FALSE]

\* A trass or unresolved surface collects residuals and may be composed.
Permissions(role, old) ==
    [role     |-> role,
     load     |-> CASE role = "tareth"         -> LeastOf(10, old.load + 2)
                    [] role = "best_available" -> LeastOf(5, IF old.load < 3 THEN 3 ELSE old.load)
                    [] OTHER                   -> 0,
     residual |-> IF role = "trass" THEN LeastOf(10, old.residual + 1) ELSE 0,
     projects |-> role \in {"tareth", "best_available"}]

SurfaceFor(ix, id, ctx) ==
    IF <<id, ctx>> \in DOMAIN ix.surfaces THEN ix.surfaces[<<id, ctx>>] ELSE NoSurface

AssignSurface(ix, id, ctx, role) ==
    LET old  == SurfaceFor(ix, id, ctx)
        new  == [key \in {<<id, ctx>>} |-> Permissions(role, old)]
        move == [id |-> id, ctx |-> ctx,
                 up |-> Standing[role] > (IF old.role = "" THEN 0 ELSE Standing[old.role])]
        moved == old.role \notin {"", role} /\ Len(ix.moves) < MovesKept
    IN  [ix EXCEPT !.surfaces = [k \in DOMAIN new \cup DOMAIN @ |->
                                    IF k \in DOMAIN new THEN new[k] ELSE @[k]],
                   !.moves = IF moved THEN Append(@, move) ELSE @]

\* The operation is part of the context, so one key finds the previous record.
AssignRole(ix, id, ctx, role, cycle) ==
    LET record == [id |-> id, ctx |-> ctx, role |-> role, cycle |-> cycle]
        last   == SelectLastInSeq(ix.roles, LAMBDA r : r.id = id /\ r.ctx = ctx)
    IN  IF last # 0 /\ ix.roles[last] = record THEN ix
        ELSE AssignSurface([ix EXCEPT !.roles = Append(@, record)], id, ctx, role)

-----------------------------------------------------------------------------
(* What the agent records.  allowed is the answer of the authority gate,   *)
(* asked for the other variables in the scope of a derived handle.         *)

RecordSkip(ix, v, fit, role, cycle) ==
    AssignRole(AddNode(ix, VarFit(v, fit)), VarFit(v, fit).id,
               <<"skip", v, fit.edges>>, role, cycle)

Derived(ix, node, ctx, role, cycle, allowed) ==
    IF allowed THEN AssignRole(AddNode(ix, node), node.id, ctx, role, cycle)
    ELSE AddNode(ix, node)

\* The role is filed under the witness and the edges it has now.
RecordComposite(ix, pair, j, edges, cycle, allowed) ==
    Derived(ix, CompositeNode(pair, j), <<"composite", j, edges>>, "tareth", cycle, allowed)

RecordRoute(ix, p, v, fit, role, cycle, allowed) ==
    Derived(ix, RouteNode(p, v, fit), <<"route", v, fit.edges>>, role, cycle, allowed)

RecordRegime(ix, r, members, cycle) ==
    Derived(ix, RegimeNode(r, members), <<"regime", NoVar, {}>>, "unresolved", cycle, TRUE)

Oldest(s) == SubSeq(s, 1, LeastOf(Len(s), ExportLimit))

\* The records of the export are its nodes once more.
ExportRecords(ix) ==
    [nodes |-> Oldest(ix.nodes), records |-> Oldest(ix.nodes), roles |-> Oldest(ix.roles)]

=============================================================================
