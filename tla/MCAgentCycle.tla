---------------------------- MODULE MCAgentCycle ----------------------------
(* Small instances of AgentCycle: which fits an audit may return.          *)
EXTENDS AgentCycle, TLC

NoFit(f) == [src |-> {}, func |-> f]
Fit(S, f) == [src |-> S, func |-> f]

\* x0 changes its function, x1 comes to depend on x0 or ceases to.
MCChain ==
    (0 :> {NoFit("LOW"), NoFit("HIGH")}) @@ (1 :> {NoFit("LOW"), Fit({0}, "LOW")})

\* x0 changes its function, x1 always depends on x0.
MCPair ==
    (0 :> {NoFit("LOW"), NoFit("HIGH")}) @@ (1 :> {Fit({0}, "LOW")})

\* x0 changes its function, x1 depends on x0 and x2 on x1.
MCLine ==
    (0 :> {NoFit("LOW"), NoFit("HIGH")}) @@ (1 :> {Fit({0}, "LOW")}) @@ (2 :> {Fit({1}, "LOW")})
=============================================================================
