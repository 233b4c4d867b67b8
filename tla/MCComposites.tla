---------------------------- MODULE MCComposites ----------------------------
(* Small instances of Composites.                                          *)
EXTENDS Composites, TLC

\* Variables and component_ids are interchangeable: no definition names or
\* orders them.
Symmetry == Permutations(Vars) \cup Permutations(Ids)
=============================================================================
