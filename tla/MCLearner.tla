----------------------------- MODULE MCLearner ------------------------------
(* The small instances of MindStore and of ScaffoldLoop in one.  The two   *)
(* share no variable, and a behaviour belongs to one of them.              *)
EXTENDS MCMindStore, MCScaffoldLoop

EitherInit == MindInit /\ Init
MindStep == Init /\ MindNext /\ UNCHANGED vars
LoopStep == MindInit /\ Next /\ UNCHANGED mindVars

EitherSpec == EitherInit /\ [][MindStep \/ LoopStep]_<<mindVars, vars>>
=============================================================================
