---------------------------- MODULE EvidenceOnce ----------------------------
(***************************************************************************)
(* What the generations of memory promise about evidence: a row that a run *)
(* gathered counts at most once in the mind the next run loads.  Counting  *)
(* is one step; a new start forgets the mind and may find rows again that  *)
(* only the forgotten mind had counted.                                    *)
(***************************************************************************)
EXTENDS Integers

VARIABLES gathered, \* rows ever written by a run or by sleep
          fresh,    \* those waiting to be counted
          tally     \* those the mind counts

vars == <<gathered, fresh, tally>>

Init == gathered = 0 /\ fresh = 0 /\ tally = 0

\* Of the rows written some may be cut short and never be readable.
Written == gathered' - gathered

Gather ==
    /\ gathered' \in Nat /\ gathered' >= gathered
    /\ fresh' \in fresh..(fresh + Written)
    /\ UNCHANGED tally

Count == tally' = tally + fresh /\ fresh' = 0 /\ UNCHANGED gathered

Forget ==
    /\ gathered' \in Nat /\ gathered' >= gathered
    /\ tally' = 0
    /\ fresh' \in 0..(fresh + tally + Written)

Next == Gather \/ Count \/ Forget

Spec == Init /\ [][Next]_vars

AtMostOnce == fresh + tally <= gathered
=============================================================================
