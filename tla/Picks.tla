------------------------------- MODULE Picks --------------------------------
(***************************************************************************)
(* The list comprehensions of learner/memory_sleep.py, scaffold_memory.py  *)
(* and nethra_expression.py: which places of a list are kept is a set.     *)
(***************************************************************************)
EXTENDS Naturals, Sequences

\* The elements of s at the places in P, in their order.
Picked(s, P) ==
    LET upTo[n \in 0 .. Len(s)] ==
            IF n = 0 THEN <<>>
            ELSE IF n \in P THEN Append(upTo[n - 1], s[n]) ELSE upTo[n - 1]
    IN  upTo[Len(s)]

\* s without the elements whose key was there before; keys[k] is that of s[k].
FirstOfEach(s, keys) ==
    Picked(s, {i \in 1 .. Len(s) : \A j \in 1 .. i - 1 : keys[j] # keys[i]})

Distinct(s) == FirstOfEach(s, s)

=============================================================================
