-------------------------- MODULE MCInventoryScan ---------------------------
(* A small instance of InventoryScan: a root of three files, which fill one  *)
(* batch and begin another, and a root of one, scanned at the same time.     *)
EXTENDS InventoryScan, TLC

CONSTANTS r1, r2, a, b, c, d

MCRoots  == {r1, r2}
MCFile   == {a, b, c, d}
MCUnder  == r1 :> {a, b, c} @@ r2 :> {d}
MCFaulty == {r1}
=============================================================================
