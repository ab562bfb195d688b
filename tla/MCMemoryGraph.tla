--------------------------- MODULE MCMemoryGraph ---------------------------
(* A small instance of MemoryGraph for TLC: a line of two relations that point *)
(* in different directions, and a relation of another kind between its ends.   *)
EXTENDS MemoryGraph, TLC
CONSTANTS ma, mb, mc, x, y, v, w

MCEnds == <<<<ma, mb>>, <<mc, mb>>, <<mc, ma>>>>
MCSource == [e \in Edges |-> MCEnds[e][1]]
MCTarget == [e \in Edges |-> MCEnds[e][2]]
MCRelation == [e \in Edges |-> IF e = 3 THEN "TESTED_BY" ELSE "SUPPORTS"]
MCUpdates == {<<x, Blank>>, <<y, "ACTIVE">>, <<Blank, "COLD">>}
Symmetry == Permutations({v, w})
=============================================================================
