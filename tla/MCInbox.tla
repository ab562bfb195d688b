------------------------------ MODULE MCInbox ------------------------------
(* Small instances of Inbox for TLC. *)
EXTENDS InboxQueue, TLC
CONSTANTS ra, rb, w1, w2

\* Two events for ra, then one for each root: a cohort of two fills up while
\* another event of the same root waits behind it.
MCRoot == [e \in 1..NumEvents |-> IF e = 4 THEN rb ELSE ra]
Symmetry == Permutations(Workers)
=============================================================================
