--------------------------- MODULE MCPluginEvents ---------------------------
(* A small instance of PluginEvents for TLC. *)
EXTENDS PluginEvents
CONSTANTS m1, n1, m2, m3, p1, q1, p2, p3, ca, da, cb, sa, sb

\* Turn 1 has an answer and a question, the later turns an answer each.
MCMessage == [p \in Parts |-> CASE p = p1 -> m1 [] p = q1 -> n1 [] p = p2 -> m2 [] OTHER -> m3]
MCTurn == [m \in Messages |-> CASE m \in {m1, n1} -> 1 [] m = m2 -> 2 [] OTHER -> 3]
MCSessionOf == [c \in Calls |-> IF c = cb THEN sb ELSE sa]
=============================================================================
