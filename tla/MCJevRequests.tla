--------------------------- MODULE MCJevRequests ---------------------------
(* A small instance of JevRequests for TLC: four questions about two         *)
(* candidates, one of them about both and one about none.                    *)
EXTENDS JevRequests
CONSTANTS c, d

MCAbout == <<{c}, {c, d}, {d}, {}>>
MCQuestionSize == <<1, 2, 1, 2>>
MCAges == [l \in Lists |-> CASE l = "evidence" -> {1, 2, 3} [] l = "execution" -> {1, 2}
                             [] l = "strategy" -> {1} [] OTHER -> {1}]
MCLimits == 1..33
=============================================================================
