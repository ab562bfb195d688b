------------------------- MODULE MCSharedConnection -------------------------
(* Small instances of SharedConnection for TLC: each task runs the operation *)
(* that its name says.                                                       *)
EXTENDS SharedConnection

InboxCalls ==
    {"recover", "insert", "claim", "set_objective", "ack", "renew", "fail"}
MCOp == [t \in Tasks |-> t]
=============================================================================
