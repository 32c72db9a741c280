------------------------------ MODULE MCReplay ------------------------------
(***************************************************************************)
(* An instance of Replay for TLC.                                          *)
(***************************************************************************)
EXTENDS Replay, Events

\* Two versions of a customer with a poison message in between, and a line.
ReplayLog ==
    [a |-> <<CustomerEvent("c", "c1", 1), Tombstone("customers"),
             CustomerEvent("u", "c1", 2)>>,
     b |-> <<LineEvent("c", "i1", 3, "o1", 2)>>]

AnyFault ==
    {"crash", "rebalance", "write_applied", "write_lost", "commit", "dlq_lost", "dlq_raises"}
=============================================================================
