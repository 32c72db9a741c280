------------------------------ MODULE Delivery ------------------------------
(***************************************************************************)
(* What the transformer promises of the CDC topics: at-least-once delivery *)
(* with a committed offset that never runs ahead of the work.  A message   *)
(* is settled once, by whatever path, and stays settled; the offset        *)
(* committed for a partition may move back (a stale owner may still        *)
(* commit), but never past a message that is not settled.                  *)
(***************************************************************************)
EXTENDS Naturals

CONSTANTS Partitions,
          Length          \* per partition, the number of messages in its log

VARIABLES settled,        \* the messages dealt with, as <<partition, offset>>
          committed       \* per partition, the next offset to read after a restart

deliveryVars == <<settled, committed>>

Messages == UNION {{p} \X (0 .. Length[p] - 1) : p \in Partitions}

\* Every message of p below offset n is settled.
SettledBelow(p, n) == \A o \in 0 .. n - 1 : <<p, o>> \in settled

Init ==
    /\ settled = {}
    /\ committed = [p \in Partitions |-> 0]

Settle ==
    /\ UNCHANGED committed
    /\ \E m \in Messages : settled' = settled \cup {m}

Commit ==
    \E p \in Partitions : \E n \in 1 .. Length[p] :
        /\ committed' = [committed EXCEPT ![p] = n]
        /\ UNCHANGED settled
        /\ SettledBelow(p, n)

Next == Settle \/ Commit

Spec == Init /\ [][Next]_deliveryVars
=============================================================================
