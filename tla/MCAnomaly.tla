----------------------------- MODULE MCAnomaly -----------------------------
(***************************************************************************)
(* An instance of Anomaly for TLC.                                         *)
(***************************************************************************)
EXTENDS Anomaly, Events

PendingPayment(id, pos) == PaymentEvent(id, pos, "o1", "pending", 1)

\* A pending payment of an earlier run, its deletion by the cleanup with the
\* tombstone that follows, and the anomalies of this run, of which the first is
\* above MAX_PAYMENT_AMOUNT_CENTS.
RerunLog ==
    [b |-> <<PendingPayment("old", 1),
             [PendingPayment("old", 2) EXCEPT !.op = "d", !.before = TRUE, !.after = FALSE],
             Tombstone("payments"),
             WithDamage(PaymentEvent("over", 3, "o1", "captured", 9), "amount_cents", "huge"),
             PendingPayment("pend", 4)>>]
OneBefore == [b |-> 1]

AnyFault ==
    {"crash", "rebalance", "write_applied", "write_lost", "commit", "dlq_lost", "dlq_raises"}
=============================================================================
