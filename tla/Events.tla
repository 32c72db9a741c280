------------------------------- MODULE Events -------------------------------
(***************************************************************************)
(* Messages for the topics of TLC's instances, as StarSchema describes     *)
(* them.                                                                   *)
(***************************************************************************)

Undamaged == [c \in {} |-> "ok"]

\* A row event with both images where the source logs them (Postgres with
\* REPLICA IDENTITY FULL, MySQL with full row images).
RowEvent(source, op, id, pos) ==
    [shape |-> "event", table |-> source, op |-> op, id |-> id, pos |-> pos,
     before |-> op \in {"u", "d"}, after |-> op # "d", damage |-> Undamaged,
     order |-> "o1", customer |-> "c1", status |-> "none", amount |-> 0]

CustomerEvent(op, id, pos) == [RowEvent("customers", op, id, pos) EXCEPT !.customer = id]

LineEvent(op, id, pos, order, amount) ==
    [RowEvent("order_items", op, id, pos) EXCEPT !.order = order, !.amount = amount]

PaymentEvent(id, pos, order, status, amount) ==
    [RowEvent("payments", "c", id, pos) EXCEPT
        !.order = order, !.status = status, !.amount = amount]

WithDamage(event, c, class) == [event EXCEPT !.damage = [x \in {c} |-> class]]

Tombstone(source) == [RowEvent(source, "d", "none", 0) EXCEPT !.shape = "tombstone"]
=============================================================================
