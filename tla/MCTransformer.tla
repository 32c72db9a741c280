--------------------------- MODULE MCTransformer ---------------------------
(***************************************************************************)
(* Instances of Transformer for TLC: the messages of small topics.         *)
(***************************************************************************)
EXTENDS Transformer, Events, TLC

SymmetricWorkers == Permutations(Workers)

\* The deletion of a customer, the tombstone after it, and a table nobody
\* maps; an order line, its next version, and a version that is not valid.
DeliveryLog ==
    [a |-> <<CustomerEvent("d", "c1", 1), Tombstone("customers"),
             RowEvent("invoices", "c", "v1", 6)>>,
     b |-> <<LineEvent("c", "i1", 2, "o1", 2), LineEvent("u", "i1", 4, "o1", 3),
             WithDamage(LineEvent("u", "i1", 5, "o1", 3), "quantity", "zero")>>]

\* An order line, its next version and one that is not valid; the deletion of
\* the customer, and a payment of the order.
OrderLog ==
    [a |-> <<LineEvent("c", "i1", 2, "o1", 2), LineEvent("u", "i1", 4, "o1", 3),
             WithDamage(LineEvent("u", "i1", 5, "o1", 3), "quantity", "zero")>>,
     b |-> <<CustomerEvent("d", "c1", 1), PaymentEvent("p1", 6, "o1", "captured", 2)>>]

\* Versions of a customer around the payments of an order, whose second line
\* makes room for a payment its first, repriced, no longer does.
VersionLog ==
    [a |-> <<LineEvent("c", "i1", 1, "o1", 3), LineEvent("u", "i1", 3, "o1", 1),
             LineEvent("c", "i2", 2, "o1", 2)>>,
     b |-> <<CustomerEvent("c", "c1", 1), PaymentEvent("p1", 1, "o1", "captured", 3),
             CustomerEvent("u", "c1", 2), RowEvent("invoices", "c", "v1", 6)>>]

\* MongoDB dates an event with a second and a counter that starts again in each
\* second (the collection's change stream).  A ticket opened in one second and
\* updated in the next.
TicketEvent(op, id, second, counter) ==
    RowEvent("support_tickets", op, id,
             SourcePosition([ts_ms |-> second, ord |-> counter]))

TicketLog == [a |-> <<TicketEvent("c", "t1", 1, 1), TicketEvent("u", "t1", 2, 1)>>]

-----------------------------------------------------------------------------
(* A statement of the documentation that the code does not keep. *)

\* RUNBOOKS: fact rows include the source position, so that another event is
\* another version.  Every version of a fact that was written is in some row.
FactVersionsKept ==
    \A m \in written \cap RowMessages :
        ~IsDimension(At(m)) => \E k \in RowKeys : table[k] = m
=============================================================================
