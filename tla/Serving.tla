------------------------------- MODULE Serving -------------------------------
(***************************************************************************)
(* What the dashboard server asks Trino (the SQL of server.py) and the     *)
(* summary it computes, as operators over the rows of the star tables.     *)
(*                                                                         *)
(* A row is the message of StarSchema it was mapped from, with its day     *)
(* (the date column of the table), ts (event_ts) and, in an order line,    *)
(* the quantity.  "amount" is gross_amount_cents of an order line,         *)
(* amount_cents of a payment or refund.  The result of a query is a set    *)
(* of records, one per group.                                              *)
(***************************************************************************)
EXTENDS Integers, StarSchema, FiniteSetsExt

CONSTANT Failed     \* a result that is an {"error": ...} row

RowsOf(rows, source) == {r \in rows : r.table = source}

Cents(rows) == SumFunction([r \in rows |-> r.amount])

Units(rows) == SumFunction([r \in rows |-> r.quantity])

LastTs(rows) == Max({r.ts : r \in rows})

\* sum(...) / 100.0 is a decimal of one digit after the point, rounded half
\* away from zero: money leaves the queries in tenths, not in cents.
InTenths(cents) == IF cents >= 0 THEN (cents + 5) \div 10 ELSE -((5 - cents) \div 10)

OfDay(rows, d) == {r \in rows : r.day = d}

\* Order lines per day.
RevenueByDay(rows) ==
    LET lines == RowsOf(rows, "order_items")
        Row(d, own) == [day |-> d, lines |-> Cardinality(own), units |-> Units(own),
                        gross |-> InTenths(Cents(own)), last |-> LastTs(own)]
    IN  {Row(d, OfDay(lines, d)) : d \in {r.day : r \in lines}}

OfDayAndStatus(rows, k) == {r \in rows : <<r.day, r.status>> = k}

DaysAndStatuses(rows) == {<<r.day, r.status>> : r \in rows}

\* UNION ALL of payments and, as negative amounts, refunds.
PaymentActivity(rows) ==
    RowsOf(rows, "payments")
        \cup {[r EXCEPT !.status = "refunded", !.amount = -r.amount] :
                  r \in RowsOf(rows, "refunds")}

\* It is grouped by day and status.
PaymentHealth(rows) ==
    LET activity == PaymentActivity(rows)
        Row(k, own) == [day |-> k[1], status |-> k[2], count |-> Cardinality(own),
                        amount |-> InTenths(Cents(own)), last |-> LastTs(own)]
    IN  {Row(k, OfDayAndStatus(activity, k)) : k \in DaysAndStatuses(activity)}

\* Tickets per day, priority and status; status stands for both columns.
SupportRisk(rows) ==
    LET tickets == RowsOf(rows, "support_tickets")
        Row(k, own) == [day |-> k[1], status |-> k[2], tickets |-> Cardinality(own),
                        last |-> LastTs(own)]
    IN  {Row(k, OfDayAndStatus(tickets, k)) : k \in DaysAndStatuses(tickets)}

WithStatus(rows, s) == {r \in rows : r.status = s}

Captured(payments) == Cents(WithStatus(payments, "captured"))

\* The LEFT JOIN: the customers who paid for order o, "none" without a payment.
Payers(payments, o) ==
    LET found == {r.customer : r \in {q \in payments : q.order = o}}
    IN  IF found = {} THEN {"none"} ELSE found

OfOrder(rows, o, c) == {r \in rows : r.order = o /\ r.customer = c}

CashRow(k, payer, ordered, paid) ==
    [order |-> k[1], customer |-> k[2], payer |-> payer,
     open |-> InTenths(Cents(ordered) - Captured(paid)), last |-> LastTs(ordered \cup paid)]

\* Orders and payments are grouped by order and customer, but joined on the
\* order alone.
OrderToCash(lines, payments) ==
    LET Joined(k) == {CashRow(k, p, OfOrder(lines, k[1], k[2]), OfOrder(payments, k[1], p)) :
                         p \in Payers(payments, k[1])}
    IN  UNION {Joined(k) : k \in {<<r.order, r.customer>> : r \in lines}}

-----------------------------------------------------------------------------

IsNull(class) == class \in {"absent", "null"}

CountNull(rows, columns) ==
    Cardinality({r \in rows : \E c \in columns : IsNull(RowClass(r, c))})

\* The NOT IN lists of QUALITY_FINDINGS.
AuditedValues ==
    [payment_status |-> {"captured", "failed", "pending"},
     payment_method |-> {"card", "wire", "insurance"},
     refund_reason |-> {"duplicate_charge", "returned_goods", "contract_adjustment"},
     order_status |-> {"confirmed", "allocated", "shipped", "backordered"},
     channel |-> {"portal", "edi", "sales_rep"},
     priority |-> {"low", "medium", "high", "critical"},
     status |-> {"open", "waiting_customer", "resolved"},
     movement_type |-> {"receipt", "shipment", "adjustment_in", "adjustment_out"}]

\* IS NULL OR NOT IN (...): blank text is not in the list either.
CountUnknown(rows, columns) ==
    Cardinality({r \in rows : \E c \in columns :
                    \/ IsBlank(RowClass(r, c))
                    \/ Unlisted(RowClass(r, c), AuditedValues[c])})

CountNegative(rows) ==
    Cardinality({r \in rows : RowClass(r, "amount_cents") = "negative"})

\* The one row of QUALITY_FINDINGS.  Soft-deleted dimensions are counted too.
QualityFindings(rows) ==
    LET Of(source) == RowsOf(rows, source)
    IN  [negative_payment_facts |-> CountNegative(Of("payments")),
         negative_refund_facts |-> CountNegative(Of("refunds")),
         null_customer_dimensions |-> CountNull(Of("customers"),
            {"customer_id", "hospital_name", "segment", "city", "country"}),
         null_product_dimensions |-> CountNull(Of("products"),
            {"product_id", "sku", "product_name", "product_category", "supplier_id"}),
         null_order_dimensions |-> CountNull(Of("order_items"),
            {"order_id", "order_item_id", "customer_id", "product_id"}),
         null_payment_dimensions |-> CountNull(Of("payments"),
            {"payment_id", "invoice_id", "order_id", "customer_id"}),
         null_support_dimensions |-> CountNull(Of("support_tickets"),
            {"customer_id", "ticket_id", "priority", "status"}),
         null_inventory_dimensions |-> CountNull(Of("stock_movements"),
            {"product_id", "movement_id", "warehouse_id"}),
         unknown_order_enums |-> CountUnknown(Of("order_items"), {"order_status", "channel"}),
         unknown_payment_enums |->
            CountUnknown(Of("payments"), {"payment_status", "payment_method"}),
         unknown_refund_enums |-> CountUnknown(Of("refunds"), {"refund_reason"}),
         unknown_support_enums |-> CountUnknown(Of("support_tickets"), {"priority", "status"}),
         unknown_inventory_enums |-> CountUnknown(Of("stock_movements"), {"movement_type"})]

-----------------------------------------------------------------------------

\* The rows of a result that are not error rows.
ValidRows(result) == IF result = Failed THEN {} ELSE result

SumOf(result, column) == SumFunction([r \in ValidRows(result) |-> r[column]])

\* _summary.  Open amounts are read from all of order_cash; the snapshot then
\* carries the first 20 orders only.
Summary(revenue, payments, support, orderCash) ==
    [grossRevenue |-> SumOf(revenue, "gross"),
     orderLines |-> SumOf(revenue, "lines"),
     paymentAmount |-> SumOf(payments, "amount"),
     paymentCount |-> SumOf(payments, "count"),
     supportCases |-> SumOf(support, "tickets"),
     openAmount |-> SumOf(orderCash, "open")]
=============================================================================
