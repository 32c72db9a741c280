----------------------------- MODULE StarSchema -----------------------------
(***************************************************************************)
(* What the transformer makes of one CDC message, before it touches        *)
(* anything outside the process: Debezium parsing (debezium.py), the       *)
(* mapping to a star row (star_schema.py) and row validation               *)
(* (validation.py).  Pure operators, no state.                             *)
(*                                                                         *)
(* A message is a record                                                   *)
(*   shape   "event", or one of the malformed shapes below                 *)
(*   table   source table or collection, lower-cased                       *)
(*   op      "c", "u", "d" or "r" (snapshot read)                          *)
(*   before, after   whether the event carries that row image              *)
(*   id      the natural id in the row, pos the source log position        *)
(*   damage  columns of the row whose value is not a good one, each with   *)
(*           the class of its value                                        *)
(*   order, customer, status, amount   business values the guardrails use  *)
(* A column value is reduced to a class: "ok"; "absent" from the document; *)
(* "null"; "blank" (white space, or the words none/null); "garbage" (not   *)
(* of the expected form or enumeration); "zero"; "negative"; "huge" (over  *)
(* MAX_PAYMENT_AMOUNT_CENTS).  In a column with a list of values it can    *)
(* also be the value itself; "ok" then is a value of every list.           *)
(***************************************************************************)
EXTENDS Naturals, FiniteSets

\* Values that parse_debezium_event raises on: Kafka's null tombstone after a
\* delete, a value that is not JSON, an event without source table.
Unparsable == {"tombstone", "undecodable", "no_source"}

\* _source_position: what the position keeps of the source block of an event.
\* A time stamp is not part of it.
SourcePosition(source) ==
    [f \in {"lsn", "scn", "file", "pos", "rs", "ord", "tx"} \cap DOMAIN source |-> source[f]]

\* _MAPPERS: per source table its target, natural id, and how the mapper reads
\* the columns: row["c"] (subscripted), int(row["c"]), or as a date/time.
\* Every other column is read with row.get and never raises.
Mapping ==
    [customers |->
        [target |-> "dim_customer_by_id", id |-> "customer_id", dimension |-> TRUE,
         subscripted |-> {"customer_id"}, integers |-> {}, instants |-> {}],
     products |->
        [target |-> "dim_product_by_id", id |-> "product_id", dimension |-> TRUE,
         subscripted |-> {"product_id"}, integers |-> {}, instants |-> {}],
     order_items |->
        [target |-> "fact_order_line_by_day", id |-> "order_item_id", dimension |-> FALSE,
         subscripted |-> {"order_item_id", "order_id", "product_id"},
         integers |-> {"quantity", "unit_price_cents"}, instants |-> {"ordered_at"}],
     payments |->
        [target |-> "fact_payment_by_day", id |-> "payment_id", dimension |-> FALSE,
         subscripted |-> {"payment_id", "invoice_id"},
         integers |-> {"amount_cents"}, instants |-> {"paid_at"}],
     refunds |->
        [target |-> "fact_refund_by_day", id |-> "refund_id", dimension |-> FALSE,
         subscripted |-> {"refund_id", "payment_id"},
         integers |-> {"amount_cents"}, instants |-> {"refunded_at"}],
     stock_movements |->
        [target |-> "fact_inventory_movement_by_product", id |-> "movement_id",
         dimension |-> FALSE,
         subscripted |-> {"movement_id", "product_id", "warehouse_id"},
         integers |-> {"quantity"}, instants |-> {"movement_ts"}],
     support_tickets |->
        [target |-> "fact_support_case_by_customer", id |-> "ticket_id",
         dimension |-> FALSE, subscripted |-> {"ticket_id", "customer_id"},
         integers |-> {}, instants |-> {"opened_at", "sla_due_at", "closed_at"}]]

\* RULES: what validation asks of a row of each target table.  The columns
\* every row carries by construction (day, fact_id, source_topic,
\* source_position, event_ts) are never blank and are left out.
Rules ==
    [dim_customer_by_id |->
        [required |-> {"customer_id"},
         active |-> {"hospital_name", "segment", "city", "country"},
         positive |-> {}, nonNegative |-> {}, enums |-> {}],
     dim_product_by_id |->
        [required |-> {"product_id"},
         active |-> {"sku", "product_name", "product_category", "supplier_id"},
         positive |-> {}, nonNegative |-> {}, enums |-> {}],
     fact_order_line_by_day |->
        [required |-> {"order_id", "order_item_id", "customer_id", "product_id",
                       "channel", "quantity", "unit_price_cents", "order_status"},
         active |-> {}, positive |-> {"quantity"},
         nonNegative |-> {"unit_price_cents", "gross_amount_cents"},
         enums |-> {"order_status", "channel"}],
     fact_payment_by_day |->
        [required |-> {"payment_id", "invoice_id", "order_id", "customer_id",
                       "payment_status", "payment_method", "amount_cents"},
         active |-> {}, positive |-> {}, nonNegative |-> {"amount_cents"},
         enums |-> {"payment_status", "payment_method"}],
     fact_refund_by_day |->
        [required |-> {"refund_id", "payment_id", "refund_reason", "amount_cents"},
         active |-> {}, positive |-> {}, nonNegative |-> {"amount_cents"},
         enums |-> {"refund_reason"}],
     fact_inventory_movement_by_product |->
        [required |-> {"product_id", "movement_id", "warehouse_id",
                       "movement_type", "quantity"},
         active |-> {}, positive |-> {"quantity"}, nonNegative |-> {},
         enums |-> {"movement_type"}],
     fact_support_case_by_customer |->
        [required |-> {"customer_id", "ticket_id", "priority", "status"},
         active |-> {}, positive |-> {}, nonNegative |-> {},
         enums |-> {"priority", "status"}]]

\* Mutant: a channel is added here and not in the SQL of the dashboard.
KnownValues_NewChannel ==
    [payment_status |-> {"captured", "failed", "pending"},
     payment_method |-> {"card", "wire", "insurance"},
     order_status |-> {"confirmed", "allocated", "shipped", "backordered"},
     channel |-> {"portal", "edi", "sales_rep", "web"},
     refund_reason |-> {"duplicate_charge", "returned_goods", "contract_adjustment"},
     movement_type |-> {"receipt", "shipment", "adjustment_in", "adjustment_out"},
     priority |-> {"low", "medium", "high", "critical"},
     status |-> {"open", "waiting_customer", "resolved"}]

\* PAYMENT_STATUSES and its like, by the column they are the values of.
KnownValues ==
    [payment_status |-> {"captured", "failed", "pending"},
     payment_method |-> {"card", "wire", "insurance"},
     order_status |-> {"confirmed", "allocated", "shipped", "backordered"},
     channel |-> {"portal", "edi", "sales_rep"},
     refund_reason |-> {"duplicate_charge", "returned_goods", "contract_adjustment"},
     movement_type |-> {"receipt", "shipment", "adjustment_in", "adjustment_out"},
     priority |-> {"low", "medium", "high", "critical"},
     status |-> {"open", "waiting_customer", "resolved"}]

-----------------------------------------------------------------------------

\* SourceEvent.row: a delete is mapped from the row image before it.
HasImage(m) == IF m.op = "d" THEN m.before ELSE m.after

Target(m) == Mapping[m.table].target
IsDimension(m) == Mapping[m.table].dimension

ColumnClass(m, c) == IF c \in DOMAIN m.damage THEN m.damage[c] ELSE "ok"

IsBlank(class) == class \in {"absent", "null", "blank"}

\* A value that is there, but not in the list.
Unlisted(class, values) == ~IsBlank(class) /\ class \notin values \cup {"ok"}

\* gross_amount_cents is computed by the mapper as quantity * unit_price_cents.
GrossClass(m) ==
    LET factors == {ColumnClass(m, "quantity"), ColumnClass(m, "unit_price_cents")}
    IN  IF "zero" \in factors THEN "zero"
        ELSE IF "negative" \in factors /\ factors # {"negative"} THEN "negative"
        ELSE "ok"

\* The class a column has in the star row the mapper built.
RowClass(m, c) == IF c = "gross_amount_cents" THEN GrossClass(m) ELSE ColumnClass(m, c)

\* KeyError, TypeError or ValueError out of the mapper.
MapperRaises(m) ==
    LET how == Mapping[m.table]
    IN  \/ \E c \in how.subscripted \cup how.integers : ColumnClass(m, c) = "absent"
        \/ \E c \in how.integers : ColumnClass(m, c) \in {"null", "blank", "garbage"}
        \/ \E c \in how.instants : ColumnClass(m, c) \in {"blank", "garbage"}

\* value_required_when_active is waived on a soft-deleted dimension row only.
RequiredColumns(m) ==
    LET rule == Rules[Target(m)]
    IN  rule.required \cup (IF IsDimension(m) /\ m.op = "d" THEN {} ELSE rule.active)

\* The ValidationIssues of the row, as pairs of code and column.  int() has
\* already passed in the mapper, so "invalid_integer" cannot arise.
Issues(m) ==
    LET rule == Rules[Target(m)]
    IN  {<<"required_field_missing", c>> :
            c \in {r \in RequiredColumns(m) : IsBlank(RowClass(m, r))}}
        \cup {<<"non_positive_number", c>> :
            c \in {r \in rule.positive : RowClass(m, r) \in {"zero", "negative"}}}
        \cup {<<"negative_number", c>> :
            c \in {r \in rule.nonNegative : RowClass(m, r) = "negative"}}
        \cup {<<"unknown_enum_value", c>> :
            c \in {r \in rule.enums : Unlisted(RowClass(m, r), KnownValues[r])}}
        \cup {<<"payment_amount_exceeds_configured_max", c>> :
            c \in {r \in {"amount_cents"} : /\ Target(m) = "fact_payment_by_day"
                                            /\ RowClass(m, r) = "huge"}}

\* Mutant: validation drops the columns RULES asks of a row.
Verdict_NoValidation(m) ==
    IF m.shape \in Unparsable THEN "mapping"
    ELSE IF m.shape = "empty" \/ m.table \notin DOMAIN Mapping \/ ~HasImage(m)
         THEN "ignored"
    ELSE IF MapperRaises(m) THEN "mapping"
    ELSE "row"

\* Mutant: the mapper reads the after image of a delete too.
Verdict_DeleteFromAfter(m) ==
    IF m.shape \in Unparsable THEN "mapping"
    ELSE IF m.shape = "empty" \/ m.table \notin DOMAIN Mapping \/ ~m.after
         THEN "ignored"
    ELSE IF MapperRaises(m) THEN "mapping"
    ELSE IF Issues(m) # {} THEN "validation"
    ELSE "row"

\* validate_star_rows(to_star_rows(topic, value)): an exception while parsing
\* or mapping, no row at all, a RowValidationError, or exactly one valid row.
Verdict(m) ==
    IF m.shape \in Unparsable THEN "mapping"
    ELSE IF m.shape = "empty" \/ m.table \notin DOMAIN Mapping \/ ~HasImage(m)
         THEN "ignored"
    ELSE IF MapperRaises(m) THEN "mapping"
    ELSE IF Issues(m) # {} THEN "validation"
    ELSE "row"

HasRow(m) == Verdict(m) = "row"

\* Mutant: the fact id forgets the source position.
RowKey_NoPosition(m) == <<Target(m), m.id>>

\* The primary key the row is upserted under: the natural id of a dimension;
\* for a fact _fact_id, a hash of natural id and source position.
RowKey(m) ==
    IF IsDimension(m) THEN <<Target(m), m.id>> ELSE <<Target(m), m.id, m.pos>>
=============================================================================
