---------------------------- MODULE SourceSchema ----------------------------
(***************************************************************************)
(* The constraints the source databases put on the columns the mappers     *)
(* read: NOT NULL, CHECK and types other than text in db/postgres/init.sql *)
(* and db/mysql/init.sql, and the validator of db/mongo/init.js.  A row is *)
(* a message of StarSchema.                                                *)
(***************************************************************************)
EXTENDS StarSchema

\* Primary keys are NOT NULL too.  typed: UUID, INT, BIGINT and TIMESTAMPTZ,
\* which no other text can be stored in.
PostgresConstraints ==
    [customers |->
        [notNull |-> {"customer_id", "hospital_name", "segment", "city", "country"},
         typed |-> {"customer_id"}, positive |-> {}, nonNegative |-> {}, enums |-> {}],
     order_items |->
        [notNull |-> {"order_item_id", "order_id", "customer_id", "product_id", "channel",
                      "order_status", "ordered_at", "quantity", "unit_price_cents"},
         typed |-> {"order_item_id", "order_id", "customer_id", "ordered_at", "quantity",
                    "unit_price_cents"},
         positive |-> {"quantity"}, nonNegative |-> {"unit_price_cents"}, enums |-> {}],
     products |->
        [notNull |-> {"product_id", "sku", "product_name", "product_category",
                      "supplier_id"},
         typed |-> {}, positive |-> {}, nonNegative |-> {}, enums |-> {}],
     stock_movements |->
        [notNull |-> {"movement_id", "product_id", "warehouse_id", "movement_type",
                      "quantity", "movement_ts"},
         typed |-> {"quantity", "movement_ts"},
         positive |-> {"quantity"}, nonNegative |-> {}, enums |-> {}]]

\* paid_at is the one time stamp that may be NULL.
MySqlConstraints ==
    [payments |->
        [notNull |-> {"payment_id", "invoice_id", "order_id", "customer_id",
                      "payment_status", "payment_method", "amount_cents"},
         typed |-> {"amount_cents", "paid_at"},
         positive |-> {}, nonNegative |-> {"amount_cents"},
         enums |-> {"payment_status", "payment_method"}],
     refunds |->
        [notNull |-> {"refund_id", "payment_id", "refund_reason", "amount_cents",
                      "refunded_at"},
         typed |-> {"amount_cents", "refunded_at"},
         positive |-> {}, nonNegative |-> {"amount_cents"}, enums |-> {"refund_reason"}]]

\* typed: bsonType.  Of the blank ids minLength refuses the empty one only.
MongoConstraints ==
    [support_tickets |->
        [notNull |-> {"ticket_id", "customer_id", "priority", "status", "opened_at"},
         typed |-> {"ticket_id", "customer_id", "opened_at", "sla_due_at", "closed_at"},
         positive |-> {}, nonNegative |-> {}, enums |-> {"priority", "status"}]]

Constraints ==
    [t \in DOMAIN Mapping |->
        IF t \in DOMAIN PostgresConstraints THEN PostgresConstraints[t]
        ELSE IF t \in DOMAIN MySqlConstraints THEN MySqlConstraints[t]
        ELSE MongoConstraints[t]]

\* The values of the CHECKs of MySQL and of the enums of MongoDB.
CheckedValues ==
    [payment_status |-> {"captured", "failed", "pending"},
     payment_method |-> {"card", "wire", "insurance"},
     refund_reason |-> {"duplicate_charge", "returned_goods", "contract_adjustment"},
     priority |-> {"low", "medium", "high", "critical"},
     status |-> {"open", "waiting_customer", "resolved"}]

\* The columns for which its source database would have refused the row.
RefusedColumns(m) ==
    LET rule == Constraints[m.table]
    IN  {c \in rule.notNull : ColumnClass(m, c) \in {"absent", "null"}}
        \cup {c \in rule.typed : ColumnClass(m, c) \in {"blank", "garbage"}}
        \cup {c \in rule.positive : ColumnClass(m, c) \in {"zero", "negative"}}
        \cup {c \in rule.nonNegative : ColumnClass(m, c) = "negative"}
        \cup {c \in rule.enums : \/ ColumnClass(m, c) = "blank"
                                 \/ Unlisted(ColumnClass(m, c), CheckedValues[c])}
=============================================================================
