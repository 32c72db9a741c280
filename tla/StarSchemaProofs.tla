-------------------------- MODULE StarSchemaProofs --------------------------
(***************************************************************************)
(* Mapping and validation against the constraints of the sources, for      *)
(* messages with any number of damaged columns.                            *)
(***************************************************************************)
EXTENDS MCStarSchema, FiniteSetTheorems, TLAPS

Ids == {"customer_id", "order_id", "order_item_id", "ticket_id"}

\* What the mapper does not read as an integer or as an id comes as it is: what
\* its type or a list of values refuses there, mapping or validation refuses too.
TypesCovered(t) ==
    LET source == Constraints[t]
        how == Mapping[t]
        rule == Rules[how.target]
    IN  /\ source.typed \subseteq how.integers \cup how.instants \cup Ids
        /\ source.typed \cap Ids \subseteq rule.required
        /\ source.enums \subseteq rule.enums \cap rule.required
        /\ \A c \in source.enums : /\ c \in DOMAIN CheckedValues
                                  /\ KnownValues[c] = CheckedValues[c]

\* The lists of validation.py for the rows of table t cover what its source
\* database asks of them, time stamps apart, and only name columns of the source.
Covered(t) ==
    LET source == Constraints[t]
        rule == Rules[Mapping[t].target]
    IN  /\ source.notNull \subseteq rule.required \cup rule.active \cup Mapping[t].instants
        /\ source.positive \subseteq rule.positive
        /\ source.nonNegative \subseteq rule.nonNegative
        /\ "gross_amount_cents" \notin
              source.notNull \cup source.positive \cup source.nonNegative
                  \cup source.typed \cup source.enums
        /\ TypesCovered(t)

\* The values a source lists are those of validation.py.
LEMMA SourceValuesKnown ==
    \A c \in {"payment_status", "payment_method", "refund_reason", "priority", "status"} :
        c \in DOMAIN CheckedValues /\ KnownValues[c] = CheckedValues[c]
<1>1. KnownValues["payment_status"] = CheckedValues["payment_status"]
  BY DEF KnownValues, CheckedValues
<1>2. KnownValues["payment_method"] = CheckedValues["payment_method"]
  BY DEF KnownValues, CheckedValues
<1>3. KnownValues["refund_reason"] = CheckedValues["refund_reason"]
  BY DEF KnownValues, CheckedValues
<1>4. KnownValues["priority"] = CheckedValues["priority"]
  BY DEF KnownValues, CheckedValues
<1>5. KnownValues["status"] = CheckedValues["status"]
  BY DEF KnownValues, CheckedValues
<1>6. DOMAIN CheckedValues =
        {"payment_status", "payment_method", "refund_reason", "priority", "status"}
  BY DEF CheckedValues
<1>. QED  BY <1>1, <1>2, <1>3, <1>4, <1>5, <1>6

LEMMA TablesCovered == \A t \in DOMAIN Mapping : Covered(t)
<1>1. DOMAIN Mapping = {"customers", "products", "order_items", "payments", "refunds",
                        "stock_movements", "support_tickets"}
  BY DEF Mapping
<1>2. /\ "customers" \in DOMAIN PostgresConstraints
      /\ "products" \in DOMAIN PostgresConstraints
      /\ "order_items" \in DOMAIN PostgresConstraints
      /\ "stock_movements" \in DOMAIN PostgresConstraints
      /\ "payments" \notin DOMAIN PostgresConstraints /\ "payments" \in DOMAIN MySqlConstraints
      /\ "refunds" \notin DOMAIN PostgresConstraints /\ "refunds" \in DOMAIN MySqlConstraints
      /\ "support_tickets" \notin DOMAIN PostgresConstraints \cup DOMAIN MySqlConstraints
  BY DEF PostgresConstraints, MySqlConstraints
<1>3. Covered("customers")
  <2>1. Constraints["customers"] = PostgresConstraints["customers"]
    BY <1>1, <1>2 DEF Constraints
  <2>2. /\ Mapping["customers"].target = "dim_customer_by_id"
        /\ Mapping["customers"].integers = {}
        /\ Mapping["customers"].instants = {}
    BY DEF Mapping
  <2>3. TypesCovered("customers")
    BY <2>1, <2>2, SourceValuesKnown DEF TypesCovered, Ids, PostgresConstraints, Rules
  <2>. QED  BY <2>1, <2>2, <2>3 DEF Covered, PostgresConstraints, Rules
<1>4. Covered("products")
  <2>1. Constraints["products"] = PostgresConstraints["products"]
    BY <1>1, <1>2 DEF Constraints
  <2>2. /\ Mapping["products"].target = "dim_product_by_id"
        /\ Mapping["products"].integers = {}
        /\ Mapping["products"].instants = {}
    BY DEF Mapping
  <2>3. TypesCovered("products")
    BY <2>1, <2>2, SourceValuesKnown DEF TypesCovered, Ids, PostgresConstraints, Rules
  <2>. QED  BY <2>1, <2>2, <2>3 DEF Covered, PostgresConstraints, Rules
<1>5. Covered("order_items")
  <2>1. Constraints["order_items"] = PostgresConstraints["order_items"]
    BY <1>1, <1>2 DEF Constraints
  <2>2. /\ Mapping["order_items"].target = "fact_order_line_by_day"
        /\ Mapping["order_items"].integers = {"quantity", "unit_price_cents"}
        /\ Mapping["order_items"].instants = {"ordered_at"}
    BY DEF Mapping
  <2>3. TypesCovered("order_items")
    BY <2>1, <2>2, SourceValuesKnown DEF TypesCovered, Ids, PostgresConstraints, Rules
  <2>. QED  BY <2>1, <2>2, <2>3 DEF Covered, PostgresConstraints, Rules
<1>6. Covered("stock_movements")
  <2>1. Constraints["stock_movements"] = PostgresConstraints["stock_movements"]
    BY <1>1, <1>2 DEF Constraints
  <2>2. /\ Mapping["stock_movements"].target = "fact_inventory_movement_by_product"
        /\ Mapping["stock_movements"].integers = {"quantity"}
        /\ Mapping["stock_movements"].instants = {"movement_ts"}
    BY DEF Mapping
  <2>3. TypesCovered("stock_movements")
    BY <2>1, <2>2, SourceValuesKnown DEF TypesCovered, Ids, PostgresConstraints, Rules
  <2>. QED  BY <2>1, <2>2, <2>3 DEF Covered, PostgresConstraints, Rules
<1>7. Covered("payments")
  <2>1. Constraints["payments"] = MySqlConstraints["payments"]
    BY <1>1, <1>2 DEF Constraints
  <2>2. /\ Mapping["payments"].target = "fact_payment_by_day"
        /\ Mapping["payments"].integers = {"amount_cents"}
        /\ Mapping["payments"].instants = {"paid_at"}
    BY DEF Mapping
  <2>3. TypesCovered("payments")
    BY <2>1, <2>2, SourceValuesKnown DEF TypesCovered, Ids, MySqlConstraints, Rules
  <2>. QED  BY <2>1, <2>2, <2>3 DEF Covered, MySqlConstraints, Rules
<1>8. Covered("refunds")
  <2>1. Constraints["refunds"] = MySqlConstraints["refunds"]
    BY <1>1, <1>2 DEF Constraints
  <2>2. /\ Mapping["refunds"].target = "fact_refund_by_day"
        /\ Mapping["refunds"].integers = {"amount_cents"}
        /\ Mapping["refunds"].instants = {"refunded_at"}
    BY DEF Mapping
  <2>3. TypesCovered("refunds")
    BY <2>1, <2>2, SourceValuesKnown DEF TypesCovered, Ids, MySqlConstraints, Rules
  <2>. QED  BY <2>1, <2>2, <2>3 DEF Covered, MySqlConstraints, Rules
<1>9. Covered("support_tickets")
  <2>1. Constraints["support_tickets"] = MongoConstraints["support_tickets"]
    BY <1>1, <1>2 DEF Constraints
  <2>2. /\ Mapping["support_tickets"].target = "fact_support_case_by_customer"
        /\ Mapping["support_tickets"].integers = {}
        /\ Mapping["support_tickets"].instants = {"opened_at", "sla_due_at", "closed_at"}
    BY DEF Mapping
  <2>3. TypesCovered("support_tickets")
    BY <2>1, <2>2, SourceValuesKnown DEF TypesCovered, Ids, MongoConstraints, Rules
  <2>. QED  BY <2>1, <2>2, <2>3 DEF Covered, MongoConstraints, Rules
<1>. QED  BY <1>1, <1>3, <1>4, <1>5, <1>6, <1>7, <1>8, <1>9

\* A row its source database would refuse never gets past mapping and validation,
\* unless for a missing time stamp or the form of an id alone, save a soft-deleted
\* dimension: for messages of any operation, with any set of damaged columns.
THEOREM RowsKeepConstraints ==
    ASSUME NEW m, Verdict(m) = "row", ~(IsDimension(m) /\ m.op = "d")
    PROVE  RefusedColumns(m) \subseteq MadeGood(m)
<1>1. m.table \in DOMAIN Mapping /\ Issues(m) = {} /\ ~MapperRaises(m)
  BY DEF Verdict
<1>2. Covered(m.table)
  BY <1>1, TablesCovered
<1> DEFINE source == Constraints[m.table]
           how == Mapping[m.table]
           rule == Rules[Target(m)]
<1>3. RequiredColumns(m) = rule.required \cup rule.active
  BY DEF RequiredColumns
<1>4. ASSUME NEW c \in rule.required \cup rule.active, c # "gross_amount_cents"
      PROVE  ~IsBlank(ColumnClass(m, c))
  <2> SUFFICES ASSUME IsBlank(ColumnClass(m, c)) PROVE FALSE
    OBVIOUS
  <2>1. c \in RequiredColumns(m) /\ RowClass(m, c) = ColumnClass(m, c)
    BY <1>3, <1>4 DEF RowClass
  <2>2. <<"required_field_missing", c>> \in Issues(m)
    BY <2>1 DEF Issues
  <2>. QED  BY <1>1, <2>2
<1>5. ASSUME NEW c \in source.notNull, ColumnClass(m, c) \in {"absent", "null"}
      PROVE  c \in MadeGood(m)
  <2>1. c \in how.instants
    BY <1>2, <1>4, <1>5 DEF Covered, Target, IsBlank
  <2>. QED  BY <1>5, <2>1 DEF MadeGood
<1>6. ASSUME NEW c \in source.typed, ColumnClass(m, c) \in {"blank", "garbage"}
      PROVE  c \in MadeGood(m)
  <2>1. c \notin how.integers \cup how.instants
    BY <1>1, <1>6 DEF MapperRaises
  <2>2. c \in Ids /\ c \in rule.required /\ c # "gross_amount_cents"
    BY <1>2, <2>1 DEF Covered, TypesCovered, Target
  <2>3. ColumnClass(m, c) = "garbage"
    BY <1>4, <1>6, <2>2 DEF IsBlank
  <2>. QED  BY <2>2, <2>3 DEF MadeGood, Ids
<1>7. \A c \in source.positive : ColumnClass(m, c) \notin {"zero", "negative"}
  <2> SUFFICES ASSUME NEW c \in source.positive, ColumnClass(m, c) \in {"zero", "negative"}
               PROVE  FALSE
    OBVIOUS
  <2>1. c \in rule.positive /\ RowClass(m, c) = ColumnClass(m, c)
    BY <1>2 DEF Covered, Target, RowClass
  <2>2. <<"non_positive_number", c>> \in Issues(m)
    BY <2>1 DEF Issues
  <2>. QED  BY <1>1, <2>2
<1>8. \A c \in source.nonNegative : ColumnClass(m, c) # "negative"
  <2> SUFFICES ASSUME NEW c \in source.nonNegative, ColumnClass(m, c) = "negative"
               PROVE  FALSE
    OBVIOUS
  <2>1. c \in rule.nonNegative /\ RowClass(m, c) = ColumnClass(m, c)
    BY <1>2 DEF Covered, Target, RowClass
  <2>2. <<"negative_number", c>> \in Issues(m)
    BY <2>1 DEF Issues
  <2>. QED  BY <1>1, <2>2
<1>9. ASSUME NEW c \in source.enums,
             \/ ColumnClass(m, c) = "blank"
             \/ Unlisted(ColumnClass(m, c), CheckedValues[c])
      PROVE  FALSE
  <2>1. /\ c \in rule.enums /\ c \in rule.required /\ c # "gross_amount_cents"
        /\ KnownValues[c] = CheckedValues[c]
    BY <1>2 DEF Covered, TypesCovered, Target
  <2>2. Unlisted(RowClass(m, c), KnownValues[c])
    BY <1>4, <1>9, <2>1 DEF IsBlank, RowClass
  <2>3. <<"unknown_enum_value", c>> \in Issues(m)
    BY <2>1, <2>2 DEF Issues
  <2>. QED  BY <1>1, <2>3
<1>. QED  BY <1>5, <1>6, <1>7, <1>8, <1>9 DEF RefusedColumns

\* What is made good is no number and nothing validation asks for, and the
\* values a source lists are known.
LEMMA HarmlessColumns ==
    ASSUME NEW t \in DOMAIN Mapping
    PROVE  LET how == Mapping[t]
               rule == Rules[how.target]
           IN  /\ how.instants \cap (how.subscripted \cup how.integers) = {}
               /\ how.instants \cap (rule.required \cup rule.active \cup rule.enums) = {}
               /\ how.instants \cap Ids = {}
               /\ Ids \cap (how.integers \cup rule.enums) = {}
               /\ DOMAIN CheckedValues \cap (how.integers \cup how.instants \cup Ids) = {}
               /\ \A c \in DOMAIN CheckedValues : KnownValues[c] = CheckedValues[c]
<1>1. t \in {"customers", "products", "order_items", "payments", "refunds",
             "stock_movements", "support_tickets"}
  BY DEF Mapping
<1>2. DOMAIN CheckedValues = {"payment_status", "payment_method", "refund_reason",
                              "priority", "status"}
  BY DEF CheckedValues
<1>3. \A c \in DOMAIN CheckedValues : KnownValues[c] = CheckedValues[c]
  BY <1>2, SourceValuesKnown
<1>4. DOMAIN CheckedValues \cap Ids = {}
  BY <1>2 DEF Ids
<1>5. CASE t \in {"customers", "products"}
  BY <1>2, <1>3, <1>4, <1>5 DEF Mapping, Rules, Ids
<1>6. CASE t = "order_items"
  BY <1>2, <1>3, <1>4, <1>6 DEF Mapping, Rules, Ids
<1>7. CASE t = "payments"
  BY <1>2, <1>3, <1>4, <1>7 DEF Mapping, Rules, Ids
<1>8. CASE t = "refunds"
  BY <1>2, <1>3, <1>4, <1>8 DEF Mapping, Rules, Ids
<1>9. CASE t = "stock_movements"
  BY <1>2, <1>3, <1>4, <1>9 DEF Mapping, Rules, Ids
<1>10. CASE t = "support_tickets"
  BY <1>2, <1>3, <1>4, <1>10 DEF Mapping, Rules, Ids
<1>. QED  BY <1>1, <1>5, <1>6, <1>7, <1>8, <1>9, <1>10

\* A row is accepted, whatever the operation, when its image is there and there
\* is nothing about it but what is made good and values its source lists.
THEOREM SoundRowsPass ==
    ASSUME NEW m, m.shape = "event", m.table \in DOMAIN Mapping, HasImage(m),
           \A c \in DOMAIN m.damage :
              \/ c \in MadeGood(m)
              \/ c \in DOMAIN CheckedValues /\ m.damage[c] \in CheckedValues[c]
    PROVE  Verdict(m) = "row"
<1> DEFINE how == Mapping[m.table]
           rule == Rules[Target(m)]
           class(c) == ColumnClass(m, c)
<1>1. /\ how.instants \cap (how.subscripted \cup how.integers) = {}
      /\ how.instants \cap (rule.required \cup rule.active \cup rule.enums) = {}
      /\ how.instants \cap Ids = {}
      /\ Ids \cap (how.integers \cup rule.enums) = {}
      /\ DOMAIN CheckedValues \cap (how.integers \cup how.instants \cup Ids) = {}
      /\ \A c \in DOMAIN CheckedValues : KnownValues[c] = CheckedValues[c]
  BY HarmlessColumns DEF Target
<1>2. \A c : \/ class(c) = "ok"
             \/ c \in how.instants /\ class(c) \in {"absent", "null"}
             \/ c \in Ids /\ class(c) = "garbage"
             \/ c \in DOMAIN CheckedValues /\ class(c) \in CheckedValues[c]
  BY DEF ColumnClass, MadeGood, Ids
<1>3. \A c \in DOMAIN CheckedValues : \A v \in CheckedValues[c] :
         ~IsBlank(v) /\ v \notin {"garbage", "zero", "negative", "huge"}
  BY DEF CheckedValues, IsBlank
<1>4. \A c : class(c) \notin {"zero", "negative", "huge"}
  BY <1>2, <1>3
<1>5. \A c \in how.integers : class(c) = "ok"
  BY <1>1, <1>2
<1>6. ~MapperRaises(m)
  <2>1. \A c \in how.subscripted : class(c) # "absent"
    BY <1>1, <1>2, <1>3 DEF IsBlank
  <2>2. \A c \in how.instants : class(c) \notin {"blank", "garbage"}
    BY <1>1, <1>2
  <2>. QED  BY <1>5, <2>1, <2>2 DEF MapperRaises
<1>7. \A c : RowClass(m, c) = class(c) \/ (c = "gross_amount_cents" /\ RowClass(m, c) = "ok")
  BY <1>4 DEF RowClass, GrossClass
<1>8. Issues(m) = {}
  <2>1. \A c \in RequiredColumns(m) : ~IsBlank(RowClass(m, c))
    <3>1. RequiredColumns(m) \subseteq rule.required \cup rule.active
      BY DEF RequiredColumns
    <3>. QED  BY <3>1, <1>1, <1>2, <1>3, <1>7 DEF IsBlank
  <2>2. \A c : RowClass(m, c) \notin {"zero", "negative", "huge"}
    BY <1>4, <1>7
  <2>3. \A c \in rule.enums : ~Unlisted(RowClass(m, c), KnownValues[c])
    BY <1>1, <1>2, <1>7 DEF Unlisted
  <2>. QED  BY <2>1, <2>2, <2>3 DEF Issues
<1>. QED  BY <1>6, <1>8 DEF Verdict, Unparsable

\* A dimension can be deleted when its key is sound, whatever else is not.
LEMMA DeletesNeedOnlyTheKey ==
    ASSUME NEW m, m.shape = "event", m.table \in DOMAIN Mapping, HasImage(m),
           IsDimension(m), m.op = "d", Mapping[m.table].id \notin DOMAIN m.damage
    PROVE  Verdict(m) = "row"
<1>1. m.table \in {"customers", "products"}
  BY DEF Mapping, IsDimension
<1>2. /\ Mapping[m.table].subscripted = {Mapping[m.table].id}
      /\ Mapping[m.table].integers = {} /\ Mapping[m.table].instants = {}
      /\ Rules[Target(m)].required = {Mapping[m.table].id}
      /\ Rules[Target(m)].positive = {} /\ Rules[Target(m)].nonNegative = {}
      /\ Rules[Target(m)].enums = {}
      /\ Target(m) # "fact_payment_by_day"
      /\ Mapping[m.table].id # "gross_amount_cents"
  BY <1>1 DEF Mapping, Rules, Target
<1>3. ColumnClass(m, Mapping[m.table].id) = "ok" /\ RowClass(m, Mapping[m.table].id) = "ok"
  BY <1>2 DEF ColumnClass, RowClass
<1>4. ~MapperRaises(m)
  BY <1>2, <1>3 DEF MapperRaises
<1>5. RequiredColumns(m) = {Mapping[m.table].id}
  BY <1>2 DEF RequiredColumns
<1>6. Issues(m) = {}
  BY <1>2, <1>3, <1>5 DEF Issues, IsBlank
<1>. QED  BY <1>4, <1>6 DEF Verdict, Unparsable

-----------------------------------------------------------------------------
(* The audit of the dashboard *)

\* What the audit asks of the rows of table t, validation asks too.
Audited(t) ==
    LET rule == Rules[Mapping[t].target]
        asked == rule.required \cup rule.active
    IN  /\ "gross_amount_cents" \notin asked \cup rule.enums
        /\ t = "customers" =>
              {"customer_id", "hospital_name", "segment", "city", "country"} \subseteq asked
        /\ t = "products" =>
              {"product_id", "sku", "product_name", "product_category",
               "supplier_id"} \subseteq asked
        /\ t = "order_items" =>
              /\ {"order_id", "order_item_id", "customer_id", "product_id"} \subseteq asked
              /\ {"order_status", "channel"} \subseteq asked \cap rule.enums
        /\ t = "payments" =>
              /\ {"payment_id", "invoice_id", "order_id", "customer_id"} \subseteq asked
              /\ {"payment_status", "payment_method"} \subseteq asked \cap rule.enums
              /\ "amount_cents" \in rule.nonNegative
        /\ t = "refunds" =>
              /\ {"refund_reason"} \subseteq asked \cap rule.enums
              /\ "amount_cents" \in rule.nonNegative
        /\ t = "support_tickets" =>
              /\ {"customer_id", "ticket_id", "priority", "status"} \subseteq asked
              /\ {"priority", "status"} \subseteq rule.enums
        /\ t = "stock_movements" =>
              /\ {"product_id", "movement_id", "warehouse_id"} \subseteq asked
              /\ {"movement_type"} \subseteq asked \cap rule.enums

\* Columns found sound, none of them blank or unknown, are counted by no query.
LEMMA NothingCounted ==
    ASSUME NEW rows, NEW columns,
           \A r \in rows : \A c \in columns : ~IsBlank(RowClass(r, c))
    PROVE  /\ CountNull(rows, columns) = 0
           /\ (\A r \in rows : \A c \in columns :
                  ~Unlisted(RowClass(r, c), AuditedValues[c]))
                 => CountUnknown(rows, columns) = 0
BY FS_EmptySet DEF CountNull, CountUnknown, IsNull, IsBlank

\* The lists of values of validation.py and of the SQL are the same.
LEMMA SameValues ==
    \A c \in {"order_status", "channel", "payment_status", "payment_method", "refund_reason",
              "priority", "status", "movement_type"} : AuditedValues[c] = KnownValues[c]
BY DEF AuditedValues, KnownValues

LEMMA TablesAudited == \A t \in DOMAIN Mapping : Audited(t)
<1>1. DOMAIN Mapping = {"customers", "products", "order_items", "payments", "refunds",
                        "stock_movements", "support_tickets"}
  BY DEF Mapping
<1>2. Audited("customers")
  <2>1. Mapping["customers"].target = "dim_customer_by_id"
    BY DEF Mapping
  <2>. QED  BY <2>1 DEF Audited, Rules
<1>3. Audited("products")
  <2>1. Mapping["products"].target = "dim_product_by_id"
    BY DEF Mapping
  <2>. QED  BY <2>1 DEF Audited, Rules
<1>4. Audited("order_items")
  <2>1. Mapping["order_items"].target = "fact_order_line_by_day"
    BY DEF Mapping
  <2>. QED  BY <2>1 DEF Audited, Rules
<1>5. Audited("payments")
  <2>1. Mapping["payments"].target = "fact_payment_by_day"
    BY DEF Mapping
  <2>. QED  BY <2>1 DEF Audited, Rules
<1>6. Audited("refunds")
  <2>1. Mapping["refunds"].target = "fact_refund_by_day"
    BY DEF Mapping
  <2>. QED  BY <2>1 DEF Audited, Rules
<1>7. Audited("stock_movements")
  <2>1. Mapping["stock_movements"].target = "fact_inventory_movement_by_product"
    BY DEF Mapping
  <2>. QED  BY <2>1 DEF Audited, Rules
<1>8. Audited("support_tickets")
  <2>1. Mapping["support_tickets"].target = "fact_support_case_by_customer"
    BY DEF Mapping
  <2>. QED  BY <2>1 DEF Audited, Rules
<1>. QED  BY <1>1, <1>2, <1>3, <1>4, <1>5, <1>6, <1>7, <1>8

\* The only rows a query of the audit goes through are of its own table.
LEMMA NoOtherTable ==
    ASSUME NEW m, NEW t, m.table # t, NEW columns
    PROVE  LET rows == RowsOf({m}, t)
           IN  CountNull(rows, columns) = 0 /\ CountUnknown(rows, columns) = 0
                  /\ CountNegative(rows) = 0
<1>1. RowsOf({m}, t) = {}
  BY DEF RowsOf
<1>. QED  BY <1>1, FS_EmptySet DEF CountNull, CountUnknown, CountNegative

\* What validation says of a row it accepts.
LEMMA AcceptedMeans ==
    ASSUME NEW m, Verdict(m) = "row", ~(IsDimension(m) /\ m.op = "d")
    PROVE  LET rule == Rules[Target(m)]
           IN  /\ m.table \in DOMAIN Mapping
               /\ \A c \in rule.required \cup rule.active : ~IsBlank(RowClass(m, c))
               /\ \A c \in rule.nonNegative : RowClass(m, c) # "negative"
               /\ \A c \in rule.enums : ~Unlisted(RowClass(m, c), KnownValues[c])
<1>1. m.table \in DOMAIN Mapping /\ Issues(m) = {}
  BY DEF Verdict
<1> DEFINE rule == Rules[Target(m)]
<1>2. RequiredColumns(m) = rule.required \cup rule.active
  BY DEF RequiredColumns
<1>3. ASSUME NEW c \in rule.required \cup rule.active, IsBlank(RowClass(m, c)) PROVE FALSE
  <2>1. <<"required_field_missing", c>> \in Issues(m)
    BY <1>2, <1>3 DEF Issues
  <2>. QED  BY <1>1, <2>1
<1>4. ASSUME NEW c \in rule.nonNegative, RowClass(m, c) = "negative" PROVE FALSE
  <2>1. <<"negative_number", c>> \in Issues(m)
    BY <1>4 DEF Issues
  <2>. QED  BY <1>1, <2>1
<1>5. ASSUME NEW c \in rule.enums, Unlisted(RowClass(m, c), KnownValues[c]) PROVE FALSE
  <2>1. <<"unknown_enum_value", c>> \in Issues(m)
    BY <1>5 DEF Issues
  <2>. QED  BY <1>1, <2>1
<1>. QED  BY <1>1, <1>3, <1>4, <1>5

\* The lists of columns and values, in Python and in SQL: a row validation accepts is
\* counted by no query of the audit, whatever its table and operation.
THEOREM AcceptedRowsPassTheAudit ==
    ASSUME NEW m, Verdict(m) = "row", ~(IsDimension(m) /\ m.op = "d")
    PROVE  LET findings == QualityFindings({m})
           IN  \A f \in DOMAIN findings : findings[f] = 0
<1> DEFINE rule == Rules[Target(m)]
           Of(t) == RowsOf({m}, t)
<1>1. /\ m.table \in DOMAIN Mapping
      /\ \A c \in rule.required \cup rule.active : ~IsBlank(RowClass(m, c))
      /\ \A c \in rule.nonNegative : RowClass(m, c) # "negative"
      /\ \A c \in rule.enums : ~Unlisted(RowClass(m, c), KnownValues[c])
  BY AcceptedMeans
<1>2. Audited(m.table) /\ Target(m) = Mapping[m.table].target
  BY <1>1, TablesAudited DEF Target
<1>3. ASSUME NEW t, NEW columns,
             m.table = t => columns \subseteq rule.required \cup rule.active
      PROVE  CountNull(Of(t), columns) = 0
  <2>1. CASE m.table = t
    <3>1. \A r \in Of(t) : \A c \in columns : ~IsBlank(RowClass(r, c))
      BY <1>1, <1>3, <2>1 DEF RowsOf
    <3>. QED  BY <3>1, NothingCounted
  <2>. QED  BY <2>1, NoOtherTable
<1>4. ASSUME NEW t, NEW columns,
             \A c \in columns : AuditedValues[c] = KnownValues[c],
             m.table = t => columns \subseteq (rule.required \cup rule.active) \cap rule.enums
      PROVE  CountUnknown(Of(t), columns) = 0
  <2>1. CASE m.table = t
    <3>1. \A r \in Of(t) : \A c \in columns :
             ~IsBlank(RowClass(r, c)) /\ ~Unlisted(RowClass(r, c), AuditedValues[c])
      BY <1>1, <1>4, <2>1 DEF RowsOf
    <3>. QED  BY <3>1, NothingCounted
  <2>. QED  BY <2>1, NoOtherTable
<1>5. ASSUME NEW t, m.table = t => "amount_cents" \in rule.nonNegative
      PROVE  CountNegative(Of(t)) = 0
  <2>1. CASE m.table = t
    <3>1. {r \in Of(t) : RowClass(r, "amount_cents") = "negative"} = {}
      BY <1>1, <1>5, <2>1 DEF RowsOf
    <3>. QED  BY <3>1, FS_EmptySet DEF CountNegative
  <2>. QED  BY <2>1, NoOtherTable
<1>6. /\ CountNegative(Of("payments")) = 0 /\ CountNegative(Of("refunds")) = 0
  BY <1>2, <1>5 DEF Audited
<1>7. /\ CountNull(Of("customers"),
            {"customer_id", "hospital_name", "segment", "city", "country"}) = 0
      /\ CountNull(Of("products"),
            {"product_id", "sku", "product_name", "product_category", "supplier_id"}) = 0
      /\ CountNull(Of("order_items"),
            {"order_id", "order_item_id", "customer_id", "product_id"}) = 0
      /\ CountNull(Of("payments"),
            {"payment_id", "invoice_id", "order_id", "customer_id"}) = 0
      /\ CountNull(Of("support_tickets"),
            {"customer_id", "ticket_id", "priority", "status"}) = 0
      /\ CountNull(Of("stock_movements"), {"product_id", "movement_id", "warehouse_id"}) = 0
  BY <1>2, <1>3 DEF Audited
<1>8. /\ CountUnknown(Of("order_items"), {"order_status", "channel"}) = 0
      /\ CountUnknown(Of("payments"), {"payment_status", "payment_method"}) = 0
      /\ CountUnknown(Of("refunds"), {"refund_reason"}) = 0
      /\ CountUnknown(Of("support_tickets"), {"priority", "status"}) = 0
      /\ CountUnknown(Of("stock_movements"), {"movement_type"}) = 0
  BY <1>2, <1>4, SameValues DEF Audited
<1>. QED  BY <1>6, <1>7, <1>8 DEF QualityFindings

-----------------------------------------------------------------------------
(* The same of every state of the specification, for any bound on the damage. *)

\* What the specification keeps: the message, and the verdict once it is given.
Judged ==
    /\ message.shape = "event" /\ message.table \in DOMAIN Mapping
    /\ verdict # "pending" => verdict = Verdict(message)

LEMMA AlwaysJudged == Spec => []Judged
<1>1. Init => Judged
  BY DEF Init, Judged, RowMessagesOf, RowMessage
<1>2. Judged /\ [Transform]_mcVars => Judged'
  BY DEF Judged, Transform, mcVars
<1>. QED  BY <1>1, <1>2, PTL DEF Spec

\* A row its source database would refuse is never accepted, unless for what is
\* made good, however many of its columns are damaged.
THEOREM ConstraintsAlwaysHold == Spec => []SourceConstraintsHold
<1>1. Judged => SourceConstraintsHold
  BY RowsKeepConstraints DEF Judged, SourceConstraintsHold
<1>. QED  BY <1>1, AlwaysJudged, PTL

\* Sound rows, with what is made good and the values their source lists, and
\* deleted dimensions with a sound key, are always accepted.
THEOREM SoundRowsAlwaysAccepted == Spec => []SoundRowsAccepted
<1>1. Judged => SoundRowsAccepted
  BY SoundRowsPass, DeletesNeedOnlyTheKey DEF Judged, SoundRowsAccepted
<1>. QED  BY <1>1, AlwaysJudged, PTL

\* Accepted rows never raise a finding, for any number of damaged columns.
THEOREM FindingsNeverRaised == Spec => []AcceptedRowsRaiseNoFinding
<1>1. Judged => AcceptedRowsRaiseNoFinding
  BY AcceptedRowsPassTheAudit DEF Judged, AcceptedRowsRaiseNoFinding
<1>. QED  BY <1>1, AlwaysJudged, PTL
=============================================================================
