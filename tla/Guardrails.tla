----------------------------- MODULE Guardrails -----------------------------
(***************************************************************************)
(* BusinessGuardrails (guardrails.py): what one transformer process        *)
(* remembers of the rows it has written, and the business validation of    *)
(* payments against that memory.  The Python dictionaries are modelled as  *)
(* functions over all ids: an order is a key of _order_totals when it is   *)
(* in "known", and _order_lines has no entry where "lines" is NoLine.      *)
(***************************************************************************)
EXTENDS Integers, StarSchema

CONSTANTS
    Customers, Orders, Items,   \* ids of customers, orders and order items
    NoLine,                     \* no entry in _order_lines
    Strict,                     \* reference_validation_mode = "strict"
    Tolerance                   \* payment_overpay_tolerance_cents

ASSUME GuardrailAssumption ==
    /\ Strict \in BOOLEAN
    /\ Tolerance \in Nat
    /\ NoLine \notin [order : Orders, amount : Nat]

Line == [order : Orders, amount : Nat]

Memory ==
    [customers : SUBSET Customers,
     known : SUBSET Orders,
     totals : [Orders -> Int],
     lines : [Items -> Line \cup {NoLine}]]

\* A new process starts with empty guardrails.
EmptyMemory ==
    [customers |-> {},
     known |-> {},
     totals |-> [o \in Orders |-> 0],
     lines |-> [i \in Items |-> NoLine]]

\* Mutant: a new version of a line is added without taking the old one out.
Withdrawn_KeepsOldVersion(mem, item) == mem.totals

\* The totals without the version of the line seen before, if any.
Withdrawn(mem, item) ==
    LET previous == mem.lines[item]
    IN  IF previous = NoLine
        THEN mem.totals
        ELSE [mem.totals EXCEPT ![previous.order] = @ - previous.amount]

\* _observe_order_line.  The op of the event is not looked at: the line of a
\* deleted order item still counts.
ObserveLine(mem, m) ==
    [customers |-> mem.customers \cup {m.customer},
     known |-> mem.known \cup {m.order},
     totals |-> [Withdrawn(mem, m.id) EXCEPT ![m.order] = @ + m.amount],
     lines |-> [mem.lines EXCEPT ![m.id] = [order |-> m.order, amount |-> m.amount]]]

\* observe(rows) for the row of message m.
Observe(mem, m) ==
    CASE m.table = "customers" /\ m.op # "d" ->
            [mem EXCEPT !.customers = @ \cup {m.id}]
      [] m.table = "order_items" -> ObserveLine(mem, m)
      [] OTHER -> mem

UnknownReferences(mem, m) ==
    IF ~Strict THEN {}
    ELSE {code \in {"unknown_order_reference", "unknown_customer_reference"} :
            IF code = "unknown_order_reference"
            THEN m.order \notin mem.known
            ELSE m.customer \notin mem.customers}

\* Mutant: an order not seen yet counts as an order of nothing.
Overpays_UnknownOrder(mem, m) ==
    m.status = "captured" /\ m.amount > mem.totals[m.order] + Tolerance

\* Captured, and above the total this process knows for the order.  An order
\* it has no line of is not checked.
Overpays(mem, m) ==
    /\ m.order \in mem.known
    /\ m.status = "captured"
    /\ m.amount > mem.totals[m.order] + Tolerance

\* Mutant: strict mode no longer looks at the references.
PaymentIssues_NoReferences(mem, m) ==
    IF Overpays(mem, m) THEN {"payment_amount_exceeds_order_total"} ELSE {}

\* _validate_payment for a message of the payments table.
PaymentIssues(mem, m) ==
    UnknownReferences(mem, m) \cup
    (IF Overpays(mem, m) THEN {"payment_amount_exceeds_order_total"} ELSE {})

\* guardrails.validate(rows) passes.
Admits(mem, m) == m.table = "payments" => PaymentIssues(mem, m) = {}
=============================================================================
