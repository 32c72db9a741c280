------------------------------ MODULE Generator ------------------------------
(***************************************************************************)
(* The workload generator (apps/generator): a loop of business flows, each *)
(* inserted row by row into three databases that share no transaction.     *)
(*                                                                         *)
(* A flow is what run_once decides before the first insert.  A table holds *)
(* the flows whose row it has; the columns of the row are those of the     *)
(* flow.  Every insert commits on its own and an exception ends the        *)
(* process, so the flow can break off between any two inserts.             *)
(***************************************************************************)
EXTENDS Integers

CONSTANTS
    CommandLines,       \* options a process may be started with, see Options
    InventorySource,    \* --inventory-source
    Quantities, Prices, \* of an order item
    FlowIds,            \* the ids uuid4 hands out, 1 .. some bound on the flows
    MaxTime             \* bound on the clock of one process

InventorySources == {"postgres-fallback", "none", "oracle"}

\* --iterations, --max-events, --duration-seconds, 0 for no such limit, and
\* whether --rate-per-second or --sleep-seconds give a delay.
Options == [iterations : Nat, maxEvents : Nat, duration : Nat, interval : BOOLEAN]

ASSUME GeneratorAssumption ==
    /\ CommandLines \subseteq Options
    /\ MaxTime \in Nat
    /\ InventorySource \in InventorySources
    /\ Quantities \subseteq 1 .. 12
    /\ Prices \subseteq {500, 1250, 2500, 7999, 15000}
    /\ FlowIds \subseteq Nat

\* Half, a third or a quarter of the payment, but at least 100 cents.
RefundOf(amount, part) == IF amount \div part < 100 THEN 100 ELSE amount \div part

\* Mutant: a payment is refunded whatever its status.
MayRefund_AnyStatus(status, refund, amount) ==
    refund = 0 \/ \E part \in {2, 3, 4} : refund = RefundOf(amount, part)

\* Only a captured payment is refunded; refund is 0 where there is none.
MayRefund(status, refund, amount) ==
    \/ refund = 0
    \/ status = "captured" /\ \E part \in {2, 3, 4} : refund = RefundOf(amount, part)

\* What one run_once inserts.  invoice, payment and order have one amount.
Flows ==
    [id : FlowIds, amount : Nat,
     status : {"captured", "failed", "pending"}, refund : Nat]

\* The inserts in the order of the code.
Tables ==
    {"customers", "orders", "order_items", "invoices", "payments", "refunds",
     "support_tickets", "products", "stock_movements"}

VARIABLES
    stored,     \* per table, the flows whose row is committed
    pc,         \* the insert to come, or where the loop is
    flow,       \* the flow being inserted
    emitted,    \* count of the loop in main
    elapsed,    \* seconds since the process started
    lastId,     \* the last id handed out
    options     \* of this process

vars == <<stored, pc, flow, emitted, elapsed, lastId, options>>

NoFlow == [id |-> 0, amount |-> 0, status |-> "failed", refund |-> 0]

Loop == {"check", "sleep", "done", "dead"}

TypeOK ==
    /\ stored \in [Tables -> SUBSET Flows]
    /\ pc \in Loop \cup Tables
    /\ pc \in Tables => flow \in Flows
    /\ emitted \in Nat
    /\ elapsed \in Nat
    /\ lastId \in Nat
    /\ options \in CommandLines
    /\ \A t \in Tables : \A f \in stored[t] : f.id <= lastId
    /\ \A t \in Tables : \A f, g \in stored[t] : f.id = g.id => f = g

\* A process starts on empty databases; Restart starts further ones.
Init ==
    /\ stored = [t \in Tables |-> {}]
    /\ pc = "check"
    /\ flow = NoFlow
    /\ emitted = 0
    /\ elapsed = 0
    /\ lastId = 0
    /\ options \in CommandLines

-----------------------------------------------------------------------------

EventLimit == IF options.maxEvents > 0 THEN options.maxEvents ELSE options.iterations

\* Mutant: the time limit is not looked at.
ShouldStop_NoTimeLimit == EventLimit > 0 /\ emitted >= EventLimit

ShouldStop ==
    \/ EventLimit > 0 /\ emitted >= EventLimit
    \/ options.duration > 0 /\ elapsed >= options.duration

Tick ==
    /\ elapsed < MaxTime
    /\ pc \notin {"done", "dead"}
    /\ elapsed' = elapsed + 1
    /\ UNCHANGED <<stored, pc, flow, emitted, lastId, options>>

Stop ==
    /\ pc = "check" /\ ShouldStop
    /\ pc' = "done"
    /\ UNCHANGED <<stored, flow, emitted, elapsed, lastId, options>>

\* Mutant: ids start again with each process.
NewId_PerProcess == emitted + 1

\* uuid4: an id never handed out before.
NewId == lastId + 1

\* run_once decides on all its rows first.
RunOnce ==
    /\ pc = "check" /\ ~ShouldStop
    /\ NewId \in FlowIds
    /\ lastId' = NewId
    /\ emitted' = emitted + 1
    /\ \E q \in Quantities, p \in Prices,
          status \in {"captured", "failed", "pending"} :
          \E refund \in {0} \cup {RefundOf(q * p, part) : part \in {2, 3, 4}} :
            /\ MayRefund(status, refund, q * p)
            /\ flow' = [id |-> NewId, amount |-> q * p,
                        status |-> status, refund |-> refund]
    /\ pc' = "customers"
    /\ UNCHANGED <<stored, elapsed, options>>

\* After the last insert: wait for the next flow, unless there is none.
EndOfFlow == IF options.interval /\ ~ShouldStop THEN "sleep" ELSE "check"

\* Mutant: the billing rows are inserted before the order they belong to.
Following_BillingFirst(t) ==
    CASE t = "customers" -> "invoices"
      [] t = "invoices" -> "payments"
      [] t = "payments" -> IF flow.refund # 0 THEN "refunds" ELSE "orders"
      [] t = "refunds" -> "orders"
      [] t = "orders" -> "order_items"
      [] t = "order_items" -> "support_tickets"
      [] t = "support_tickets" ->
            IF InventorySource = "postgres-fallback" THEN "products" ELSE EndOfFlow
      [] t = "products" -> "stock_movements"
      [] t = "stock_movements" -> EndOfFlow

\* What run_once does after the insert into t.
Following(t) ==
    CASE t = "customers" -> "orders"
      [] t = "orders" -> "order_items"
      [] t = "order_items" -> "invoices"
      [] t = "invoices" -> "payments"
      [] t = "payments" -> IF flow.refund # 0 THEN "refunds" ELSE "support_tickets"
      [] t = "refunds" -> "support_tickets"
      [] t = "support_tickets" ->
            IF InventorySource = "postgres-fallback" THEN "products" ELSE EndOfFlow
      [] t = "products" -> "stock_movements"
      [] t = "stock_movements" -> EndOfFlow

Commit(t) ==
    /\ pc = t
    /\ stored' = [stored EXCEPT ![t] = @ \cup {flow}]
    /\ pc' = Following(t)
    /\ UNCHANGED <<flow, emitted, elapsed, lastId, options>>

\* One connection to each of Postgres, MySQL and MongoDB, the former shared by
\* orders and inventory; every method ends in a commit of its own.
CommitOrder == \E t \in {"customers", "orders", "order_items"} : Commit(t)
CommitBilling == \E t \in {"invoices", "payments", "refunds"} : Commit(t)
CommitTicket == Commit("support_tickets")
CommitInventory == \E t \in {"products", "stock_movements"} : Commit(t)

Wake ==
    /\ pc = "sleep"
    /\ pc' = "check"
    /\ UNCHANGED <<stored, flow, emitted, elapsed, lastId, options>>

\* Any exception, or a kill: there is no handler between an insert and the end
\* of the process, and nothing is taken back in the other databases.
Crash ==
    /\ pc \in Tables \cup {"sleep"}
    /\ pc' = "dead"
    /\ UNCHANGED <<stored, flow, emitted, elapsed, lastId, options>>

\* The generator is started again, with any options, while there are ids for
\* all its flows.
Restart ==
    /\ pc \in {"done", "dead"}
    /\ options' \in CommandLines
    /\ lastId + (IF EventLimit' > 0 THEN EventLimit' ELSE 1) \in FlowIds
    /\ pc' = "check"
    /\ emitted' = 0
    /\ elapsed' = 0
    /\ UNCHANGED <<stored, flow, lastId>>

Next ==
    \/ Tick \/ Stop \/ RunOnce \/ Wake \/ Crash \/ Restart
    \/ CommitOrder \/ CommitBilling \/ CommitTicket \/ CommitInventory

Spec == Init /\ [][Next]_vars

\* The loop goes on and the clock with it.  Nobody owes a restart.
Fairness ==
    /\ WF_vars(Tick) /\ WF_vars(Stop) /\ WF_vars(RunOnce) /\ WF_vars(Wake)
    /\ WF_vars(CommitOrder) /\ WF_vars(CommitBilling)
    /\ WF_vars(CommitTicket) /\ WF_vars(CommitInventory)

FairSpec == Spec /\ Fairness

-----------------------------------------------------------------------------

\* However many flows broke off halfway, what a row refers to is there: orders
\* have their customer, lines their order, invoices their lines, payments their
\* invoice, refunds a captured payment, tickets a customer and stock movements
\* a product, across databases that know no foreign keys between them.
References ==
    /\ stored["orders"] \subseteq stored["customers"]
    /\ stored["order_items"] \subseteq stored["orders"]
    /\ stored["invoices"] \subseteq stored["order_items"]
    /\ stored["payments"] \subseteq stored["invoices"]
    /\ stored["refunds"] \subseteq stored["payments"]
    /\ stored["support_tickets"] \subseteq stored["customers"]
    /\ stored["stock_movements"] \subseteq stored["products"]

\* No payment is refunded that was not captured, or beyond its amount.
RefundsCovered ==
    \A f \in stored["refunds"] : f.status = "captured" /\ 0 < f.refund /\ f.refund <= f.amount

\* As many flows were begun as asked for, or fewer and the time is up;
\* --max-events overrides --iterations when it is over 0.
InFull ==
    LET asked == IF options.maxEvents > 0 THEN options.maxEvents ELSE options.iterations
    IN  /\ asked > 0 => emitted <= asked
        /\ \/ asked > 0 /\ emitted = asked
           \/ options.duration > 0 /\ elapsed >= options.duration

Limited == options.maxEvents > 0 \/ options.iterations > 0 \/ options.duration > 0

\* A run limited by a count, by time or by both ends: unless it breaks off, by
\* itself, with exactly the flows it was asked for or because its time is up.
Terminates == pc = "check" /\ Limited ~> pc = "dead" \/ (pc = "done" /\ InFull)
=============================================================================
