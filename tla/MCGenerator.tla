----------------------------- MODULE MCGenerator -----------------------------
(***************************************************************************)
(* Generator for TLC, composed with the guardrails of a transformer that   *)
(* reads what the generator inserts: order lines and payments travel on    *)
(* topics of different databases, so that any number of the lines may have *)
(* been read when a payment arrives.                                       *)
(***************************************************************************)
EXTENDS Generator

\* A count that overrides another, a time limit alone, both limits, and none.
MCCommandLines ==
    {[iterations |-> 1, maxEvents |-> 2, duration |-> 0, interval |-> TRUE],
     [iterations |-> 0, maxEvents |-> 0, duration |-> 1, interval |-> TRUE],
     [iterations |-> 2, maxEvents |-> 0, duration |-> 2, interval |-> FALSE],
     [iterations |-> 0, maxEvents |-> 0, duration |-> 0, interval |-> FALSE]}

CONSTANT NoLine     \* no entry in _order_lines

ASSUME NoLineAssumption == NoLine \notin [order : FlowIds, amount : Nat]

Guard == INSTANCE Guardrails WITH
    Customers <- FlowIds, Orders <- FlowIds, Items <- FlowIds,
    Strict <- FALSE, Tolerance <- 0

VARIABLE memory     \* the guardrails of the transformer

mcVars == <<vars, memory>>

Event(source, f) ==
    [shape |-> "event", table |-> source, op |-> "c", id |-> f.id, pos |-> f.id,
     before |-> FALSE, after |-> TRUE, damage |-> [c \in {} |-> "ok"],
     order |-> f.id, customer |-> f.id, status |-> f.status, amount |-> f.amount]

MCInit == Init /\ memory = Guard!EmptyMemory

Generates == Next /\ UNCHANGED memory

\* The line of an order is read and written.  The lines of different orders may
\* be on different partitions, hence in any order, and a line whose commit failed
\* or was lost in a rebalance is delivered again.
ReadLine ==
    /\ \E f \in stored["order_items"] :
          memory' = Guard!Observe(memory, Event("order_items", f))
    /\ UNCHANGED vars

\* The transformer forgets what it has read, and reads on behind it.
RestartTransformer ==
    /\ memory' = Guard!EmptyMemory
    /\ UNCHANGED vars

MCNext == Generates \/ ReadLine \/ RestartTransformer

MCSpec == MCInit /\ [][MCNext]_mcVars

MCFairSpec == MCSpec /\ Fairness

-----------------------------------------------------------------------------

\* In the deferred mode no payment of the generator is ever refused, whichever
\* order lines have been read by then, however often, and whatever a restart has
\* made the guardrails forget: orders have one line, and the payment is for its
\* amount.
PaymentsAdmitted ==
    \A f \in stored["payments"] : Guard!Admits(memory, Event("payments", f))
=============================================================================
