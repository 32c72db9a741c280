-------------------------- MODULE GeneratorProofs --------------------------
(***************************************************************************)
(* Proofs about Generator: whatever flows break off between whatever       *)
(* inserts, ids stay unique, references hold, refunds are covered, and the *)
(* transformer that reads along refuses no payment.                        *)
(***************************************************************************)
EXTENDS MCGenerator, TLAPS

Stored(f, tables) == \A t \in tables : f \in stored[t]

\* The flow in hand is a flow with the last id, and rows of that id are its own.
FlowOK ==
    pc \in Tables =>
        /\ flow \in Flows
        /\ flow.id = lastId
        /\ \A t \in Tables : \A g \in stored[t] : g.id = flow.id => g = flow

Typed == TypeOK /\ FlowOK

\* What the row to be inserted refers to has been inserted.
Prepared ==
    /\ pc = "orders" => flow \in stored["customers"]
    /\ pc = "order_items" => Stored(flow, {"customers", "orders"})
    /\ pc = "invoices" => Stored(flow, {"customers", "orders", "order_items"})
    /\ pc = "payments" => Stored(flow, {"customers", "invoices"})
    /\ pc = "refunds" => Stored(flow, {"customers", "payments"}) /\ flow.refund # 0
    /\ pc = "support_tickets" => flow \in stored["customers"]
    /\ pc = "stock_movements" => flow \in stored["products"]

Linked == References /\ Prepared

\* A refund, where there is one, is of a captured payment and covered by it.
Covered(f) == f.refund # 0 => f.status = "captured" /\ f.refund <= f.amount

Paid ==
    /\ pc \in Tables => Covered(flow)
    /\ \A f \in stored["refunds"] : f.refund # 0 /\ Covered(f)

-----------------------------------------------------------------------------

LEMMA RefundIsCovered ==
    ASSUME NEW q \in Quantities, NEW p \in Prices, NEW part \in {2, 3, 4}
    PROVE  /\ q * p \in Nat
           /\ RefundOf(q * p, part) \in Nat
           /\ RefundOf(q * p, part) <= q * p
<1>1. q \in 1 .. 12 /\ p \in {500, 1250, 2500, 7999, 15000}
  BY GeneratorAssumption DEF GeneratorAssumption
<1>2. q * p \in Nat /\ q * p >= 500
  <2>1. CASE p = 500 BY <1>1, <2>1
  <2>2. CASE p = 1250 BY <1>1, <2>2
  <2>3. CASE p = 2500 BY <1>1, <2>3
  <2>4. CASE p = 7999 BY <1>1, <2>4
  <2>5. CASE p = 15000 BY <1>1, <2>5
  <2>6. QED BY <1>1, <2>1, <2>2, <2>3, <2>4, <2>5
<1>3. ASSUME NEW a \in Nat, a >= 500
      PROVE  RefundOf(a, part) \in Nat /\ RefundOf(a, part) <= a
  <2>1. CASE part = 2 BY <1>3, <2>1 DEF RefundOf
  <2>2. CASE part = 3 BY <1>3, <2>2 DEF RefundOf
  <2>3. CASE part = 4 BY <1>3, <2>3 DEF RefundOf
  <2>4. QED BY <2>1, <2>2, <2>3
<1>4. QED BY <1>2, <1>3

\* Where the code goes on after an insert.
LEMMA FollowingKnown ==
    ASSUME NEW t \in Tables
    PROVE  Following(t) \in Tables \cup Loop
BY DEF Following, EndOfFlow, Tables, Loop

LEMMA EndIsLoop == EndOfFlow \in {"sleep", "check"} BY DEF EndOfFlow

\* The decisions of run_once make a flow of a new id.
LEMMA NewFlow ==
    ASSUME Typed, RunOnce
    PROVE  /\ flow' \in Flows /\ Covered(flow')
           /\ flow'.id = lastId' /\ lastId' = lastId + 1
           /\ stored' = stored /\ elapsed' = elapsed
           /\ emitted' = emitted + 1 /\ pc' = "customers" /\ options' = options
<1>1. /\ NewId \in FlowIds /\ lastId' = NewId /\ emitted' = emitted + 1
      /\ pc' = "customers" /\ stored' = stored /\ elapsed' = elapsed /\ options' = options
  BY DEF RunOnce
<1>2. PICK q \in Quantities, p \in Prices, status \in {"captured", "failed", "pending"} :
        \E refund \in {0} \cup {RefundOf(q * p, part) : part \in {2, 3, 4}} :
          /\ MayRefund(status, refund, q * p)
          /\ flow' = [id |-> NewId, amount |-> q * p, status |-> status, refund |-> refund]
  BY DEF RunOnce
<1>3. PICK refund \in {0} \cup {RefundOf(q * p, part) : part \in {2, 3, 4}} :
          /\ MayRefund(status, refund, q * p)
          /\ flow' = [id |-> NewId, amount |-> q * p, status |-> status, refund |-> refund]
  BY <1>2
<1>4. q * p \in Nat /\ refund \in Nat /\ refund <= q * p
  <2>1. q * p \in Nat BY RefundIsCovered
  <2>2. CASE refund = 0 BY <2>1, <2>2
  <2>3. CASE refund # 0
    <3>1. PICK part \in {2, 3, 4} : refund = RefundOf(q * p, part) BY <1>3, <2>3
    <3>2. QED BY <2>1, <3>1, RefundIsCovered
  <2>4. QED BY <2>2, <2>3
<1>5. refund # 0 => status = "captured" BY <1>3 DEF MayRefund
<1>6. NewId \in Nat BY <1>1, GeneratorAssumption DEF GeneratorAssumption
<1>7. flow' \in Flows BY <1>1, <1>3, <1>4, <1>6, <1>2 DEF Flows
<1>8. Covered(flow') BY <1>3, <1>4, <1>5 DEF Covered
<1>9. QED BY <1>1, <1>3, <1>7, <1>8 DEF NewId

-----------------------------------------------------------------------------

LEMMA InitTyped == Init => Typed
BY DEF Init, Typed, TypeOK, FlowOK, Tables, Loop

LEMMA CommitTyped ==
    ASSUME Typed, NEW t \in Tables, Commit(t)
    PROVE  Typed'
<1>1. /\ pc = t /\ pc' = Following(t) /\ flow' = flow /\ emitted' = emitted
      /\ elapsed' = elapsed /\ lastId' = lastId /\ options' = options
      /\ stored' = [stored EXCEPT ![t] = @ \cup {flow}]
  BY DEF Commit
<1>2. flow \in Flows /\ flow.id = lastId BY <1>1 DEF Typed, FlowOK
<1>3. stored' \in [Tables -> SUBSET Flows] BY <1>1, <1>2 DEF Typed, TypeOK
<1>4. ASSUME NEW u \in Tables, NEW f \in stored'[u]
      PROVE  f = flow \/ f \in stored[u]
  BY <1>1, <1>4 DEF Typed, TypeOK
<1>5. lastId \in Nat BY DEF Typed, TypeOK
<1>6. \A u \in Tables : \A f \in stored'[u] : f.id <= lastId'
  BY <1>1, <1>2, <1>4, <1>5 DEF Typed, TypeOK
<1>7. \A u \in Tables : \A g \in stored'[u] : g.id = flow.id => g = flow
  BY <1>1, <1>4 DEF Typed, FlowOK
<1>8. \A u \in Tables : \A f, g \in stored'[u] : f.id = g.id => f = g
  BY <1>4, <1>7 DEF Typed, TypeOK
<1>9. pc' \in Loop \cup Tables BY <1>1, FollowingKnown
<1>10. TypeOK' BY <1>1, <1>2, <1>3, <1>5, <1>6, <1>8, <1>9 DEF Typed, TypeOK
<1>11. FlowOK' BY <1>1, <1>2, <1>7 DEF FlowOK
<1>12. QED BY <1>10, <1>11 DEF Typed

LEMMA NextTyped == Typed /\ [Next]_vars => Typed'
<1> SUFFICES ASSUME Typed, [Next]_vars PROVE Typed'
  OBVIOUS
<1>1. ASSUME RunOnce PROVE Typed'
  <2>1. /\ flow' \in Flows /\ flow'.id = lastId' /\ lastId' = lastId + 1
        /\ stored' = stored /\ elapsed' = elapsed /\ emitted' = emitted + 1
        /\ pc' = "customers" /\ options' = options
    BY <1>1, NewFlow
  <2>2. \A t \in Tables : \A f \in stored[t] : f.id \in Nat /\ f.id <= lastId
    <3>1. \A t \in Tables : \A f \in stored[t] : f \in Flows BY DEF Typed, TypeOK
    <3>2. FlowIds \subseteq Nat BY GeneratorAssumption DEF GeneratorAssumption
    <3>3. \A f \in Flows : f.id \in Nat BY <3>2 DEF Flows
    <3>4. QED BY <3>1, <3>3 DEF Typed, TypeOK
  <2>3. lastId \in Nat /\ emitted \in Nat BY DEF Typed, TypeOK
  <2>4. TypeOK' BY <2>1, <2>2, <2>3 DEF Typed, TypeOK, Tables
  <2>5. FlowOK'
    <3>1. \A t \in Tables : \A g \in stored[t] : g.id # lastId + 1 BY <2>2, <2>3
    <3>2. QED BY <2>1, <3>1 DEF FlowOK
  <2>6. QED BY <2>4, <2>5 DEF Typed
<1>2. ASSUME Tick PROVE Typed' BY <1>2 DEF Tick, Typed, TypeOK, FlowOK
<1>3. ASSUME Stop \/ Wake \/ Crash \/ Restart PROVE Typed'
  BY <1>3 DEF Stop, Wake, Crash, Restart, Typed, TypeOK, FlowOK, Loop, Tables
<1>4. ASSUME CommitOrder \/ CommitBilling \/ CommitTicket \/ CommitInventory PROVE Typed'
  <2>1. PICK t \in Tables : Commit(t)
    BY <1>4 DEF CommitOrder, CommitBilling, CommitTicket, CommitInventory, Tables
  <2>2. QED BY <2>1, CommitTyped
<1>5. ASSUME UNCHANGED vars PROVE Typed'
  BY <1>5 DEF vars, Typed, TypeOK, FlowOK
<1>6. QED BY <1>1, <1>2, <1>3, <1>4, <1>5 DEF Next

\* No id is given to two flows, whatever breaks off and restarts: the columns
\* of a row are those of the flow that has its id.
THEOREM TypesHold == Spec => []TypeOK
<1>1. Typed => TypeOK BY DEF Typed
<1>2. QED BY InitTyped, NextTyped, <1>1, PTL DEF Spec

\* The same with what the proofs below need: the rows and the running flow are
\* in their types and no stored id is beyond the last one given out.
THEOREM AlwaysTyped == Spec => []Typed
BY InitTyped, NextTyped, PTL DEF Spec

-----------------------------------------------------------------------------

LEMMA InitLinked == Init => Linked
BY DEF Init, Linked, References, Prepared, Tables

LEMMA CommitLinked ==
    ASSUME Typed, Linked, NEW t \in Tables, Commit(t)
    PROVE  Linked'
<1>1. /\ pc = t /\ pc' = Following(t) /\ flow' = flow
      /\ stored' = [stored EXCEPT ![t] = @ \cup {flow}]
  BY DEF Commit
<1>2. DOMAIN stored = Tables BY DEF Typed, TypeOK
<1>3. /\ \A u \in Tables : u # t => stored'[u] = stored[u]
      /\ stored'[t] = stored[t] \cup {flow}
  BY <1>1, <1>2
<1>4. References'
  BY <1>1, <1>3 DEF Linked, References, Prepared, Stored, Tables
<1>5. Prepared'
  <2> USE <1>1, <1>3 DEF Linked, Prepared, Stored, Tables
  <2>1. CASE t = "customers" BY <2>1 DEF Following
  <2>2. CASE t = "orders" BY <2>2 DEF Following
  <2>3. CASE t = "order_items" BY <2>3 DEF Following
  <2>4. CASE t = "invoices" BY <2>4 DEF Following
  <2>5. CASE t = "payments" BY <2>5 DEF Following
  <2>6. CASE t = "refunds" BY <2>6 DEF Following
  <2>7. CASE t = "support_tickets" BY <2>7, EndIsLoop DEF Following
  <2>8. CASE t = "products" BY <2>8 DEF Following
  <2>9. CASE t = "stock_movements" BY <2>9, EndIsLoop DEF Following
  <2>10. QED BY <2>1, <2>2, <2>3, <2>4, <2>5, <2>6, <2>7, <2>8, <2>9
<1>6. QED BY <1>4, <1>5 DEF Linked

LEMMA NextLinked == Typed /\ Linked /\ [Next]_vars => Linked'
<1> SUFFICES ASSUME Typed, Linked, [Next]_vars PROVE Linked'
  OBVIOUS
<1>1. ASSUME CommitOrder \/ CommitBilling \/ CommitTicket \/ CommitInventory PROVE Linked'
  <2>1. PICK t \in Tables : Commit(t)
    BY <1>1 DEF CommitOrder, CommitBilling, CommitTicket, CommitInventory, Tables
  <2>2. QED BY <2>1, CommitLinked
<1>2. ASSUME Tick \/ UNCHANGED vars PROVE Linked'
  BY <1>2 DEF Tick, vars, Linked, References, Prepared, Stored
<1>3. ASSUME Stop \/ Wake \/ Crash \/ Restart \/ RunOnce PROVE Linked'
  <2>1. stored' = stored /\ pc' \in {"done", "check", "dead", "customers"}
    BY <1>3 DEF Stop, Wake, Crash, Restart, RunOnce
  <2>2. QED BY <2>1 DEF Linked, References, Prepared
<1>4. QED BY <1>1, <1>2, <1>3 DEF Next

\* What a row refers to is stored, in whichever database, however many flows
\* broke off.
THEOREM ReferencesHold == Spec => []References
<1>1. Linked => References BY DEF Linked
<1>2. QED BY AlwaysTyped, InitLinked, NextLinked, <1>1, PTL DEF Spec

-----------------------------------------------------------------------------

LEMMA InitPaid == Init => Paid
BY DEF Init, Paid, Tables

LEMMA NextPaid == Typed /\ Linked /\ Paid /\ [Next]_vars => Paid'
<1> SUFFICES ASSUME Typed, Linked, Paid, [Next]_vars PROVE Paid'
  OBVIOUS
<1>1. ASSUME RunOnce PROVE Paid'
  <2>1. Covered(flow') /\ stored' = stored BY <1>1, NewFlow
  <2>2. QED BY <2>1 DEF Paid, Covered
<1>2. ASSUME NEW t \in Tables, Commit(t) PROVE Paid'
  <2>1. /\ pc = t /\ flow' = flow
        /\ stored' = [stored EXCEPT ![t] = @ \cup {flow}]
    BY <1>2 DEF Commit
  <2>2. DOMAIN stored = Tables BY DEF Typed, TypeOK
  <2>3. Covered(flow) BY <2>1 DEF Paid
  <2>4. \A f \in stored'["refunds"] : f.refund # 0 /\ Covered(f)
    <3>1. CASE t = "refunds"
      <4>1. flow.refund # 0 BY <2>1, <3>1 DEF Linked, Prepared
      <4>2. stored'["refunds"] = stored["refunds"] \cup {flow} BY <2>1, <2>2, <3>1 DEF Tables
      <4>3. QED BY <2>3, <4>1, <4>2 DEF Paid
    <3>2. CASE t # "refunds"
      <4>1. stored'["refunds"] = stored["refunds"] BY <2>1, <2>2, <3>2 DEF Tables
      <4>2. QED BY <4>1 DEF Paid
    <3>3. QED BY <3>1, <3>2
  <2>5. QED BY <2>1, <2>3, <2>4 DEF Paid, Covered
<1>3. ASSUME CommitOrder \/ CommitBilling \/ CommitTicket \/ CommitInventory PROVE Paid'
  <2>1. PICK t \in Tables : Commit(t)
    BY <1>3 DEF CommitOrder, CommitBilling, CommitTicket, CommitInventory, Tables
  <2>2. QED BY <2>1, <1>2
<1>4. ASSUME Tick \/ UNCHANGED vars PROVE Paid'
  BY <1>4 DEF Tick, vars, Paid, Covered
<1>5. ASSUME Stop \/ Wake \/ Crash \/ Restart PROVE Paid'
  <2>1. stored' = stored /\ pc' \in {"done", "check", "dead"}
    BY <1>5 DEF Stop, Wake, Crash, Restart
  <2>2. QED BY <2>1 DEF Paid, Covered, Tables
<1>6. QED BY <1>1, <1>3, <1>4, <1>5 DEF Next

\* Only captured payments are refunded, and never beyond their amount, for
\* every quantity and price the generator draws from.
THEOREM RefundsAreCovered == Spec => []RefundsCovered
<1>1. Typed /\ Paid => RefundsCovered
  <2> SUFFICES ASSUME Typed, Paid, NEW f \in stored["refunds"]
               PROVE  f.status = "captured" /\ 0 < f.refund /\ f.refund <= f.amount
    BY DEF RefundsCovered
  <2>1. f.refund \in Nat BY DEF Typed, TypeOK, Tables, Flows
  <2>2. QED BY <2>1 DEF Paid, Covered
<1>2. Spec => [](Typed /\ Linked)
  BY AlwaysTyped, InitLinked, NextLinked, PTL DEF Spec
<1>3. QED BY <1>2, InitPaid, NextPaid, <1>1, PTL DEF Spec

-----------------------------------------------------------------------------
(* The transformer that reads along *)

\* The line f of an order, as the guardrails remember it.
LineOf(f) == [order |-> f.id, amount |-> f.amount]

\* The total of an order is that of its one line, if it has been read; an order
\* nothing has been read of is not known.
OrderOK(mem, lines, o) ==
    IF mem.lines[o] = NoLine
    THEN mem.totals[o] = 0 /\ o \notin mem.known
    ELSE \E f \in lines : /\ f.id = o /\ mem.lines[o] = LineOf(f)
                           /\ mem.totals[o] = f.amount

MemoryOK(mem, lines) ==
    /\ mem.totals \in [FlowIds -> Int]
    /\ mem.lines \in [FlowIds -> [order : FlowIds, amount : Nat] \cup {NoLine}]
    /\ \A o \in FlowIds : OrderOK(mem, lines, o)

LEMMA FlowFacts ==
    ASSUME Typed, NEW t \in Tables, NEW f \in stored[t]
    PROVE  f.id \in FlowIds /\ f.amount \in Nat
BY DEF Typed, TypeOK, Flows

LEMMA FreshMemory == ASSUME NEW lines PROVE MemoryOK(Guard!EmptyMemory, lines)
<1>1. ASSUME NEW o \in FlowIds PROVE OrderOK(Guard!EmptyMemory, lines, o)
  BY DEF Guard!EmptyMemory, OrderOK
<1>. QED  BY <1>1 DEF Guard!EmptyMemory, MemoryOK

\* More lines on the topic take nothing from the memory.
LEMMA MemoryStays ==
    ASSUME NEW lines, NEW more, lines \subseteq more, MemoryOK(memory, lines)
    PROVE  MemoryOK(memory, more)
BY DEF MemoryOK, OrderOK

\* A line read once enters its order's total; read again, it is taken out first.
LEMMA LineObserved ==
    ASSUME Typed, NEW mem, MemoryOK(mem, stored["order_items"]), NEW f \in stored["order_items"]
    PROVE  MemoryOK(Guard!Observe(mem, Event("order_items", f)), stored["order_items"])
<1> DEFINE lines == stored["order_items"]
           o == f.id
           next == Guard!ObserveLine(mem, Event("order_items", f))
<1>1. f.id \in FlowIds /\ f.amount \in Nat
  BY FlowFacts DEF Tables
<1>2. Guard!Observe(mem, Event("order_items", f)) = next
  BY DEF Guard!Observe, Event
<1>3. /\ next.totals = [Guard!Withdrawn(mem, o) EXCEPT ![o] = @ + f.amount]
      /\ next.lines = [mem.lines EXCEPT ![o] = LineOf(f)]
      /\ next.known = mem.known \cup {o}
  BY DEF Guard!ObserveLine, Event, LineOf
<1>4. LineOf(f) \in [order : FlowIds, amount : Nat] /\ LineOf(f) # NoLine
  BY <1>1, NoLineAssumption DEF LineOf
<1>5. /\ Guard!Withdrawn(mem, o) \in [FlowIds -> Int]
      /\ Guard!Withdrawn(mem, o)[o] = 0
      /\ \A p \in FlowIds : p # o => Guard!Withdrawn(mem, o)[p] = mem.totals[p]
  <2>1. CASE mem.lines[o] = NoLine
    BY <1>1, <2>1 DEF Guard!Withdrawn, MemoryOK, OrderOK
  <2>2. CASE mem.lines[o] # NoLine
    <3>1. PICK g \in lines : g.id = o /\ mem.lines[o] = LineOf(g) /\ mem.totals[o] = g.amount
      BY <1>1, <2>2 DEF MemoryOK, OrderOK
    <3>2. g.amount \in Nat
      BY <3>1, FlowFacts DEF Tables
    <3>3. Guard!Withdrawn(mem, o) = [mem.totals EXCEPT ![o] = @ - g.amount]
      BY <2>2, <3>1 DEF Guard!Withdrawn, LineOf
    <3>4. mem.totals \in [FlowIds -> Int]
      BY DEF MemoryOK
    <3>. QED  BY <1>1, <3>1, <3>2, <3>3, <3>4
  <2>. QED  BY <2>1, <2>2
<1> HIDE DEF next
<1>6. next.totals \in [FlowIds -> Int] /\ next.totals[o] = f.amount
  BY <1>1, <1>3, <1>5
<1>7. next.lines \in [FlowIds -> [order : FlowIds, amount : Nat] \cup {NoLine}]
  BY <1>1, <1>3, <1>4 DEF MemoryOK
<1>8. ASSUME NEW p \in FlowIds PROVE OrderOK(next, lines, p)
  <2>1. CASE p = o
    <3>1. next.lines[p] = LineOf(f)
      BY <1>1, <1>3, <2>1 DEF MemoryOK
    <3>. QED  BY <1>4, <1>6, <2>1, <3>1 DEF OrderOK
  <2>2. CASE p # o
    <3>1. next.lines[p] = mem.lines[p] /\ next.totals[p] = mem.totals[p]
      BY <1>1, <1>3, <1>5, <2>2 DEF MemoryOK
    <3>2. p \in next.known => p \in mem.known
      BY <1>3, <2>2
    <3>. QED  BY <3>1, <3>2 DEF MemoryOK, OrderOK
  <2>. QED  BY <2>1, <2>2
<1>. QED  BY <1>2, <1>6, <1>7, <1>8 DEF MemoryOK

\* What is inserted stays.
LEMMA LinesStay ==
    ASSUME Typed, [Next]_vars
    PROVE  stored["order_items"] \subseteq stored'["order_items"]
<1>1. ASSUME NEW t \in Tables, Commit(t)
      PROVE  stored["order_items"] \subseteq stored'["order_items"]
  BY <1>1 DEF Commit, Typed, TypeOK, Tables
<1>2. CASE CommitOrder \/ CommitBilling \/ CommitTicket \/ CommitInventory
  <2>1. \E t \in Tables : Commit(t)
    BY <1>2 DEF CommitOrder, CommitBilling, CommitTicket, CommitInventory, Tables
  <2>. QED  BY <1>1, <2>1
<1>. QED  BY <1>2 DEF Next, Tick, Stop, RunOnce, Wake, Crash, Restart, vars

\* The generator's part of the composition is Generator's.
LEMMA GeneratorSteps == [MCNext]_mcVars => [Next]_vars
BY DEF MCNext, Generates, ReadLine, RestartTransformer, mcVars

LEMMA MemoryStep ==
    Typed /\ MemoryOK(memory, stored["order_items"]) /\ [MCNext]_mcVars
        => MemoryOK(memory, stored["order_items"])'
<1> SUFFICES ASSUME Typed, MemoryOK(memory, stored["order_items"]), [MCNext]_mcVars
             PROVE  MemoryOK(memory', stored'["order_items"])
  BY DEF MemoryOK, OrderOK
<1>1. CASE Generates \/ UNCHANGED mcVars
  <2>1. memory' = memory /\ [Next]_vars
    BY <1>1 DEF Generates, mcVars
  <2>. QED  BY <2>1, LinesStay, MemoryStays
<1>2. CASE ReadLine
  <2>1. stored' = stored
    BY <1>2 DEF ReadLine, vars
  <2>. QED  BY <1>2, <2>1, LineObserved DEF ReadLine
<1>3. CASE RestartTransformer
  BY <1>3, FreshMemory DEF RestartTransformer
<1>. QED  BY <1>1, <1>2, <1>3 DEF MCNext

\* A transformer in deferred mode, without any tolerance, admits every payment
\* of the generator, whichever order lines it has read before, in whatever order
\* and however often, and whatever it has forgotten: what it knows of an order is
\* its one line, whose amount is the payment's.
THEOREM PaymentsAlwaysAdmitted == MCSpec => []PaymentsAdmitted
<1>1. MCInit => Typed /\ Linked /\ MemoryOK(memory, stored["order_items"])
  BY InitTyped, InitLinked, FreshMemory DEF MCInit
<1>2. Typed /\ Linked /\ MemoryOK(memory, stored["order_items"]) => PaymentsAdmitted
  <2> SUFFICES ASSUME Typed, Linked, MemoryOK(memory, stored["order_items"]),
                      NEW f \in stored["payments"]
               PROVE  Guard!Admits(memory, Event("payments", f))
    BY DEF PaymentsAdmitted
  <2>1. f \in stored["order_items"]
    BY DEF Linked, References
  <2>2. f.id \in FlowIds /\ f.amount \in Nat
    BY FlowFacts DEF Tables
  <2>3. f.id \in memory.known => memory.totals[f.id] = f.amount
    <3>1. SUFFICES ASSUME f.id \in memory.known PROVE memory.totals[f.id] = f.amount
      OBVIOUS
    <3>2. PICK g \in stored["order_items"] : g.id = f.id /\ memory.totals[f.id] = g.amount
      BY <2>2, <3>1 DEF MemoryOK, OrderOK
    <3>3. g = f
      BY <2>1, <3>2 DEF Typed, TypeOK, Tables
    <3>. QED  BY <3>2, <3>3
  <2>4. ~Guard!Overpays(memory, Event("payments", f))
    BY <2>2, <2>3 DEF Guard!Overpays, Event
  <2>. QED  BY <2>4 DEF Guard!Admits, Guard!PaymentIssues, Guard!UnknownReferences
<1>. QED  BY <1>1, <1>2, MemoryStep, NextTyped, NextLinked, GeneratorSteps, PTL DEF MCSpec
=============================================================================
