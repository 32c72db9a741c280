----------------------------- MODULE MCDashboard -----------------------------
(***************************************************************************)
(* Dashboard for TLC: four scenarios, each with rows, requests and bounds  *)
(* of its own, and the properties, which compare reports with the books    *)
(* themselves, kept in cents.                                              *)
(***************************************************************************)
EXTENDS Dashboard, TLC

LOCAL INSTANCE SequencesExt

Undamaged == [c \in {} |-> "ok"]

Fact(source, id, order, status, amount, day, ts) ==
    [shape |-> "event", table |-> source, op |-> "c", id |-> id, pos |-> 1,
     before |-> FALSE, after |-> TRUE, damage |-> Undamaged, order |-> order,
     customer |-> "c1", status |-> status, quantity |-> 1, amount |-> amount, day |-> day,
     ts |-> ts]

LineFact(id, order, amount, day) == Fact("order_items", id, order, "none", amount, day, 0)
PaymentFact(id, order, status, amount, day) ==
    Fact("payments", id, order, status, amount, day, 0)
RefundFact(id, amount, day) == Fact("refunds", id, "none", "none", amount, day, 0)

\* Order o1 is overpaid for a while, or for good, or by no more than is rounded
\* up to a tenth; o2 is not paid at all.  In the last stream a payment has a
\* method nobody knows.
GateStreams ==
    {<<LineFact("i1", "o1", 100, 1), LineFact("i2", "o2", 100, 1),
       PaymentFact("p1", "o1", "captured", 200, 1), LineFact("i3", "o1", 100, 1)>>,
     <<LineFact("i2", "o2", 100, 1), PaymentFact("p1", "o1", "captured", 200, 1),
       LineFact("i1", "o1", 100, 1)>>,
     <<LineFact("i2", "o2", 100, 1), LineFact("i1", "o1", 103, 1),
       PaymentFact("p1", "o1", "captured", 108, 1)>>,
     <<LineFact("i1", "o1", 100, 1),
       [PaymentFact("p1", "o1", "captured", 50, 1) EXCEPT
            !.damage = [c \in {"payment_method"} |-> "garbage"]]>>}

\* Rows of four successive times, with a pause in between.
FreshStreams ==
    {<<LineFact("i1", "o1", 100, 1), Fact("support_tickets", "t1", "o1", "open", 0, 1, 1),
       Fact("refunds", "f1", "o1", "none", 0, 1, 4)>>}

PageStreams == {<<PaymentFact("p1", "o1", "captured", 100, 1)>>}

\* Lines, payments and refunds of two orders on two days, some of odd cents.
Books ==
    <<LineFact("i1", "o1", 100, 1), LineFact("i2", "o1", 50, 2),
      LineFact("i3", "o2", 200, 1), LineFact("i4", "o2", 7, 2),
      PaymentFact("p1", "o1", "captured", 100, 1),
      PaymentFact("p2", "o1", "captured", 50, 2),
      PaymentFact("p3", "o2", "failed", 200, 1),
      PaymentFact("p4", "o2", "captured", 196, 2),
      PaymentFact("p5", "o2", "captured", 200, 2),
      RefundFact("f1", 50, 1), RefundFact("f2", 100, 2)>>

\* Any six of them, written one after the other.
BookStreams ==
    {SelectSeq(Books, LAMBDA row : row \in rows) : rows \in kSubset(6, ToSet(Books))}

Scenarios ==
    [gate |-> [streams |-> GateStreams, requests |-> Gates, time |-> 0, dlq |-> 1, faults |-> 2],
     fresh |-> [streams |-> FreshStreams, requests |-> Gates, time |-> 4, dlq |-> 0, faults |-> 0],
     page |-> [streams |-> PageStreams, requests |-> Loads, time |-> 0, dlq |-> 0, faults |-> 1],
     books |-> [streams |-> BookStreams, requests |-> {}, time |-> 0, dlq |-> 0, faults |-> 0]]

AllStreams == UNION {Scenarios[s].streams : s \in DOMAIN Scenarios}

\* The damage in these rows is of a kind the audit knows.
ASSUME DamageShows ==
    \A s \in AllStreams : \A i \in 1 .. Len(s) : s[i].damage # Undamaged => Defective(s[i])

\* What the proofs ask of the rows holds of these.
ASSUME OnePayer == OneCustomerPerOrder

VARIABLE scenario

mcVars == <<vars, scenario>>

MCInit == scenario \in DOMAIN Scenarios /\ Init /\ stream \in Scenarios[scenario].streams

\* The requests and the bounds of the scenario.
InScenario ==
    LET bounds == Scenarios[scenario]
    IN  /\ \A r \in Requests \ bounds.requests : step'[r] = "idle"
        /\ now' <= bounds.time /\ telemetry'.topic <= bounds.dlq /\ faults' <= bounds.faults
        /\ UNCHANGED scenario

\* The transformer gets its rows written, the timer of the page goes on firing
\* and every request is answered: urlopen and fetch give up in the end.
MCFairness ==
    /\ WF_mcVars(WriteFact /\ InScenario)
    /\ \A r \in Loads :
        /\ WF_mcVars(LoadDashboard(r) /\ InScenario)
        /\ WF_mcVars((QueryReturns(r) \/ ProbeReturns(r)) /\ InScenario)
        /\ WF_mcVars((Render(r) \/ RenderError(r)) /\ InScenario)

MCSpec == MCInit /\ [][Next /\ InScenario]_mcVars /\ MCFairness

-----------------------------------------------------------------------------

\* Once writing stops the page comes to show all of it and stays with it,
\* although requests overlap and are answered out of order.
PageCatchesUp ==
    LET all == LET at == ResultsAt(Len(stream))
               IN  Summary(at.revenue, at.payments, at.support, at.orderCash)
        shown == /\ page.panels # NoAnswer /\ page.panels.summary = all
                 /\ page.chart # NoAnswer /\ page.chart.summary = all
    IN  <>[](scenario = "page" => shown)
=============================================================================
