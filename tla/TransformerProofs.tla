-------------------------- MODULE TransformerProofs --------------------------
(***************************************************************************)
(* Proofs about Transformer for any topics, workers and faults: types,     *)
(* that the committed offset covers settled messages only, that the        *)
(* transformer implements Delivery, what is in Cassandra, and what the     *)
(* guardrails remember of it.                                              *)
(*                                                                         *)
(* Then what adds up or relies on order.  For a finite group: counters and *)
(* totals.  For a single worker: committed offsets and versions of         *)
(* dimension rows only move forward, and captured payments are covered by  *)
(* the lines in Cassandra, whatever crashes, is redelivered or fails       *)
(* half-way.                                                               *)
(***************************************************************************)
EXTENDS Transformer, Sums

\* The message a worker holds fits the call it is about to make.
InflightOK ==
    \A w \in Workers :
        /\ pc[w] \in {"poll", "down"} => inflight[w] = None
        /\ pc[w] \notin {"poll", "down"} => inflight[w] \in Messages
        /\ pc[w] = "write" => inflight[w] \in RowMessages
        /\ pc[w] \in {"publish", "dlq_commit"} => error[w] \in Errors

TypeInv == TypeOK /\ InflightOK

-----------------------------------------------------------------------------

\* A message is a partition and an offset within its log.
LEMMA MessageFacts ==
    ASSUME NEW m \in Messages
    PROVE  /\ m[1] \in Partitions
           /\ m[2] \in Nat
           /\ m[2] < Len(Log[m[1]])
           /\ m = <<m[1], m[2]>>
  BY TransformerAssumption DEF Messages

\* Every offset within the log of a partition is that of a message.
LEMMA OffsetIsMessage ==
    ASSUME NEW p \in Partitions, NEW o \in Nat, o < Len(Log[p])
    PROVE  <<p, o>> \in Messages
  BY TransformerAssumption DEF Messages

\* Observing the row of a message keeps the guardrails well-formed.
LEMMA ObserveType ==
    ASSUME NEW mem \in Memory, NEW m \in RowMessages
    PROVE  Observe(mem, At(m)) \in Memory
<1> DEFINE r == At(m)
<1>1. CASE r.table = "customers" /\ r.op # "d"
  <2>1. r.id \in Customers
    BY <1>1, TransformerAssumption DEF LogAssumption
  <2>2. Observe(mem, r) = [mem EXCEPT !.customers = @ \cup {r.id}]
    BY <1>1 DEF Observe
  <2>. QED  BY <2>1, <2>2 DEF Memory
<1>2. CASE r.table = "order_items"
  <2>1. /\ r.id \in Items
        /\ r.order \in Orders
        /\ r.customer \in Customers
        /\ r.amount \in Nat
    BY <1>2, TransformerAssumption DEF LogAssumption
  <2>2. Withdrawn(mem, r.id) \in [Orders -> Int]
    <3>1. CASE mem.lines[r.id] = NoLine
      BY <3>1 DEF Withdrawn, Memory
    <3>2. CASE mem.lines[r.id] # NoLine
      <4>1. mem.lines[r.id] \in Line
        BY <2>1, <3>2 DEF Memory
      <4>. QED  BY <3>2, <4>1 DEF Withdrawn, Memory, Line
    <3>. QED  BY <3>1, <3>2
  <2>3. [Withdrawn(mem, r.id) EXCEPT ![r.order] = @ + r.amount] \in [Orders -> Int]
    BY <2>1, <2>2
  <2>4. ObserveLine(mem, r) \in Memory
    BY <2>1, <2>3 DEF ObserveLine, Memory, Line
  <2>5. Observe(mem, r) = ObserveLine(mem, r)
    BY <1>2 DEF Observe
  <2>. QED  BY <2>4, <2>5
<1>3. CASE ~(r.table = "customers" /\ r.op # "d") /\ r.table # "order_items"
  BY <1>3 DEF Observe
<1>. QED  BY <1>1, <1>2, <1>3

\* The exception caught before the write is an error or nothing.
LEMMA ObjectionType ==
    ASSUME NEW mem, NEW m
    PROVE  Objection(mem, m) \in Errors \cup {None}
  BY DEF Objection, Errors

LEMMA EmptyMemoryType == EmptyMemory \in Memory
  BY DEF EmptyMemory, Memory

-----------------------------------------------------------------------------
(* Type correctness *)

LEMMA InitType == Init => TypeInv
  BY EmptyMemoryType, TransformerAssumption
  DEF Init, TypeInv, TypeOK, InflightOK, Calls, Counters, NoCounts

\* The end of a process leaves everything well-typed and nothing in flight.
LEMMA DiesType ==
    ASSUME TypeInv, NEW w \in Workers, Dies(w), faults' \in Nat,
           UNCHANGED <<committed, position, dlq, dlqLost, table, written>>
    PROVE  TypeInv'
<1>1. TypeOK'
  BY EmptyMemoryType DEF TypeInv, TypeOK, Dies, Calls, Counters, NoCounts
<1>2. InflightOK'
  BY DEF TypeInv, TypeOK, InflightOK, Dies
<1>. QED  BY <1>1, <1>2 DEF TypeInv

LEMMA FaultType == ASSUME TypeOK, NEW k, Fault(k) PROVE faults' \in Nat
  BY DEF TypeOK, Fault

LEMMA CommitRejectedType ==
    ASSUME TypeOK, NEW w \in Workers, CommitRejected(w) PROVE faults' \in Nat
  BY FaultType DEF TypeOK, CommitRejected

\* A commit of the message in flight stays within the log.
LEMMA CommitInflightType ==
    ASSUME TypeInv, NEW w \in Workers, pc[w] \notin {"poll", "down"}, CommitInflight(w)
    PROVE  /\ committed' \in [Partitions -> Nat]
           /\ \A p \in Partitions : committed'[p] <= Len(Log[p])
<1> DEFINE m == inflight[w]
<1>1. m \in Messages
  BY DEF TypeInv, InflightOK
<1>2. /\ m[1] \in Partitions
      /\ m[2] \in Nat
      /\ m[2] < Len(Log[m[1]])
  BY <1>1, MessageFacts
<1>3. committed' = [committed EXCEPT ![m[1]] = m[2] + 1]
  BY DEF CommitInflight, CommitOffset
<1>4. m[2] + 1 \in Nat /\ m[2] + 1 <= Len(Log[m[1]])
  BY <1>2, TransformerAssumption
<1>. HIDE DEF m
<1>. QED  BY <1>2, <1>3, <1>4 DEF TypeInv, TypeOK

LEMMA AssignType ==
    ASSUME TypeInv, NEW p \in Partitions, NEW w \in Workers, Assign(p, w), faults' \in Nat
    PROVE  TypeInv'
<1>1. TypeOK'
  BY DEF TypeInv, TypeOK, Assign, storeVars, workerVars
<1>2. InflightOK'
  BY DEF TypeInv, TypeOK, InflightOK, Assign, storeVars, workerVars
<1>. QED  BY <1>1, <1>2 DEF TypeInv

LEMMA PollType ==
    ASSUME TypeInv, NEW w \in Workers, Poll(w) PROVE TypeInv'
<1>1. PICK p \in Partitions :
        /\ owner[p] = w
        /\ position[p] < Len(Log[p])
        /\ LET m == <<p, position[p]>>
               objection == Objection(memory[w], At(m))
           IN  /\ inflight' = [inflight EXCEPT ![w] = m]
               /\ position' = [position EXCEPT ![p] = @ + 1]
               /\ error' = [error EXCEPT ![w] = objection]
               /\ pc' = [pc EXCEPT ![w] =
                            IF objection # None THEN "publish"
                            ELSE IF m \in RowMessages THEN "write" ELSE "commit"]
               /\ written' = IF objection = None /\ ~m \in RowMessages
                             THEN written \cup {m} ELSE written
  BY DEF Poll
<1> DEFINE m == <<p, position[p]>>
           objection == Objection(memory[w], At(m))
<1>2. m \in Messages
  BY <1>1, OffsetIsMessage DEF TypeInv, TypeOK
<1>3. objection \in Errors \cup {None}
  BY ObjectionType
<1>4. position[p] + 1 \in Nat /\ position[p] + 1 <= Len(Log[p])
  BY <1>1, TransformerAssumption DEF TypeInv, TypeOK
<1>5. /\ inflight' = [inflight EXCEPT ![w] = m]
      /\ position' = [position EXCEPT ![p] = position[p] + 1]
      /\ error' = [error EXCEPT ![w] = objection]
      /\ pc' = [pc EXCEPT ![w] =
                  IF objection # None THEN "publish"
                  ELSE IF m \in RowMessages THEN "write" ELSE "commit"]
      /\ written' \in {written, written \cup {m}}
      /\ UNCHANGED <<committed, owner, dlq, dlqLost, table, memory, metrics, faults>>
  BY <1>1 DEF Poll
<1>. HIDE DEF m, objection
<1>6. TypeOK'
  BY <1>2, <1>3, <1>4, <1>5 DEF TypeInv, TypeOK, Calls
<1>7. InflightOK'
  BY <1>2, <1>3, <1>5 DEF TypeInv, TypeOK, InflightOK
<1>. QED  BY <1>6, <1>7 DEF TypeInv

\* The row of a message reaches Cassandra.
LEMMA UpsertType ==
    ASSUME TypeOK, NEW m \in RowMessages, Upsert(m)
    PROVE  table' \in [RowKeys -> Messages \cup {None}] /\ written' \subseteq Messages
<1>1. m \in Messages /\ RowKey(At(m)) \in RowKeys
  BY DEF RowMessages, RowKeys
<1>. QED  BY <1>1 DEF Upsert, TypeOK

LEMMA WriteSucceedsType ==
    ASSUME TypeInv, NEW w \in Workers, WriteSucceeds(w) PROVE TypeInv'
<1>1. inflight[w] \in RowMessages /\ Upsert(inflight[w])
  BY DEF TypeInv, InflightOK, WriteSucceeds
<1>2. Observe(memory[w], At(inflight[w])) \in Memory
  BY <1>1, ObserveType DEF TypeInv, TypeOK
<1>3. memory' \in [Workers -> Memory]
  BY <1>2 DEF TypeInv, TypeOK, WriteSucceeds
<1>4. TypeOK'
  BY <1>1, <1>3, UpsertType DEF TypeInv, TypeOK, WriteSucceeds, brokerVars, Calls
<1>5. InflightOK'
  BY DEF TypeInv, TypeOK, InflightOK, WriteSucceeds
<1>. QED  BY <1>4, <1>5 DEF TypeInv

LEMMA WriteRaisesType ==
    ASSUME TypeInv, NEW w \in Workers, WriteRaises(w) PROVE TypeInv'
<1>1. inflight[w] \in RowMessages
  BY DEF TypeInv, InflightOK, WriteRaises
<1>2. /\ table' \in [RowKeys -> Messages \cup {None}]
      /\ written' \subseteq Messages
      /\ faults' \in Nat
  BY <1>1, UpsertType, FaultType DEF TypeInv, TypeOK, WriteRaises, storeVars
<1>3. TypeOK'
  BY <1>2 DEF TypeInv, TypeOK, WriteRaises, brokerVars, Calls, Errors
<1>4. InflightOK'
  BY DEF TypeInv, TypeOK, InflightOK, WriteRaises, Errors
<1>. QED  BY <1>3, <1>4 DEF TypeInv

LEMMA CommitSucceedsType ==
    ASSUME TypeInv, NEW w \in Workers, CommitSucceeds(w) PROVE TypeInv'
<1>1. /\ committed' \in [Partitions -> Nat]
      /\ \A p \in Partitions : committed'[p] <= Len(Log[p])
  BY CommitInflightType DEF CommitSucceeds
<1>2. metrics' \in [Workers -> Counters]
  <2>1. metrics \in [Workers -> Counters]
    BY DEF TypeInv, TypeOK
  <2>2. [metrics[w] EXCEPT !.success = @ + 1] \in Counters
    BY <2>1 DEF Counters
  <2>3. metrics' \in {metrics, [metrics EXCEPT ![w] = [metrics[w] EXCEPT !.success = @ + 1]]}
    BY DEF CommitSucceeds
  <2>. QED  BY <2>1, <2>2, <2>3
<1>3. TypeOK'
  BY <1>1, <1>2 DEF TypeInv, TypeOK, CommitSucceeds, Return, storeVars, Calls
<1>4. InflightOK'
  BY DEF TypeInv, TypeOK, InflightOK, CommitSucceeds, Return
<1>. QED  BY <1>3, <1>4 DEF TypeInv

LEMMA DlqCommitSucceedsType ==
    ASSUME TypeInv, NEW w \in Workers, DlqCommitSucceeds(w) PROVE TypeInv'
<1>1. /\ committed' \in [Partitions -> Nat]
      /\ \A p \in Partitions : committed'[p] <= Len(Log[p])
  BY CommitInflightType DEF DlqCommitSucceeds
<1>2. metrics' \in [Workers -> Counters]
  <2>1. metrics \in [Workers -> Counters]
    BY DEF TypeInv, TypeOK
  <2>2. CountFailure(metrics[w], error[w]) \in Counters
    BY <2>1 DEF CountFailure, Counters
  <2>3. metrics' \in {metrics, [metrics EXCEPT ![w] = CountFailure(metrics[w], error[w])]}
    BY DEF DlqCommitSucceeds
  <2>. QED  BY <2>1, <2>2, <2>3
<1>3. TypeOK'
  BY <1>1, <1>2 DEF TypeInv, TypeOK, DlqCommitSucceeds, Return, storeVars, Calls
<1>4. InflightOK'
  BY DEF TypeInv, TypeOK, InflightOK, DlqCommitSucceeds, Return
<1>. QED  BY <1>3, <1>4 DEF TypeInv

LEMMA CommitRaisesType ==
    ASSUME TypeInv, NEW w \in Workers, CommitRaises(w) PROVE TypeInv'
<1>1. faults' \in Nat
  BY CommitRejectedType DEF TypeInv, CommitRaises
<1>2. TypeOK'
  BY <1>1 DEF TypeInv, TypeOK, CommitRaises, brokerVars, storeVars, Calls, Errors
<1>3. InflightOK'
  BY DEF TypeInv, TypeOK, InflightOK, CommitRaises, Errors
<1>. QED  BY <1>2, <1>3 DEF TypeInv

LEMMA PublishType ==
    ASSUME TypeInv, NEW w \in Workers, PublishDelivered(w) \/ PublishLost(w)
    PROVE  TypeInv'
<1>1. inflight[w] \in Messages /\ error[w] \in Errors
  BY DEF TypeInv, InflightOK, PublishDelivered, PublishLost
<1>2. dlq' \in [Messages \X Errors -> Nat]
  <2>1. dlq \in [Messages \X Errors -> Nat]
    BY DEF TypeInv, TypeOK
  <2> DEFINE r == <<inflight[w], error[w]>>
  <2>2. r \in Messages \X Errors
    BY <1>1
  <2>3. dlq' \in {dlq, [dlq EXCEPT ![r] = dlq[r] + 1]}
    BY DEF PublishDelivered, PublishLost
  <2> HIDE DEF r
  <2>4. dlq[r] + 1 \in Nat
    BY <2>1, <2>2
  <2>. QED  BY <2>1, <2>2, <2>3, <2>4
<1>3. dlqLost' \subseteq Messages /\ faults' \in Nat
  BY <1>1, FaultType DEF TypeInv, TypeOK, PublishDelivered, PublishLost
<1>4. TypeOK'
  BY <1>2, <1>3 DEF TypeInv, TypeOK, PublishDelivered, PublishLost, storeVars, Calls
<1>5. InflightOK'
  BY DEF TypeInv, TypeOK, InflightOK, PublishDelivered, PublishLost
<1>. QED  BY <1>4, <1>5 DEF TypeInv

LEMMA RestartType ==
    ASSUME TypeInv, NEW w \in Workers, Restart(w) PROVE TypeInv'
<1>1. TypeOK'
  BY DEF TypeInv, TypeOK, Restart, brokerVars, storeVars, Calls
<1>2. InflightOK'
  BY DEF TypeInv, TypeOK, InflightOK, Restart
<1>. QED  BY <1>1, <1>2 DEF TypeInv

LEMMA StutterType == ASSUME TypeInv, UNCHANGED vars PROVE TypeInv'
  BY DEF TypeInv, TypeOK, InflightOK, vars, brokerVars, storeVars, workerVars

LEMMA NextType == TypeInv /\ [Next]_vars => TypeInv'
<1> SUFFICES ASSUME TypeInv, [Next]_vars PROVE TypeInv'
  OBVIOUS
<1>1. ASSUME NEW w \in Workers, Crash(w) PROVE TypeInv'
  BY <1>1, DiesType, FaultType DEF Crash, TypeInv, storeVars
<1>2. ASSUME NEW w \in Workers, PublishRaises(w) PROVE TypeInv'
  BY <1>2, DiesType, FaultType DEF PublishRaises, TypeInv, storeVars
<1>3. ASSUME NEW w \in Workers, DlqCommitRaises(w) PROVE TypeInv'
  BY <1>3, DiesType, CommitRejectedType DEF DlqCommitRaises, TypeInv, storeVars
<1>4. ASSUME NEW w \in Workers, PollNothing(w) PROVE TypeInv'
  BY <1>4, StutterType DEF PollNothing
<1>5. ASSUME NEW p \in Partitions, NEW w \in Workers, AssignOrphan(p, w) PROVE TypeInv'
  BY <1>5, AssignType DEF AssignOrphan, TypeInv, TypeOK
<1>6. ASSUME NEW p \in Partitions, NEW w \in Workers, Rebalance(p, w) PROVE TypeInv'
  BY <1>6, AssignType, FaultType DEF Rebalance, TypeInv
<1>. QED
  BY <1>1, <1>2, <1>3, <1>4, <1>5, <1>6, RestartType, PollType, WriteSucceedsType,
     WriteRaisesType, CommitSucceedsType, CommitRaisesType, PublishType,
     DlqCommitSucceedsType, StutterType DEF Next

\* Type correctness, with what each worker holds at each call.
THEOREM TypeCorrect == Spec => []TypeInv
  BY InitType, NextType, PTL DEF Spec

\* The variables stay within their types, in particular the committed offset
\* and the fetch position within the log.
THEOREM TypesHold == Spec => []TypeOK
<1>1. TypeInv => TypeOK
  BY DEF TypeInv
<1>. QED  BY <1>1, TypeCorrect, PTL

-----------------------------------------------------------------------------
(* Settled messages stay settled *)

LEMMA SettledMembers ==
    ASSUME TypeOK, NEW m \in Messages
    PROVE  m \in Settled <=> m \in written \/ Published(m) \/ m \in dlqLost
  BY DEF Settled, TypeOK

\* No step takes a message out of Cassandra's history, off the DLQ topic, or
\* out of the lost records.
LEMMA HistoryGrows ==
    ASSUME TypeInv, Next
    PROVE  /\ written \subseteq written'
           /\ dlqLost \subseteq dlqLost'
           /\ \A r \in Messages \X Errors : dlq[r] > 0 => dlq'[r] > 0
<1>1. ASSUME NEW w \in Workers, Poll(w) PROVE written \subseteq written'
  BY <1>1 DEF Poll
<1>2. ASSUME NEW w \in Workers, PublishDelivered(w)
      PROVE  \A r \in Messages \X Errors : dlq[r] > 0 => dlq'[r] > 0
  <2>1. dlq' = [dlq EXCEPT ![<<inflight[w], error[w]>>] = @ + 1]
    BY <1>2 DEF PublishDelivered
  <2>. QED  BY <2>1 DEF TypeInv, TypeOK
<1>. QED
  BY <1>1, <1>2
  DEF Next, Crash, Restart, PollNothing, Poll, WriteSucceeds, WriteRaises, Upsert,
      CommitSucceeds, CommitRaises, PublishDelivered, PublishLost, PublishRaises,
      DlqCommitSucceeds, DlqCommitRaises, AssignOrphan, Rebalance, Assign,
      brokerVars, storeVars, vars

LEMMA SettledGrows == ASSUME TypeInv, TypeInv', Next PROVE Settled \subseteq Settled'
<1> SUFFICES ASSUME NEW m \in Settled PROVE m \in Settled'
  OBVIOUS
<1>1. m \in Messages
  BY DEF TypeInv, TypeOK, Settled
<1>2. Published(m) => Published(m)'
  BY <1>1, HistoryGrows DEF Published
<1>. QED  BY <1>1, <1>2, HistoryGrows DEF Settled

-----------------------------------------------------------------------------
(* The committed offset covers settled messages only *)

\* All messages of p below offset n are settled.
SettledBelow(p, n) == \A o \in 0 .. n - 1 : <<p, o>> \in Settled

\* What a worker is about to commit is settled.
ReadySettled ==
    \A w \in Workers : pc[w] \in {"commit", "dlq_commit"} => inflight[w] \in Settled

\* A worker processes a message only when everything before it is settled.
InOrder ==
    \A w \in Workers : pc[w] \notin {"poll", "down"} =>
        SettledBelow(inflight[w][1], inflight[w][2])

\* Behind the fetch position of an owned partition there are settled messages
\* and the one its owner is processing.
FetchedSettled ==
    \A p \in Partitions : owner[p] # None =>
        \A o \in 0 .. position[p] - 1 :
            <<p, o>> \in Settled \/ inflight[owner[p]] = <<p, o>>

Progress == CommittedSettled /\ ReadySettled /\ InOrder /\ FetchedSettled

LEMMA InitProgress == Init => Progress
  BY TransformerAssumption
  DEF Init, Progress, CommittedSettled, ReadySettled, InOrder, FetchedSettled

\* A worker goes from one call to the next with the same message in hand.
LEMMA CallStep ==
    ASSUME TypeInv, Progress, Settled \subseteq Settled',
           UNCHANGED <<committed, owner, position, inflight>>,
           NEW w \in Workers, pc[w] \notin {"poll", "down"},
           NEW call \in Calls \ {"poll", "down"}, pc' = [pc EXCEPT ![w] = call],
           call \in {"commit", "dlq_commit"} => inflight[w] \in Settled'
    PROVE  Progress'
<1>1. CommittedSettled'
  BY DEF Progress, CommittedSettled
<1>2. ReadySettled'
  BY DEF Progress, ReadySettled, TypeInv, TypeOK
<1>3. InOrder'
  BY DEF Progress, InOrder, SettledBelow, TypeInv, TypeOK
<1>4. FetchedSettled'
  BY DEF Progress, FetchedSettled
<1>. QED  BY <1>1, <1>2, <1>3, <1>4 DEF Progress

\* A worker commits the message in hand and returns to the poll loop.
LEMMA CommitStep ==
    ASSUME TypeInv, Progress, Settled \subseteq Settled',
           UNCHANGED <<owner, position>>,
           NEW w \in Workers, pc[w] \in {"commit", "dlq_commit"},
           CommitInflight(w), Return(w)
    PROVE  Progress'
<1> DEFINE m == inflight[w]
<1>1. m \in Messages /\ m \in Settled /\ SettledBelow(m[1], m[2])
  BY DEF TypeInv, InflightOK, Progress, ReadySettled, InOrder
<1>2. m[1] \in Partitions /\ m[2] \in Nat /\ m = <<m[1], m[2]>>
  BY <1>1, MessageFacts
<1>3. CommittedSettled'
  <2> SUFFICES ASSUME NEW p \in Partitions, NEW o \in 0 .. committed'[p] - 1
               PROVE  <<p, o>> \in Settled'
    BY DEF CommittedSettled
  <2>1. CASE p = m[1]
    <3>1. committed'[p] = m[2] + 1
      BY <1>2, <2>1 DEF CommitInflight, CommitOffset, TypeInv, TypeOK
    <3>2. o \in 0 .. m[2] - 1 \/ o = m[2]
      BY <1>2, <3>1
    <3>. QED  BY <1>1, <1>2, <2>1, <3>2 DEF SettledBelow
  <2>2. CASE p # m[1]
    <3>1. committed'[p] = committed[p]
      BY <2>2 DEF CommitInflight, TypeInv, TypeOK
    <3>. QED  BY <3>1 DEF Progress, CommittedSettled
  <2>. QED  BY <2>1, <2>2
<1>4. ReadySettled'
  BY DEF Progress, ReadySettled, Return, TypeInv, TypeOK
<1>5. InOrder'
  BY DEF Progress, InOrder, SettledBelow, Return, TypeInv, TypeOK
<1>6. FetchedSettled'
  <2> SUFFICES ASSUME NEW p \in Partitions, owner[p] # None, NEW o \in 0 .. position[p] - 1
               PROVE  <<p, o>> \in Settled' \/ inflight'[owner[p]] = <<p, o>>
    BY DEF FetchedSettled
  <2>1. <<p, o>> \in Settled \/ inflight[owner[p]] = <<p, o>>
    BY DEF Progress, FetchedSettled
  <2>2. CASE owner[p] = w
    BY <1>1, <2>1, <2>2
  <2>3. CASE owner[p] # w
    BY <2>1, <2>3 DEF Return, TypeInv, TypeOK
  <2>. QED  BY <2>2, <2>3
<1>. QED  BY <1>3, <1>4, <1>5, <1>6 DEF Progress

\* The end of a process costs nothing that was settled.
LEMMA DiesStep ==
    ASSUME TypeInv, Progress, Settled \subseteq Settled',
           UNCHANGED <<committed, position>>, NEW w \in Workers, Dies(w)
    PROVE  Progress'
<1>1. CommittedSettled'
  BY DEF Progress, CommittedSettled
<1>2. ReadySettled'
  BY DEF Progress, ReadySettled, Dies, TypeInv, TypeOK
<1>3. InOrder'
  BY DEF Progress, InOrder, SettledBelow, Dies, TypeInv, TypeOK
<1>4. FetchedSettled'
  BY DEF Progress, FetchedSettled, Dies, TypeInv, TypeOK
<1>. QED  BY <1>1, <1>2, <1>3, <1>4 DEF Progress

\* A new owner reads on from the committed offset.
LEMMA AssignStep ==
    ASSUME TypeInv, Progress, Settled \subseteq Settled',
           NEW p \in Partitions, NEW w \in Workers, Assign(p, w)
    PROVE  Progress'
<1>1. CommittedSettled'
  BY DEF Progress, CommittedSettled, Assign
<1>2. ReadySettled' /\ InOrder'
  BY DEF Progress, ReadySettled, InOrder, SettledBelow, Assign, workerVars
<1>3. FetchedSettled'
  <2> SUFFICES ASSUME NEW q \in Partitions, owner'[q] # None,
                      NEW o \in 0 .. position'[q] - 1
               PROVE  <<q, o>> \in Settled' \/ inflight'[owner'[q]] = <<q, o>>
    BY DEF FetchedSettled
  <2>1. CASE q = p
    BY <2>1 DEF Assign, Progress, CommittedSettled, TypeInv, TypeOK
  <2>2. CASE q # p
    BY <2>2 DEF Assign, Progress, FetchedSettled, TypeInv, TypeOK, workerVars
  <2>. QED  BY <2>1, <2>2
<1>. QED  BY <1>1, <1>2, <1>3 DEF Progress

\* poll hands out the first message that is not settled behind the position.
LEMMA PollStep ==
    ASSUME TypeInv, Progress, Settled \subseteq Settled', NEW w \in Workers, Poll(w)
    PROVE  Progress'
<1>1. PICK p \in Partitions :
        /\ owner[p] = w
        /\ position[p] < Len(Log[p])
        /\ LET m == <<p, position[p]>>
               objection == Objection(memory[w], At(m))
           IN  /\ inflight' = [inflight EXCEPT ![w] = m]
               /\ position' = [position EXCEPT ![p] = @ + 1]
               /\ error' = [error EXCEPT ![w] = objection]
               /\ pc' = [pc EXCEPT ![w] =
                            IF objection # None THEN "publish"
                            ELSE IF m \in RowMessages THEN "write" ELSE "commit"]
               /\ written' = IF objection = None /\ ~m \in RowMessages
                             THEN written \cup {m} ELSE written
  BY DEF Poll
<1> DEFINE m == <<p, position[p]>>
<1>2. /\ inflight' = [inflight EXCEPT ![w] = m]
      /\ position' = [position EXCEPT ![p] = position[p] + 1]
      /\ pc'[w] \in {"publish", "write", "commit"}
      /\ pc'[w] = "commit" => m \in written'
      /\ \A v \in Workers \ {w} : pc'[v] = pc[v]
      /\ UNCHANGED <<committed, owner>>
      /\ pc[w] = "poll"
  BY <1>1 DEF Poll, TypeInv, TypeOK
<1>3. inflight[w] = None /\ m # None
  BY <1>1, <1>2, OffsetIsMessage, TransformerAssumption DEF TypeInv, TypeOK, InflightOK
<1>4. SettledBelow(p, position[p])
  <2> SUFFICES ASSUME NEW o \in 0 .. position[p] - 1 PROVE <<p, o>> \in Settled
    BY DEF SettledBelow
  <2>1. <<p, o>> \in Messages
    BY <1>1, TransformerAssumption, OffsetIsMessage DEF TypeInv, TypeOK
  <2>2. inflight[owner[p]] # <<p, o>> /\ owner[p] # None
    BY <1>1, <1>3, <2>1, TransformerAssumption
  <2>. QED  BY <2>2 DEF Progress, FetchedSettled
<1>5. CommittedSettled'
  BY <1>2 DEF Progress, CommittedSettled
<1>6. ReadySettled'
  <2> SUFFICES ASSUME NEW v \in Workers, pc'[v] \in {"commit", "dlq_commit"}
               PROVE  inflight'[v] \in Settled'
    BY DEF ReadySettled
  <2>1. CASE v = w
    BY <1>2, <2>1 DEF Settled, TypeInv, TypeOK
  <2>2. CASE v # w
    BY <1>2, <2>2 DEF Progress, ReadySettled, TypeInv, TypeOK
  <2>. QED  BY <2>1, <2>2
<1>7. InOrder'
  <2> SUFFICES ASSUME NEW v \in Workers, pc'[v] \notin {"poll", "down"}
               PROVE  \A o \in 0 .. inflight'[v][2] - 1 : <<inflight'[v][1], o>> \in Settled'
    BY DEF InOrder, SettledBelow
  <2>1. CASE v = w
    BY <1>2, <1>4, <2>1 DEF SettledBelow, TypeInv, TypeOK
  <2>2. CASE v # w
    BY <1>2, <2>2 DEF Progress, InOrder, SettledBelow, TypeInv, TypeOK
  <2>. QED  BY <2>1, <2>2
<1>8. FetchedSettled'
  <2> SUFFICES ASSUME NEW q \in Partitions, owner[q] # None,
                      NEW o \in 0 .. position'[q] - 1
               PROVE  <<q, o>> \in Settled' \/ inflight'[owner[q]] = <<q, o>>
    BY <1>2 DEF FetchedSettled
  <2>1. CASE q = p
    <3>1. o \in 0 .. position[p] - 1 \/ o = position[p]
      BY <1>2, <2>1 DEF TypeInv, TypeOK
    <3>2. CASE o \in 0 .. position[p] - 1
      BY <1>4, <2>1, <3>2 DEF SettledBelow
    <3>3. CASE o = position[p]
      BY <1>1, <1>2, <2>1, <3>3 DEF TypeInv, TypeOK
    <3>. QED  BY <3>1, <3>2, <3>3
  <2>2. CASE q # p
    <3>1. <<q, o>> \in Settled \/ inflight[owner[q]] = <<q, o>>
      BY <1>2, <2>2 DEF Progress, FetchedSettled, TypeInv, TypeOK
    <3>2. CASE owner[q] = w
      <4>1. position'[q] = position[q]
        BY <1>2, <2>2 DEF TypeInv, TypeOK
      <4>2. <<q, o>> \in Messages
        BY <4>1, OffsetIsMessage, TransformerAssumption DEF TypeInv, TypeOK
      <4>3. inflight[w] # <<q, o>>
        BY <1>3, <4>2, TransformerAssumption
      <4>. QED  BY <3>1, <3>2, <4>3
    <3>3. CASE owner[q] # w
      BY <1>2, <3>1, <3>3 DEF TypeInv, TypeOK
    <3>. QED  BY <3>2, <3>3
  <2>. QED  BY <2>1, <2>2
<1>. QED  BY <1>5, <1>6, <1>7, <1>8 DEF Progress

\* What the calls of a message settle.
LEMMA SettledByCall ==
    ASSUME TypeInv, NEW w \in Workers
    PROVE  /\ WriteSucceeds(w) => inflight[w] \in Settled'
           /\ PublishDelivered(w) \/ PublishLost(w) => inflight[w] \in Settled'
<1>1. ASSUME WriteSucceeds(w) PROVE inflight[w] \in Settled'
  BY <1>1 DEF WriteSucceeds, Upsert, Settled
<1>2. ASSUME PublishLost(w) PROVE inflight[w] \in Settled'
  BY <1>2 DEF PublishLost, Settled
<1>3. ASSUME PublishDelivered(w) PROVE inflight[w] \in Settled'
  <2> DEFINE r == <<inflight[w], error[w]>>
  <2>1. inflight[w] \in Messages /\ error[w] \in Errors
    BY <1>3 DEF PublishDelivered, TypeInv, InflightOK
  <2>2. r \in Messages \X Errors
    BY <2>1
  <2>3. dlq \in [Messages \X Errors -> Nat] /\ dlq' = [dlq EXCEPT ![r] = dlq[r] + 1]
    BY <1>3 DEF PublishDelivered, TypeInv, TypeOK
  <2>4. dlq'[r] > 0
    <3> HIDE DEF r
    <3>. QED  BY <2>2, <2>3
  <2>5. Published(inflight[w])'
    <3>1. inflight' = inflight
      BY <1>3 DEF PublishDelivered
    <3>. QED  BY <2>1, <2>4, <3>1 DEF Published
  <2>6. inflight' = inflight
    BY <1>3 DEF PublishDelivered
  <2>. QED  BY <2>1, <2>5, <2>6 DEF Settled
<1>. QED  BY <1>1, <1>2, <1>3

LEMMA NextProgress == TypeInv /\ Progress /\ [Next]_vars => Progress'
<1> SUFFICES ASSUME TypeInv, Progress, [Next]_vars PROVE Progress'
  OBVIOUS
<1>1. CASE UNCHANGED vars
  BY <1>1
  DEF Progress, CommittedSettled, ReadySettled, InOrder, FetchedSettled, SettledBelow,
      Settled, Published, vars, brokerVars, storeVars, workerVars
<1>2. CASE Next
  <2>1. TypeInv' /\ Settled \subseteq Settled'
    BY <1>2, NextType, SettledGrows
  <2>2. ASSUME NEW w \in Workers, Crash(w) \/ PublishRaises(w) \/ DlqCommitRaises(w)
        PROVE  Progress'
    BY <2>1, <2>2, DiesStep DEF Crash, PublishRaises, DlqCommitRaises
  <2>3. ASSUME NEW w \in Workers, Restart(w) PROVE Progress'
    BY <2>1, <2>3
    DEF Restart, Progress, CommittedSettled, ReadySettled, InOrder, FetchedSettled,
        SettledBelow, brokerVars, TypeInv, TypeOK
  <2>4. ASSUME NEW w \in Workers, PollNothing(w) PROVE Progress'
    BY <1>1, <2>4 DEF PollNothing
  <2>5. ASSUME NEW w \in Workers, WriteSucceeds(w) PROVE Progress'
    BY <2>1, <2>5, CallStep, SettledByCall DEF WriteSucceeds, brokerVars, Calls
  <2>6. ASSUME NEW w \in Workers, WriteRaises(w) PROVE Progress'
    BY <2>1, <2>6, CallStep DEF WriteRaises, brokerVars, Calls
  <2>7. ASSUME NEW w \in Workers, CommitRaises(w) PROVE Progress'
    BY <2>1, <2>7, CallStep DEF CommitRaises, brokerVars, Calls
  <2>8. ASSUME NEW w \in Workers, PublishDelivered(w) \/ PublishLost(w) PROVE Progress'
    BY <2>1, <2>8, CallStep, SettledByCall DEF PublishDelivered, PublishLost, Calls
  <2>9. ASSUME NEW w \in Workers, CommitSucceeds(w) \/ DlqCommitSucceeds(w) PROVE Progress'
    BY <2>1, <2>9, CommitStep DEF CommitSucceeds, DlqCommitSucceeds
  <2>10. ASSUME NEW p \in Partitions, NEW w \in Workers,
                AssignOrphan(p, w) \/ Rebalance(p, w)
         PROVE  Progress'
    BY <2>1, <2>10, AssignStep DEF AssignOrphan, Rebalance
  <2>. QED
    BY <1>2, <2>1, <2>2, <2>3, <2>4, <2>5, <2>6, <2>7, <2>8, <2>9, <2>10, PollStep
    DEF Next
<1>. QED  BY <1>1, <1>2

\* Whatever is behind the message in hand, the fetch position of an owned
\* partition or the committed offset is settled, across crashes, rebalances
\* and failing calls of service.py.
THEOREM ProgressHolds == Spec => []Progress
<1>1. Spec => [](TypeInv /\ Progress)
  <2>1. Init => TypeInv /\ Progress
    BY InitType, InitProgress
  <2>2. TypeInv /\ Progress /\ [Next]_vars => (TypeInv /\ Progress)'
    BY NextType, NextProgress
  <2>. QED  BY <2>1, <2>2, PTL DEF Spec
<1>. QED  BY <1>1, PTL

\* Whatever crashes, rebalances and failing calls do, and for any topics and
\* workers, the committed offset never covers a message that process_message
\* has neither written nor handed to a DLQ publish that returned.
THEOREM CommittedIsSettled == Spec => []CommittedSettled
<1>1. Progress => CommittedSettled
  BY DEF Progress
<1>. QED  BY <1>1, ProgressHolds, PTL

-----------------------------------------------------------------------------
(* The transformer implements Delivery *)

\* A step of Delivery that settles at most one message.
SettleOne(m) == UNCHANGED committed /\ Settled' \in {Settled, Settled \cup {m}}

LEMMA SettleOneImplements ==
    ASSUME NEW m \in Messages, SettleOne(m)
    PROVE  [Abstract!Next]_(Abstract!deliveryVars)
<1>1. Abstract!Messages = Messages
  BY DEF Abstract!Messages, Messages
<1>. QED
  BY <1>1 DEF SettleOne, Abstract!Next, Abstract!Settle, Abstract!deliveryVars

LEMMA SameSettled ==
    ASSUME UNCHANGED <<dlq, dlqLost, written>> PROVE Settled' = Settled
  BY DEF Settled, Published

LEMMA WriteSettles ==
    ASSUME NEW m \in Messages, UNCHANGED <<committed, dlq, dlqLost>>,
           written' \in {written, written \cup {m}}
    PROVE  SettleOne(m)
  BY DEF SettleOne, Settled, Published

LEMMA PublishSettles ==
    ASSUME TypeInv, NEW w \in Workers, PublishDelivered(w) \/ PublishLost(w)
    PROVE  SettleOne(inflight[w])
<1>1. CASE PublishLost(w)
  BY <1>1 DEF PublishLost, SettleOne, Settled, Published, storeVars
<1>2. CASE PublishDelivered(w)
  <2>1. inflight[w] \in Settled' /\ Settled \subseteq Settled'
    BY <1>2, SettledByCall, SettledGrows, NextType DEF Next
  <2>2. ASSUME NEW m \in Messages, Published(m)', m # inflight[w] PROVE Published(m)
    <3>1. PICK e \in Errors : dlq'[<<m, e>>] > 0
      BY <2>2 DEF Published
    <3>2. dlq' = [dlq EXCEPT ![<<inflight[w], error[w]>>] = @ + 1]
      BY <1>2 DEF PublishDelivered
    <3>3. dlq'[<<m, e>>] = dlq[<<m, e>>]
      BY <2>2, <3>2 DEF TypeInv, TypeOK
    <3>. QED  BY <3>1, <3>3 DEF Published
  <2>3. Settled' \subseteq Settled \cup {inflight[w]}
    BY <1>2, <2>2 DEF PublishDelivered, Settled, storeVars
  <2>4. UNCHANGED committed
    BY <1>2 DEF PublishDelivered
  <2>. QED  BY <2>1, <2>3, <2>4 DEF SettleOne
<1>. QED  BY <1>1, <1>2

\* A commit is a step of Delivery, for everything below it is settled.
LEMMA CommitImplements ==
    ASSUME TypeInv, Progress, NEW w \in Workers, pc[w] \in {"commit", "dlq_commit"},
           CommitInflight(w), UNCHANGED <<dlq, dlqLost, written>>
    PROVE  [Abstract!Next]_(Abstract!deliveryVars)
<1> DEFINE m == inflight[w]
<1>1. m \in Messages /\ m \in Settled /\ SettledBelow(m[1], m[2])
  BY DEF TypeInv, InflightOK, Progress, ReadySettled, InOrder
<1>2. /\ m[1] \in Partitions
      /\ m[2] \in Nat
      /\ m[2] < Len(Log[m[1]])
      /\ m = <<m[1], m[2]>>
  BY <1>1, MessageFacts
<1>3. committed' = [committed EXCEPT ![m[1]] = m[2] + 1]
  BY DEF CommitInflight, CommitOffset
<1>4. m[2] + 1 \in 1 .. Len(Log[m[1]])
  BY <1>2, TransformerAssumption
<1>5. \A o \in 0 .. (m[2] + 1) - 1 : <<m[1], o>> \in Settled
  <2> SUFFICES ASSUME NEW o \in 0 .. (m[2] + 1) - 1 PROVE <<m[1], o>> \in Settled
    OBVIOUS
  <2>1. o \in 0 .. m[2] - 1 \/ o = m[2]
    BY <1>2
  <2>. QED  BY <1>1, <1>2, <2>1 DEF SettledBelow
<1>6. Settled' = Settled
  BY SameSettled
<1> HIDE DEF m
<1>7. Abstract!Commit
  BY <1>2, <1>3, <1>4, <1>5, <1>6 DEF Abstract!Commit, Abstract!SettledBelow
<1>. QED  BY <1>7 DEF Abstract!Next

LEMMA StutterImplements ==
    ASSUME UNCHANGED <<committed, dlq, dlqLost, written>>
    PROVE  [Abstract!Next]_(Abstract!deliveryVars)
  BY SameSettled DEF Abstract!deliveryVars

LEMMA NextImplements ==
    ASSUME TypeInv, Progress, [Next]_vars
    PROVE  [Abstract!Next]_(Abstract!deliveryVars)
<1>1. CASE UNCHANGED vars
  BY <1>1, StutterImplements DEF vars, brokerVars, storeVars
<1>2. ASSUME NEW w \in Workers, Crash(w) \/ PublishRaises(w) \/ DlqCommitRaises(w)
      PROVE  [Abstract!Next]_(Abstract!deliveryVars)
  BY <1>2, StutterImplements DEF Crash, PublishRaises, DlqCommitRaises, storeVars
<1>3. ASSUME NEW w \in Workers, Restart(w) \/ PollNothing(w) \/ CommitRaises(w)
      PROVE  [Abstract!Next]_(Abstract!deliveryVars)
  BY <1>3, StutterImplements
  DEF Restart, PollNothing, CommitRaises, vars, brokerVars, storeVars
<1>4. ASSUME NEW w \in Workers, Poll(w)
      PROVE  [Abstract!Next]_(Abstract!deliveryVars)
  <2>1. PICK p \in Partitions :
          /\ position[p] < Len(Log[p])
          /\ written' \in {written, written \cup {<<p, position[p]>>}}
    BY <1>4 DEF Poll
  <2>2. <<p, position[p]>> \in Messages
    BY <2>1, OffsetIsMessage DEF TypeInv, TypeOK
  <2>. QED  BY <1>4, <2>1, <2>2, WriteSettles, SettleOneImplements DEF Poll
<1>5. ASSUME NEW w \in Workers, WriteSucceeds(w) \/ WriteRaises(w)
      PROVE  [Abstract!Next]_(Abstract!deliveryVars)
  <2>1. inflight[w] \in Messages
    BY <1>5 DEF WriteSucceeds, WriteRaises, TypeInv, InflightOK
  <2>. QED
    BY <1>5, <2>1, WriteSettles, SettleOneImplements
    DEF WriteSucceeds, WriteRaises, Upsert, brokerVars, storeVars
<1>6. ASSUME NEW w \in Workers, PublishDelivered(w) \/ PublishLost(w)
      PROVE  [Abstract!Next]_(Abstract!deliveryVars)
  <2>1. inflight[w] \in Messages
    BY <1>6 DEF PublishDelivered, PublishLost, TypeInv, InflightOK
  <2>. QED  BY <1>6, <2>1, PublishSettles, SettleOneImplements
<1>7. ASSUME NEW w \in Workers, CommitSucceeds(w) \/ DlqCommitSucceeds(w)
      PROVE  [Abstract!Next]_(Abstract!deliveryVars)
  BY <1>7, CommitImplements DEF CommitSucceeds, DlqCommitSucceeds, storeVars
<1>8. ASSUME NEW p \in Partitions, NEW w \in Workers, AssignOrphan(p, w) \/ Rebalance(p, w)
      PROVE  [Abstract!Next]_(Abstract!deliveryVars)
  BY <1>8, StutterImplements DEF AssignOrphan, Rebalance, Assign, storeVars
<1>. QED
  BY <1>1, <1>2, <1>3, <1>4, <1>5, <1>6, <1>7, <1>8 DEF Next

LEMMA InitImplements == Init => Abstract!Init
<1> SUFFICES ASSUME Init PROVE Abstract!Init
  OBVIOUS
<1>1. ASSUME NEW m \in Messages PROVE ~Published(m)
  <2>1. ASSUME NEW e \in Errors PROVE ~(dlq[<<m, e>>] > 0)
    <3>1. dlq[<<m, e>>] = 0
      BY DEF Init
    <3>. QED  BY <3>1
  <2>. QED  BY <2>1 DEF Published
<1>2. Settled = {}
  BY <1>1 DEF Init, Settled
<1>. QED  BY <1>2 DEF Init, Abstract!Init

\* The transformer implements at-least-once delivery: whatever happens, a
\* message is settled before an offset past it is committed, one at a time,
\* and never unsettled.
THEOREM DeliveryImplemented == Spec => ImplementsDelivery
<1>1. TypeInv /\ Progress /\ [Next]_vars => [Abstract!Next]_(Abstract!deliveryVars)
  BY NextImplements
<1>. QED
  BY <1>1, InitImplements, TypeCorrect, ProgressHolds, PTL
  DEF Spec, ImplementsDelivery, Abstract!Spec

-----------------------------------------------------------------------------
(* What the guardrails remember, and the payments they admit *)

\* A payment about to be written has its order and customer in Cassandra.
PaymentsChecked ==
    Strict => \A w \in Workers :
        pc[w] = "write" /\ At(inflight[w]).table = "payments" =>
            /\ OrderIn(At(inflight[w]).order, written)
            /\ CustomerIn(At(inflight[w]).customer, written)

References == MemoryBacked /\ PaymentsChecked /\ StrictReferences

-----------------------------------------------------------------------------

\* More messages show no less.
LEMMA EvidenceGrows ==
    ASSUME NEW S, NEW T, S \subseteq T
    PROVE  /\ \A c : CustomerIn(c, S) => CustomerIn(c, T)
           /\ \A o : OrderIn(o, S) => OrderIn(o, T)
           /\ \A mem : Backed(mem, S) => Backed(mem, T)
  BY DEF CustomerIn, OrderIn, Backed

LEMMA EmptyMemoryBacked == ASSUME NEW S PROVE Backed(EmptyMemory, S)
  BY DEF Backed, EmptyMemory

\* Observing the row of a message that is in Cassandra keeps a memory backed.
LEMMA ObserveBacked ==
    ASSUME NEW mem \in Memory, NEW S, Backed(mem, S), NEW m \in RowMessages, m \in S
    PROVE  Backed(Observe(mem, At(m)), S)
<1> DEFINE r == At(m)
<1>1. CASE r.table = "customers" /\ r.op # "d"
  <2>1. Observe(mem, r) = [mem EXCEPT !.customers = @ \cup {r.id}]
    BY <1>1 DEF Observe
  <2>2. CustomerIn(r.id, S)
    BY <1>1 DEF CustomerIn
  <2>3. /\ Observe(mem, r).customers = mem.customers \cup {r.id}
        /\ Observe(mem, r).known = mem.known
        /\ Observe(mem, r).lines = mem.lines
    BY <2>1 DEF Memory
  <2>4. \A c \in Observe(mem, r).customers : CustomerIn(c, S)
    BY <2>2, <2>3 DEF Backed
  <2>5. \A o \in Observe(mem, r).known : OrderIn(o, S)
    BY <2>3 DEF Backed
  <2>. QED  BY <2>3, <2>4, <2>5 DEF Backed
<1>2. CASE r.table = "order_items"
  <2>1. Observe(mem, r) = ObserveLine(mem, r)
    BY <1>2 DEF Observe
  <2>2. CustomerIn(r.customer, S) /\ OrderIn(r.order, S)
    BY <1>2 DEF CustomerIn, OrderIn
  <2>3. /\ Observe(mem, r).customers = mem.customers \cup {r.customer}
        /\ Observe(mem, r).known = mem.known \cup {r.order}
        /\ Observe(mem, r).lines
             = [mem.lines EXCEPT ![r.id] = [order |-> r.order, amount |-> r.amount]]
    BY <2>1 DEF ObserveLine
  <2>4. ASSUME NEW i \in Items, Observe(mem, r).lines[i] # NoLine
        PROVE  \E n \in S :
                 /\ n \in RowMessages /\ At(n).table = "order_items" /\ At(n).id = i
                 /\ Observe(mem, r).lines[i] = [order |-> At(n).order, amount |-> At(n).amount]
    <3>1. mem.lines \in [Items -> Line \cup {NoLine}]
      BY DEF Memory
    <3>2. CASE i = r.id
      <4>1. Observe(mem, r).lines[i] = [order |-> At(m).order, amount |-> At(m).amount]
        BY <2>3, <3>1, <3>2
      <4>. QED  BY <1>2, <3>2, <4>1
    <3>3. CASE i # r.id
      <4>1. Observe(mem, r).lines[i] = mem.lines[i]
        BY <2>3, <3>1, <3>3
      <4>. QED  BY <2>4, <4>1 DEF Backed
    <3>. QED  BY <3>2, <3>3
  <2>5. \A c \in Observe(mem, r).customers : CustomerIn(c, S)
    BY <2>2, <2>3 DEF Backed
  <2>6. \A o \in Observe(mem, r).known : OrderIn(o, S)
    BY <2>2, <2>3 DEF Backed
  <2>. QED  BY <2>4, <2>5, <2>6 DEF Backed
<1>3. CASE ~(r.table = "customers" /\ r.op # "d") /\ r.table # "order_items"
  BY <1>3 DEF Observe
<1>. QED  BY <1>1, <1>2, <1>3

\* A payment that raises no objection in strict mode is one the memory knows
\* the order and the customer of.
LEMMA AdmittedKnown ==
    ASSUME NEW mem, NEW m \in RowMessages, At(m).table = "payments", Strict,
           Objection(mem, At(m)) = None
    PROVE  At(m).order \in mem.known /\ At(m).customer \in mem.customers
<1>1. Verdict(At(m)) = "row"
  BY DEF RowMessages, HasRow
<1>2. "validation" # None
  BY TransformerAssumption DEF Errors
<1>3. Admits(mem, At(m))
  BY <1>1, <1>2 DEF Objection, HasRow
<1>4. UnknownReferences(mem, At(m)) = {}
  BY <1>3 DEF Admits, PaymentIssues
<1>. QED  BY <1>4 DEF UnknownReferences

-----------------------------------------------------------------------------
(* Strict mode keeps the stored payments referentially complete *)

LEMMA InitReferences == Init => References
  BY EmptyMemoryBacked
  DEF Init, References, MemoryBacked, PaymentsChecked, StrictReferences

\* A step that touches no memory other than by emptying it, writes no payment
\* and brings no worker to a write.
LEMMA QuietStep ==
    ASSUME TypeInv, References, written \subseteq written',
           \A w \in Workers : memory'[w] \in {memory[w], EmptyMemory},
           \A w \in Workers : pc'[w] = "write" =>
                pc[w] = "write" /\ inflight'[w] = inflight[w],
           \A m \in written' \ written : m \in RowMessages => At(m).table # "payments"
    PROVE  References'
<1>1. MemoryBacked'
  BY EvidenceGrows, EmptyMemoryBacked DEF References, MemoryBacked
<1>2. PaymentsChecked'
  BY EvidenceGrows DEF References, PaymentsChecked
<1>3. StrictReferences'
  BY EvidenceGrows DEF References, StrictReferences
<1>. QED  BY <1>1, <1>2, <1>3 DEF References

\* The row a worker was about to write reaches Cassandra.
LEMMA UpsertReferences ==
    ASSUME TypeInv, References, NEW w \in Workers, pc[w] = "write", Upsert(inflight[w])
    PROVE  StrictReferences'
<1>1. written' = written \cup {inflight[w]}
  BY DEF Upsert
<1> SUFFICES ASSUME Strict, NEW m \in written', m \in RowMessages, At(m).table = "payments"
             PROVE  OrderIn(At(m).order, written') /\ CustomerIn(At(m).customer, written')
  BY DEF StrictReferences
<1>2. OrderIn(At(m).order, written) /\ CustomerIn(At(m).customer, written)
  <2>1. CASE m \in written
    BY <2>1 DEF References, StrictReferences
  <2>2. CASE m = inflight[w]
    BY <2>2 DEF References, PaymentsChecked
  <2>. QED  BY <1>1, <2>1, <2>2
<1>. QED  BY <1>1, <1>2, EvidenceGrows

LEMMA WriteSucceedsReferences ==
    ASSUME TypeInv, References, NEW w \in Workers, WriteSucceeds(w) PROVE References'
<1>1. inflight[w] \in RowMessages /\ memory[w] \in Memory
  BY DEF TypeInv, TypeOK, InflightOK, WriteSucceeds
<1>2. written' = written \cup {inflight[w]}
  BY DEF WriteSucceeds, Upsert
<1>3. Backed(memory[w], written')
  BY <1>2, EvidenceGrows DEF References, MemoryBacked
<1>4. Backed(Observe(memory[w], At(inflight[w])), written')
  BY <1>1, <1>2, <1>3, ObserveBacked
<1>5. MemoryBacked'
  <2> SUFFICES ASSUME NEW v \in Workers PROVE Backed(memory'[v], written')
    BY DEF MemoryBacked
  <2>1. CASE v = w
    BY <1>4, <2>1 DEF WriteSucceeds, TypeInv, TypeOK
  <2>2. CASE v # w
    BY <1>2, <2>2, EvidenceGrows DEF WriteSucceeds, References, MemoryBacked, TypeInv, TypeOK
  <2>. QED  BY <2>1, <2>2
<1>6. PaymentsChecked'
  BY <1>2, EvidenceGrows
  DEF WriteSucceeds, References, PaymentsChecked, TypeInv, TypeOK
<1>7. StrictReferences'
  BY UpsertReferences DEF WriteSucceeds
<1>. QED  BY <1>5, <1>6, <1>7 DEF References

LEMMA WriteRaisesReferences ==
    ASSUME TypeInv, References, NEW w \in Workers, WriteRaises(w) PROVE References'
<1>1. written \subseteq written'
  BY DEF WriteRaises, Upsert, storeVars
<1>2. MemoryBacked'
  BY <1>1, EvidenceGrows DEF WriteRaises, References, MemoryBacked
<1>3. PaymentsChecked'
  BY <1>1, EvidenceGrows DEF WriteRaises, References, PaymentsChecked, TypeInv, TypeOK
<1>4. StrictReferences'
  <2>1. CASE UNCHANGED storeVars
    BY <2>1 DEF References, StrictReferences, storeVars
  <2>2. CASE Upsert(inflight[w])
    BY <2>2, UpsertReferences DEF WriteRaises
  <2>. QED  BY <2>1, <2>2 DEF WriteRaises
<1>. QED  BY <1>2, <1>3, <1>4 DEF References

LEMMA PollReferences ==
    ASSUME TypeInv, References, NEW w \in Workers, Poll(w) PROVE References'
<1>1. PICK p \in Partitions :
        /\ position[p] < Len(Log[p])
        /\ inflight' = [inflight EXCEPT ![w] = <<p, position[p]>>]
        /\ pc' = [pc EXCEPT ![w] =
              IF Objection(memory[w], At(<<p, position[p]>>)) # None THEN "publish"
              ELSE IF <<p, position[p]>> \in RowMessages THEN "write" ELSE "commit"]
        /\ written' = IF /\ Objection(memory[w], At(<<p, position[p]>>)) = None
                         /\ ~<<p, position[p]>> \in RowMessages
                      THEN written \cup {<<p, position[p]>>} ELSE written
  BY DEF Poll
<1> DEFINE m == <<p, position[p]>>
<1>2. /\ written \subseteq written'
      /\ \A n \in written' \ written : n \notin RowMessages
      /\ UNCHANGED memory
  BY <1>1 DEF Poll
<1>3. /\ inflight'[w] = m
      /\ pc'[w] = "write" => Objection(memory[w], At(m)) = None /\ m \in RowMessages
      /\ \A v \in Workers \ {w} : pc'[v] = pc[v] /\ inflight'[v] = inflight[v]
  BY <1>1 DEF TypeInv, TypeOK
<1> HIDE DEF m
<1>4. MemoryBacked'
  BY <1>2, EvidenceGrows DEF References, MemoryBacked
<1>5. PaymentsChecked'
  <2> SUFFICES ASSUME Strict, NEW v \in Workers, pc'[v] = "write",
                      At(inflight'[v]).table = "payments"
               PROVE  /\ OrderIn(At(inflight'[v]).order, written')
                      /\ CustomerIn(At(inflight'[v]).customer, written')
    BY DEF PaymentsChecked
  <2>1. CASE v = w
    <3>1. At(m).order \in memory[w].known /\ At(m).customer \in memory[w].customers
      BY <1>3, <2>1, AdmittedKnown
    <3>2. OrderIn(At(m).order, written) /\ CustomerIn(At(m).customer, written)
      BY <3>1 DEF References, MemoryBacked, Backed
    <3>. QED  BY <1>2, <1>3, <2>1, <3>2, EvidenceGrows
  <2>2. CASE v # w
    BY <1>2, <1>3, <2>2, EvidenceGrows DEF References, PaymentsChecked
  <2>. QED  BY <2>1, <2>2
<1>6. StrictReferences'
  BY <1>2, EvidenceGrows DEF References, StrictReferences
<1>. QED  BY <1>4, <1>5, <1>6 DEF References

LEMMA NextReferences == TypeInv /\ References /\ [Next]_vars => References'
<1> SUFFICES ASSUME TypeInv, References, [Next]_vars PROVE References'
  OBVIOUS
<1>1. CASE UNCHANGED vars
  BY <1>1, QuietStep DEF vars, storeVars, workerVars
<1>2. ASSUME NEW w \in Workers, Crash(w) \/ PublishRaises(w) \/ DlqCommitRaises(w)
      PROVE  References'
  BY <1>2, QuietStep
  DEF Crash, PublishRaises, DlqCommitRaises, Dies, storeVars, TypeInv, TypeOK
<1>3. ASSUME NEW w \in Workers, Restart(w) PROVE References'
  BY <1>3, QuietStep DEF Restart, storeVars, TypeInv, TypeOK
<1>4. ASSUME NEW w \in Workers, PollNothing(w) PROVE References'
  BY <1>1, <1>4 DEF PollNothing
<1>5. ASSUME NEW w \in Workers,
             \/ CommitSucceeds(w) \/ CommitRaises(w) \/ DlqCommitSucceeds(w)
             \/ PublishDelivered(w) \/ PublishLost(w)
      PROVE  References'
  BY <1>5, QuietStep
  DEF CommitSucceeds, CommitRaises, DlqCommitSucceeds, PublishDelivered, PublishLost,
      Return, storeVars, TypeInv, TypeOK
<1>6. ASSUME NEW p \in Partitions, NEW w \in Workers, AssignOrphan(p, w) \/ Rebalance(p, w)
      PROVE  References'
  BY <1>6, QuietStep DEF AssignOrphan, Rebalance, Assign, storeVars, workerVars
<1>. QED
  BY <1>1, <1>2, <1>3, <1>4, <1>5, <1>6, PollReferences, WriteSucceedsReferences,
     WriteRaisesReferences DEF Next

LEMMA ReferencesHold == Spec => []References
<1>1. Init => TypeInv /\ References
  BY InitType, InitReferences
<1>2. TypeInv /\ References /\ [Next]_vars => (TypeInv /\ References)'
  BY NextType, NextReferences
<1>. QED  BY <1>1, <1>2, PTL DEF Spec

\* For any topics, workers and faults: what guardrails remember is a row that
\* is in Cassandra, in its present or an earlier version.
THEOREM MemoryIsBacked == Spec => []MemoryBacked
<1>1. References => MemoryBacked
  BY DEF References
<1>. QED  BY <1>1, ReferencesHold, PTL

\* For any topics, workers and faults: in strict mode a payment is stored only
\* with its order and its customer in Cassandra.
THEOREM StrictReferencesHold == Spec => []StrictReferences
<1>1. References => StrictReferences
  BY DEF References
<1>. QED  BY <1>1, ReferencesHold, PTL

-----------------------------------------------------------------------------
(* What Cassandra holds *)

LEMMA VerdictRange ==
    ASSUME NEW m PROVE Verdict(m) \in {"mapping", "ignored", "validation", "row"}
  BY DEF Verdict

LEMMA InitStore == Init => TableReflectsWrites
  BY DEF Init, TableReflectsWrites

LEMMA UpsertStore ==
    ASSUME TypeInv, TableReflectsWrites, NEW m \in RowMessages, Upsert(m)
    PROVE  TableReflectsWrites'
<1>1. RowKey(At(m)) \in RowKeys /\ m # None /\ Verdict(At(m)) = "row"
  BY TransformerAssumption DEF RowKeys, RowMessages, HasRow
<1>2. /\ table'[RowKey(At(m))] = m
      /\ \A k \in RowKeys \ {RowKey(At(m))} : table'[k] = table[k]
      /\ written' = written \cup {m}
  BY <1>1 DEF Upsert, TypeInv, TypeOK
<1>3. \A n \in written' \cap RowMessages : RowKey(At(n)) \in RowKeys
  BY DEF RowKeys
<1>. QED  BY <1>1, <1>2, <1>3 DEF TableReflectsWrites

LEMMA PollStore ==
    ASSUME TypeInv, TableReflectsWrites, NEW w \in Workers, Poll(w)
    PROVE  TableReflectsWrites'
<1>1. PICK p \in Partitions :
        /\ position[p] < Len(Log[p])
        /\ written' = IF /\ Objection(memory[w], At(<<p, position[p]>>)) = None
                         /\ ~<<p, position[p]>> \in RowMessages
                      THEN written \cup {<<p, position[p]>>} ELSE written
  BY DEF Poll
<1> DEFINE m == <<p, position[p]>>
<1>2. m \in Messages
  BY <1>1, OffsetIsMessage DEF TypeInv, TypeOK
<1>3. ASSUME Objection(memory[w], At(m)) = None, m \notin RowMessages
      PROVE  Verdict(At(m)) = "ignored"
  <2>1. "mapping" # None /\ "validation" # None
    BY TransformerAssumption DEF Errors
  <2>2. Verdict(At(m)) # "mapping" /\ Verdict(At(m)) # "validation"
    BY <1>3, <2>1 DEF Objection
  <2>3. Verdict(At(m)) # "row"
    BY <1>2, <1>3 DEF RowMessages, HasRow
  <2>. QED  BY <2>2, <2>3, VerdictRange
<1>4. UNCHANGED table
  BY DEF Poll
<1>5. \/ written' = written
      \/ /\ written' = written \cup {m}
         /\ m \notin RowMessages
         /\ Verdict(At(m)) = "ignored"
  BY <1>1, <1>3
<1> HIDE DEF m
<1>. QED  BY <1>4, <1>5 DEF TableReflectsWrites

\* The steps that leave Cassandra alone.
LEMMA OtherStepsKeepStore ==
    ASSUME [Next]_vars,
           ~ \E w \in Workers : Poll(w) \/ WriteSucceeds(w) \/ WriteRaises(w)
    PROVE  UNCHANGED storeVars
  BY DEF Next, Crash, Restart, PollNothing, CommitSucceeds, CommitRaises,
         PublishDelivered, PublishLost, PublishRaises, DlqCommitSucceeds,
         DlqCommitRaises, AssignOrphan, Rebalance, Assign, vars, storeVars

\* A write does nothing to Cassandra, or upserts the row in hand.
LEMMA WriteUpserts ==
    ASSUME TypeInv, NEW w \in Workers, WriteSucceeds(w) \/ WriteRaises(w)
    PROVE  /\ inflight[w] \in RowMessages
           /\ UNCHANGED storeVars \/ Upsert(inflight[w])
  BY DEF WriteSucceeds, WriteRaises, TypeInv, InflightOK

LEMMA NextStore == TypeInv /\ TableReflectsWrites /\ [Next]_vars => TableReflectsWrites'
<1> SUFFICES ASSUME TypeInv, TableReflectsWrites, [Next]_vars PROVE TableReflectsWrites'
  OBVIOUS
<1>1. CASE UNCHANGED storeVars
  BY <1>1 DEF TableReflectsWrites, storeVars
<1>2. ASSUME NEW w \in Workers, WriteSucceeds(w) \/ WriteRaises(w)
      PROVE  TableReflectsWrites'
  BY <1>1, <1>2, WriteUpserts, UpsertStore
<1>. QED  BY <1>1, <1>2, PollStore, OtherStepsKeepStore

\* For any topics, workers and faults: Cassandra holds under each key the row
\* of a valid message written there, and under the key of every such message
\* a row; nothing that failed mapping or validation was written.
THEOREM TableHolds == Spec => []TableReflectsWrites
<1>1. Init => TypeInv /\ TableReflectsWrites
  BY InitType, InitStore
<1>2. TypeInv /\ TableReflectsWrites /\ [Next]_vars => (TypeInv /\ TableReflectsWrites)'
  BY NextType, NextStore
<1>. QED  BY <1>1, <1>2, PTL DEF Spec

-----------------------------------------------------------------------------
(* Facts are kept *)

\* No two facts of one table and natural id come from one source position.
PositionsDistinct ==
    \A m, n \in RowMessages :
        /\ ~IsDimension(At(m))
        /\ At(m).table = At(n).table
        /\ At(m).id = At(n).id
        /\ At(m).pos = At(n).pos
        => m = n

\* Each mapped table has a target of its own.
LEMMA TargetsDistinct ==
    ASSUME NEW s \in DOMAIN Mapping, NEW t \in DOMAIN Mapping,
           Mapping[s].target = Mapping[t].target
    PROVE  s = t
  BY DEF Mapping

LEMMA RowTableMapped == ASSUME NEW m \in RowMessages PROVE At(m).table \in DOMAIN Mapping
  BY DEF RowMessages, HasRow, Verdict

\* The key of a fact belongs to one message.
LEMMA FactKeyUnique ==
    ASSUME PositionsDistinct, NEW m \in RowMessages, NEW n \in RowMessages,
           ~IsDimension(At(m)), RowKey(At(m)) = RowKey(At(n))
    PROVE  m = n
<1>1. Target(At(m)) = Target(At(n)) /\ At(m).id = At(n).id
  BY DEF RowKey
<1>2. At(m).table = At(n).table
  BY <1>1, RowTableMapped, TargetsDistinct DEF Target
<1>3. ~IsDimension(At(n))
  BY <1>2 DEF IsDimension
<1>4. At(m).pos = At(n).pos
  BY <1>3 DEF RowKey
<1>. QED  BY <1>1, <1>2, <1>4 DEF PositionsDistinct

LEMMA UpsertKeepsFacts ==
    ASSUME PositionsDistinct, TypeInv, EveryFactKept, NEW m \in RowMessages, Upsert(m)
    PROVE  EveryFactKept'
<1> SUFFICES ASSUME NEW n \in written' \cap RowMessages, ~IsDimension(At(n))
             PROVE  table'[RowKey(At(n))] = n
  BY DEF EveryFactKept
<1>1. RowKey(At(m)) \in RowKeys /\ RowKey(At(n)) \in RowKeys
  BY DEF RowKeys
<1>2. CASE RowKey(At(n)) = RowKey(At(m))
  BY <1>1, <1>2, FactKeyUnique DEF Upsert, TypeInv, TypeOK
<1>3. CASE RowKey(At(n)) # RowKey(At(m))
  <2>1. table'[RowKey(At(n))] = table[RowKey(At(n))]
    BY <1>1, <1>3 DEF Upsert, TypeInv, TypeOK
  <2>2. n \in written
    BY <1>3 DEF Upsert
  <2>. QED  BY <2>1, <2>2 DEF EveryFactKept
<1>. QED  BY <1>2, <1>3

LEMMA PollKeepsFacts ==
    ASSUME EveryFactKept, NEW w \in Workers, Poll(w) PROVE EveryFactKept'
<1>1. PICK p \in Partitions :
        written' = IF /\ Objection(memory[w], At(<<p, position[p]>>)) = None
                      /\ ~<<p, position[p]>> \in RowMessages
                   THEN written \cup {<<p, position[p]>>} ELSE written
  BY DEF Poll
<1>2. written' \cap RowMessages = written \cap RowMessages /\ UNCHANGED table
  BY <1>1 DEF Poll
<1>. QED  BY <1>2 DEF EveryFactKept

LEMMA NextKeepsFacts ==
    ASSUME PositionsDistinct, TypeInv, EveryFactKept, [Next]_vars
    PROVE  EveryFactKept'
<1>1. CASE UNCHANGED storeVars
  BY <1>1 DEF EveryFactKept, storeVars
<1>2. ASSUME NEW w \in Workers, WriteSucceeds(w) \/ WriteRaises(w)
      PROVE  EveryFactKept'
  BY <1>1, <1>2, WriteUpserts, UpsertKeepsFacts
<1>. QED  BY <1>1, <1>2, PollKeepsFacts, OtherStepsKeepStore

\* When source positions tell the versions of a fact apart, every version
\* written stays under a key of its own, however often messages come again.
THEOREM FactsAreKept ==
    ASSUME PositionsDistinct PROVE Spec => []EveryFactKept
<1>1. Init => TypeInv /\ EveryFactKept
  BY InitType DEF Init, EveryFactKept
<1>2. TypeInv /\ EveryFactKept /\ [Next]_vars => (TypeInv /\ EveryFactKept)'
  BY NextType, NextKeepsFacts
<1>. QED  BY <1>1, <1>2, PTL DEF Spec

-----------------------------------------------------------------------------
(* The DLQ counters *)

FiniteGroup == IsFiniteSet(Workers) /\ IsFiniteSet(Partitions)

\* What a worker's DLQ counter claims, the record it is about to count included.
Claims ==
    [w \in Workers |-> metrics[w].dlq + (IF pc[w] = "dlq_commit" THEN 1 ELSE 0)]

Records == Messages \X Errors

ClaimsBacked ==
    dlqLost = {} => SumFunctionOnSet(Claims, Workers) <= SumFunctionOnSet(dlq, Records)

-----------------------------------------------------------------------------

LEMMA MessagesFinite == ASSUME IsFiniteSet(Partitions) PROVE IsFiniteSet(Messages)
<1> DEFINE Of(p) == {p} \X (0 .. Len(Log[p]) - 1)
           All(P) == UNION {Of(p) : p \in P}
           X == {P \in SUBSET Partitions : IsFiniteSet(All(P))}
<1>1. ASSUME NEW P \in SUBSET Partitions, NEW p \in Partitions \ P, P \in X
      PROVE  P \cup {p} \in X
  <2>1. IsFiniteSet(Of(p))
    <3>1. 0 \in Int /\ Len(Log[p]) - 1 \in Int
      BY TransformerAssumption
    <3>2. IsFiniteSet(0 .. Len(Log[p]) - 1)
      BY <3>1, FS_Interval
    <3>. QED  BY <3>2, FS_Singleton, FS_Product
  <2>2. IsFiniteSet(All(P))
    BY <1>1
  <2>3. All(P \cup {p}) = All(P) \cup Of(p)
    <3>. HIDE DEF Of
    <3>. QED  OBVIOUS
  <2>. HIDE DEF All, Of
  <2>4. IsFiniteSet(All(P \cup {p}))
    BY <2>1, <2>2, <2>3, FS_Union
  <2>. QED  BY <2>4
<1>2. {} \in X
  <2>1. All({}) = {}
    OBVIOUS
  <2>2. IsFiniteSet(All({}))
    BY <2>1, FS_EmptySet
  <2>. HIDE DEF All
  <2>. QED  BY <2>2
<1>3. Partitions \in X
  <2>. HIDE DEF X
  <2>. QED  BY <1>1, <1>2, GrowingSets
<1>. QED  BY <1>3 DEF Messages

LEMMA RecordsFinite == ASSUME FiniteGroup PROVE IsFiniteSet(Records)
<1>1. IsFiniteSet(Errors)
  <2>1. Errors = {"mapping"} \cup {"validation"} \cup {"write"} \cup {"commit"}
    BY DEF Errors
  <2>. QED  BY <2>1, FS_Singleton, FS_Union
<1>. QED  BY <1>1, MessagesFinite, FS_Product DEF FiniteGroup, Records

LEMMA ClaimsType ==
    ASSUME TypeInv
    PROVE  /\ \A w \in Workers : Claims[w] \in Nat
           /\ \A r \in Records : dlq[r] \in Nat
  BY DEF TypeInv, TypeOK, Counters, Claims, Records

\* The end of a process takes its claims away.
LEMMA DiesClaims ==
    ASSUME TypeInv, NEW w \in Workers, Dies(w)
    PROVE  \A v \in Workers : Claims'[v] <= Claims[v]
<1> SUFFICES ASSUME NEW v \in Workers PROVE Claims'[v] <= Claims[v]
  OBVIOUS
<1>1. CASE v = w
  <2>1. metrics'[v].dlq = 0 /\ pc'[v] = "down"
    BY <1>1 DEF Dies, TypeInv, TypeOK, NoCounts
  <2>2. Claims'[v] = 0 /\ Claims[v] \in Nat
    BY <2>1, ClaimsType DEF Claims
  <2>. QED  BY <2>2
<1>2. CASE v # w
  <2>1. metrics'[v] = metrics[v] /\ pc'[v] = pc[v] /\ Claims[v] \in Nat
    BY <1>2, ClaimsType DEF Dies, TypeInv, TypeOK
  <2>. QED  BY <2>1 DEF Claims
<1>. QED  BY <1>1, <1>2

\* A call that leaves the counters alone claims nothing, except a DLQ publish.
LEMMA CallClaims ==
    ASSUME TypeInv, NEW w \in Workers, pc'[w] # "dlq_commit",
           metrics'[w].dlq = metrics[w].dlq,
           \A v \in Workers \ {w} : metrics'[v] = metrics[v] /\ pc'[v] = pc[v]
    PROVE  \A v \in Workers : Claims'[v] <= Claims[v]
<1> SUFFICES ASSUME NEW v \in Workers PROVE Claims'[v] <= Claims[v]
  OBVIOUS
<1>1. metrics[v].dlq \in Nat
  BY DEF TypeInv, TypeOK, Counters
<1>. QED  BY <1>1 DEF Claims

\* The commit after a publish counts the record that was published.
LEMMA DlqCommitClaims ==
    ASSUME TypeInv, NEW w \in Workers, DlqCommitSucceeds(w)
    PROVE  \A v \in Workers : Claims'[v] <= Claims[v]
<1> SUFFICES ASSUME NEW v \in Workers PROVE Claims'[v] <= Claims[v]
  OBVIOUS
<1>1. metrics[v].dlq \in Nat
  BY DEF TypeInv, TypeOK, Counters
<1>2. CASE v = w
  <2>1. pc[w] = "dlq_commit" /\ pc'[w] = "poll"
    BY DEF DlqCommitSucceeds, Return, TypeInv, TypeOK
  <2>2. metrics'[w].dlq \in {metrics[w].dlq, metrics[w].dlq + 1}
    BY DEF DlqCommitSucceeds, CountFailure, TypeInv, TypeOK
  <2>. QED  BY <1>1, <1>2, <2>1, <2>2 DEF Claims
<1>3. CASE v # w
  BY <1>1, <1>3 DEF Claims, DlqCommitSucceeds, Return, TypeInv, TypeOK
<1>. QED  BY <1>2, <1>3

LEMMA StepClaims ==
    ASSUME TypeInv, [Next]_vars,
           ~ \E w \in Workers : PublishDelivered(w) \/ PublishLost(w)
    PROVE  UNCHANGED dlq /\ \A v \in Workers : Claims'[v] <= Claims[v]
<1>1. CASE UNCHANGED vars
  <2>1. Claims' = Claims /\ UNCHANGED dlq
    BY <1>1 DEF Claims, vars, workerVars, brokerVars
  <2>. QED  BY <2>1, ClaimsType
<1>2. ASSUME NEW w \in Workers, Crash(w) \/ PublishRaises(w) \/ DlqCommitRaises(w)
      PROVE  UNCHANGED dlq /\ \A v \in Workers : Claims'[v] <= Claims[v]
  BY <1>2, DiesClaims DEF Crash, PublishRaises, DlqCommitRaises
<1>3. ASSUME NEW w \in Workers, PollNothing(w)
      PROVE  UNCHANGED dlq /\ \A v \in Workers : Claims'[v] <= Claims[v]
  BY <1>1, <1>3 DEF PollNothing
<1>4. ASSUME NEW w \in Workers,
             \/ Restart(w) \/ Poll(w) \/ WriteSucceeds(w) \/ WriteRaises(w)
             \/ CommitRaises(w) \/ CommitSucceeds(w)
      PROVE  UNCHANGED dlq /\ \A v \in Workers : Claims'[v] <= Claims[v]
  <2>1. pc'[w] # "dlq_commit" /\ \A v \in Workers \ {w} : pc'[v] = pc[v]
    BY <1>4 DEF Restart, Poll, WriteSucceeds, WriteRaises, CommitRaises, CommitSucceeds,
       Return, TypeInv, TypeOK
  <2>2. /\ metrics'[w].dlq = metrics[w].dlq
        /\ \A v \in Workers \ {w} : metrics'[v] = metrics[v]
    BY <1>4 DEF Restart, Poll, WriteSucceeds, WriteRaises, CommitRaises, CommitSucceeds,
       TypeInv, TypeOK, Counters
  <2>3. UNCHANGED dlq
    BY <1>4 DEF Restart, Poll, WriteSucceeds, WriteRaises, CommitRaises, CommitSucceeds,
       brokerVars
  <2>. QED  BY <2>1, <2>2, <2>3, CallClaims
<1>5. ASSUME NEW w \in Workers, DlqCommitSucceeds(w)
      PROVE  UNCHANGED dlq /\ \A v \in Workers : Claims'[v] <= Claims[v]
  BY <1>5, DlqCommitClaims DEF DlqCommitSucceeds
<1>6. ASSUME NEW p \in Partitions, NEW w \in Workers, AssignOrphan(p, w) \/ Rebalance(p, w)
      PROVE  UNCHANGED dlq /\ \A v \in Workers : Claims'[v] <= Claims[v]
  <2>1. UNCHANGED <<metrics, pc, dlq>>
    BY <1>6 DEF AssignOrphan, Rebalance, Assign, workerVars
  <2>2. Claims' = Claims
    BY <2>1 DEF Claims
  <2>. QED  BY <2>1, <2>2, ClaimsType
<1>. QED  BY <1>1, <1>2, <1>3, <1>4, <1>5, <1>6 DEF Next

\* A record on the topic is one more that may be claimed.
LEMMA PublishClaims ==
    ASSUME FiniteGroup, TypeInv, TypeInv', ClaimsBacked, dlqLost = {},
           NEW w \in Workers, PublishDelivered(w)
    PROVE  SumFunctionOnSet(Claims', Workers) <= SumFunctionOnSet(dlq', Records)
<1> DEFINE r == <<inflight[w], error[w]>>
<1>1. r \in Records
  BY DEF PublishDelivered, TypeInv, InflightOK, Records
<1>2. /\ dlq'[r] = dlq[r] + 1
      /\ \A s \in Records \ {r} : dlq'[s] = dlq[s]
  BY <1>1 DEF PublishDelivered, TypeInv, TypeOK, Records
<1>3. /\ Claims'[w] = Claims[w] + 1
      /\ \A v \in Workers \ {w} : Claims'[v] = Claims[v]
  <2>1. pc[w] = "publish" /\ pc'[w] = "dlq_commit" /\ UNCHANGED metrics
    BY DEF PublishDelivered, TypeInv, TypeOK
  <2>2. \A v \in Workers \ {w} : pc'[v] = pc[v]
    BY DEF PublishDelivered, TypeInv, TypeOK
  <2>. QED  BY <2>1, <2>2 DEF Claims, TypeInv, TypeOK, Counters
<1>. HIDE DEF r
<1>4. IsFiniteSet(Records) /\ IsFiniteSet(Workers)
  BY RecordsFinite DEF FiniteGroup
<1>5. /\ \A v \in Workers : Claims[v] \in Int
      /\ \A s \in Records : dlq[s] \in Int
      /\ Claims'[w] \in Int /\ dlq'[r] \in Int
  BY <1>1, <1>2, <1>3, ClaimsType
<1>6. SumFunctionOnSet(Claims', Workers)
        = SumFunctionOnSet(Claims, Workers) + Claims'[w] - Claims[w]
  BY <1>3, <1>4, <1>5, SumOfChange
<1>7. SumFunctionOnSet(dlq', Records) = SumFunctionOnSet(dlq, Records) + dlq'[r] - dlq[r]
  BY <1>1, <1>2, <1>4, <1>5, SumOfChange
<1>8. SumFunctionOnSet(Claims, Workers) \in Int /\ SumFunctionOnSet(dlq, Records) \in Int
  BY <1>4, <1>5, SumType
<1>9. SumFunctionOnSet(Claims, Workers) <= SumFunctionOnSet(dlq, Records)
  BY DEF ClaimsBacked
<1>10. Claims[w] \in Int /\ dlq[r] \in Int
  BY <1>1, <1>5
<1>. QED  BY <1>2, <1>3, <1>6, <1>7, <1>8, <1>9, <1>10

LEMMA NextClaims ==
    ASSUME FiniteGroup, TypeInv, TypeInv', ClaimsBacked, [Next]_vars
    PROVE  ClaimsBacked'
<1> SUFFICES ASSUME dlqLost' = {}
             PROVE  SumFunctionOnSet(Claims', Workers) <= SumFunctionOnSet(dlq', Records)
  BY DEF ClaimsBacked, Records
<1>1. dlqLost = {}
  BY HistoryGrows DEF vars, brokerVars
<1>2. ASSUME NEW w \in Workers, PublishLost(w) PROVE FALSE
  BY <1>2 DEF PublishLost
<1>3. CASE \E w \in Workers : PublishDelivered(w)
  BY <1>1, <1>3, PublishClaims
<1>4. CASE ~ \E w \in Workers : PublishDelivered(w)
  <2>1. UNCHANGED dlq /\ \A v \in Workers : Claims'[v] <= Claims[v]
    BY <1>2, <1>4, StepClaims
  <2>2. \A v \in Workers : Claims[v] \in Int /\ Claims'[v] \in Int
    <3>1. \A v \in Workers : Claims'[v] \in Nat
      BY DEF TypeInv, TypeOK, Counters, Claims
    <3>. QED  BY <3>1, ClaimsType
  <2>3. IsFiniteSet(Records) /\ IsFiniteSet(Workers)
    BY RecordsFinite DEF FiniteGroup
  <2>4. SumFunctionOnSet(Claims', Workers) <= SumFunctionOnSet(Claims, Workers)
    BY <2>1, <2>2, <2>3, SumOfAtMost
  <2>5. /\ SumFunctionOnSet(Claims, Workers) \in Int
        /\ SumFunctionOnSet(Claims', Workers) \in Int
    BY <2>2, <2>3, SumType
  <2>6. SumFunctionOnSet(dlq, Records) \in Int
    BY <2>3, ClaimsType, SumType
  <2>7. SumFunctionOnSet(Claims, Workers) <= SumFunctionOnSet(dlq, Records)
    BY <1>1 DEF ClaimsBacked
  <2>. QED  BY <2>1, <2>4, <2>5, <2>6, <2>7
<1>. QED  BY <1>3, <1>4

LEMMA InitClaims == ASSUME FiniteGroup, Init PROVE ClaimsBacked
<1>1. SumFunctionOnSet(Claims, Workers) = 0
  <2>1. \A w \in Workers : Claims[w] = 0
    BY DEF Init, Claims, NoCounts
  <2>. QED  BY <2>1, SumOfZeros DEF FiniteGroup
<1>2. SumFunctionOnSet(dlq, Records) = 0
  <2>1. \A r \in Records : dlq[r] = 0
    BY DEF Init, Records
  <2>. QED  BY <2>1, RecordsFinite, SumOfZeros
<1>. QED  BY <1>1, <1>2 DEF ClaimsBacked

\* What the counters say is at most what they claim.
LEMMA ClaimsImply == ASSUME FiniteGroup, TypeInv, ClaimsBacked PROVE MetricsNeverOverReport
<1> DEFINE said == [w \in Workers |-> metrics[w].dlq]
<1>1. \A w \in Workers : said[w] \in Int /\ Claims[w] \in Int /\ said[w] <= Claims[w]
  BY DEF TypeInv, TypeOK, Counters, Claims
<1>2. DOMAIN said = Workers /\ DOMAIN dlq = Records
  BY DEF TypeInv, TypeOK, Records
<1>. HIDE DEF said
<1>3. SumFunctionOnSet(said, Workers) <= SumFunctionOnSet(Claims, Workers)
  BY <1>1, SumOfAtMost DEF FiniteGroup
<1>4. /\ SumFunctionOnSet(said, Workers) \in Int
      /\ SumFunctionOnSet(Claims, Workers) \in Int
      /\ SumFunctionOnSet(dlq, Records) \in Int
  BY <1>1, RecordsFinite, ClaimsType, SumType DEF FiniteGroup
<1>5. dlqLost = {} => SumFunctionOnSet(said, Workers) <= SumFunctionOnSet(dlq, Records)
  BY <1>3, <1>4 DEF ClaimsBacked
<1>6. SumFunction(said) = SumFunctionOnSet(said, Workers)
      /\ SumFunction(dlq) = SumFunctionOnSet(dlq, Records)
  BY <1>2 DEF SumFunction
<1>. QED  BY <1>5, <1>6 DEF MetricsNeverOverReport, said

\* For any topics, faults and finite group: as long as the broker stored every
\* DLQ record, the workers' counters together never exceed what is on the topic,
\* although a record is counted only after the commit that follows it.
THEOREM CountersNeverOverReport ==
    ASSUME FiniteGroup PROVE Spec => []MetricsNeverOverReport
<1>1. Init => ClaimsBacked
  BY InitClaims
<1>2. TypeInv /\ TypeInv' /\ ClaimsBacked /\ [Next]_vars => ClaimsBacked'
  BY NextClaims
<1>3. TypeInv /\ ClaimsBacked => MetricsNeverOverReport
  BY ClaimsImply
<1>. QED  BY <1>1, <1>2, <1>3, TypeCorrect, PTL DEF Spec

-----------------------------------------------------------------------------
(* The guardrails' totals *)

\* The totals of one memory are the sums of its lines.
AddsUp(mem) ==
    \A o \in Orders :
        mem.totals[o] = SumFunctionOnSet([i \in Items |-> Share(mem, i, o)], Items)

LEMMA ShareType ==
    ASSUME NEW mem \in Memory, NEW i \in Items, NEW o PROVE Share(mem, i, o) \in Nat
  BY GuardrailAssumption DEF Memory, Line, Share

\* A line that is observed leaves its old order's total and enters the new one's.
LEMMA LineTotals ==
    ASSUME NEW mem \in Memory, NEW m \in RowMessages, At(m).table = "order_items",
           NEW o \in Orders
    PROVE  LET i == At(m).id
               next == ObserveLine(mem, At(m))
           IN  /\ i \in Items /\ next \in Memory
               /\ next.totals[o] = mem.totals[o] - Share(mem, i, o) + Share(next, i, o)
               /\ \A j \in Items \ {i} : Share(next, j, o) = Share(mem, j, o)
<1> DEFINE r == At(m)
           i == r.id
           next == ObserveLine(mem, r)
           line == [order |-> r.order, amount |-> r.amount]
           old == Withdrawn(mem, i)
<1>1. i \in Items /\ r.order \in Orders /\ r.amount \in Nat /\ line \in Line
  BY TransformerAssumption DEF LogAssumption, Line
<1>2. next \in Memory
  BY ObserveType DEF Observe
<1>3. next.lines = [mem.lines EXCEPT ![i] = line]
      /\ next.totals = [old EXCEPT ![r.order] = @ + r.amount]
  BY DEF ObserveLine
<1>4. mem.lines \in [Items -> Line \cup {NoLine}] /\ mem.totals \in [Orders -> Int]
  BY DEF Memory
<1>5. line # NoLine /\ line.order = r.order /\ line.amount = r.amount
  BY <1>1, GuardrailAssumption DEF Line
<1>6. old \in [Orders -> Int] /\ old[o] = mem.totals[o] - Share(mem, i, o)
  <2>1. CASE mem.lines[i] = NoLine
    BY <1>4, <2>1 DEF Withdrawn, Share
  <2>2. CASE mem.lines[i] # NoLine
    <3> DEFINE previous == mem.lines[i]
    <3>1. previous \in Line
      BY <1>1, <1>4, <2>2
    <3>2. previous.order \in Orders /\ previous.amount \in Nat
      BY <3>1 DEF Line
    <3>3. old = [mem.totals EXCEPT ![previous.order] = @ - previous.amount]
      BY <2>2 DEF Withdrawn
    <3>4. Share(mem, i, o) = IF previous.order = o THEN previous.amount ELSE 0
      BY <2>2 DEF Share
    <3>. HIDE DEF previous, old
    <3>. QED  BY <1>4, <3>2, <3>3, <3>4
  <2>. QED  BY <2>1, <2>2
<1>. HIDE DEF old
<1>7. Share(next, i, o) = IF r.order = o THEN r.amount ELSE 0
  <2>1. next.lines[i] = line
    BY <1>1, <1>3, <1>4
  <2>. QED  BY <1>5, <2>1 DEF Share
<1>8. next.totals[o] = old[o] + Share(next, i, o)
  BY <1>1, <1>3, <1>6, <1>7
<1>9. ASSUME NEW j \in Items \ {i} PROVE Share(next, j, o) = Share(mem, j, o)
  <2>1. next.lines[j] = mem.lines[j]
    BY <1>3, <1>4
  <2>. QED  BY <2>1 DEF Share
<1>. QED  BY <1>1, <1>2, <1>6, <1>8, <1>9

LEMMA ObserveAddsUp ==
    ASSUME IsFiniteSet(Items), NEW mem \in Memory, AddsUp(mem), NEW m \in RowMessages
    PROVE  AddsUp(Observe(mem, At(m)))
<1>1. CASE At(m).table = "order_items"
  <2> DEFINE i == At(m).id
             next == ObserveLine(mem, At(m))
  <2>1. Observe(mem, At(m)) = next
    BY <1>1 DEF Observe
  <2>2. SUFFICES ASSUME NEW o \in Orders
        PROVE  next.totals[o] = SumFunctionOnSet([j \in Items |-> Share(next, j, o)], Items)
    BY <2>1 DEF AddsUp
  <2> DEFINE f == [j \in Items |-> Share(mem, j, o)]
             g == [j \in Items |-> Share(next, j, o)]
  <2>3. /\ i \in Items /\ next \in Memory
        /\ next.totals[o] = mem.totals[o] - Share(mem, i, o) + Share(next, i, o)
        /\ \A j \in Items \ {i} : Share(next, j, o) = Share(mem, j, o)
    BY <1>1, LineTotals
  <2>. HIDE DEF next
  <2>4. \A j \in Items : f[j] \in Int /\ g[j] \in Int
    BY <2>3, ShareType
  <2>5. f[i] = Share(mem, i, o) /\ g[i] = Share(next, i, o)
    BY <2>3
  <2>6. \A j \in Items \ {i} : g[j] = f[j]
    BY <2>3
  <2>7. mem.totals[o] = SumFunctionOnSet(f, Items)
    BY DEF AddsUp
  <2>. HIDE DEF f, g, i
  <2>8. SumFunctionOnSet(g, Items) = SumFunctionOnSet(f, Items) + g[i] - f[i]
    BY <2>3, <2>4, <2>6, SumOfChange
  <2>9. SumFunctionOnSet(f, Items) \in Int /\ f[i] \in Int /\ g[i] \in Int
    BY <2>3, <2>4, SumType
  <2>10. next.totals[o] = SumFunctionOnSet(g, Items)
    BY <2>3, <2>5, <2>7, <2>8, <2>9
  <2>. QED  BY <2>10 DEF g
<1>2. CASE At(m).table # "order_items"
  <2>1. /\ Observe(mem, At(m)).totals = mem.totals
        /\ Observe(mem, At(m)).lines = mem.lines
    BY <1>2 DEF Observe, Memory
  <2>. QED  BY <2>1 DEF AddsUp, Share
<1>. QED  BY <1>1, <1>2

LEMMA EmptyMemoryAddsUp == ASSUME IsFiniteSet(Items) PROVE AddsUp(EmptyMemory)
<1> SUFFICES ASSUME NEW o \in Orders
    PROVE  0 = SumFunctionOnSet([i \in Items |-> Share(EmptyMemory, i, o)], Items)
  BY DEF AddsUp, EmptyMemory
<1>1. \A i \in Items : Share(EmptyMemory, i, o) = 0
  BY DEF Share, EmptyMemory
<1> DEFINE f == [i \in Items |-> Share(EmptyMemory, i, o)]
<1>2. \A i \in Items : f[i] = 0
  BY <1>1
<1>. HIDE DEF f
<1>3. SumFunctionOnSet(f, Items) = 0
  BY <1>2, SumOfZeros
<1>. QED  BY <1>3 DEF f

\* A memory is kept, emptied, or observes the row just written.
LEMMA StepMemory ==
    ASSUME TypeInv, [Next]_vars, NEW w \in Workers
    PROVE  \/ memory'[w] \in {memory[w], EmptyMemory}
           \/ /\ WriteSucceeds(w) /\ inflight[w] \in RowMessages
              /\ memory'[w] = Observe(memory[w], At(inflight[w]))
<1>1. CASE UNCHANGED vars
  BY <1>1 DEF vars, workerVars
<1>2. ASSUME NEW v \in Workers, Crash(v) \/ PublishRaises(v) \/ DlqCommitRaises(v)
      PROVE  memory'[w] \in {memory[w], EmptyMemory}
  BY <1>2 DEF Crash, PublishRaises, DlqCommitRaises, Dies, TypeInv, TypeOK
<1>3. ASSUME NEW v \in Workers,
             \/ Restart(v) \/ PollNothing(v) \/ Poll(v) \/ WriteRaises(v)
             \/ CommitSucceeds(v) \/ CommitRaises(v) \/ DlqCommitSucceeds(v)
             \/ PublishDelivered(v) \/ PublishLost(v)
      PROVE  UNCHANGED memory
  BY <1>3 DEF Restart, PollNothing, Poll, WriteRaises, CommitSucceeds, CommitRaises,
     DlqCommitSucceeds, PublishDelivered, PublishLost, vars, workerVars
<1>4. ASSUME NEW v \in Workers, WriteSucceeds(v), v # w PROVE memory'[w] = memory[w]
  BY <1>4 DEF WriteSucceeds, TypeInv, TypeOK
<1>5. ASSUME WriteSucceeds(w)
      PROVE  /\ inflight[w] \in RowMessages
             /\ memory'[w] = Observe(memory[w], At(inflight[w]))
  BY <1>5 DEF WriteSucceeds, TypeInv, TypeOK, InflightOK
<1>6. ASSUME NEW p \in Partitions, NEW v \in Workers, AssignOrphan(p, v) \/ Rebalance(p, v)
      PROVE  UNCHANGED memory
  BY <1>6 DEF AssignOrphan, Rebalance, Assign, workerVars
<1>. QED  BY <1>1, <1>2, <1>3, <1>4, <1>5, <1>6 DEF Next

\* For any topics, workers and faults: the order totals payments are checked
\* against are the sums of the lines remembered, whatever versions of a line
\* came, in whatever order and however often.
THEOREM TotalsHold == ASSUME IsFiniteSet(Items) PROVE Spec => []TotalsAddUp
<1> DEFINE Inv == \A w \in Workers : AddsUp(memory[w])
<1>1. Init => Inv
  BY EmptyMemoryAddsUp DEF Init
<1>2. ASSUME TypeInv, Inv, [Next]_vars PROVE Inv'
  <2> SUFFICES ASSUME NEW w \in Workers PROVE AddsUp(memory'[w])
    BY DEF AddsUp, Share
  <2>1. memory[w] \in Memory /\ AddsUp(memory[w])
    BY <1>2 DEF TypeInv, TypeOK
  <2>. QED  BY <1>2, <2>1, StepMemory, EmptyMemoryAddsUp, ObserveAddsUp
<1>3. Inv => TotalsAddUp
  BY DEF TotalsAddUp, AddsUp, SumFunction
<1>. QED  BY <1>1, <1>2, <1>3, TypeCorrect, PTL DEF Spec

-----------------------------------------------------------------------------
(* One worker *)

\* The group has one member (replicaCount 1).
OneWorker == \A v, w \in Workers : v = w

\* The versions of a dimension row are messages of one partition.
VersionsTogether ==
    \A m, n \in RowMessages :
        IsDimension(At(m)) /\ RowKey(At(m)) = RowKey(At(n)) => m[1] = n[1]

\* What the worker holds is the message at the committed offset, and the
\* position of each partition it owns is there or just behind that message.
OneAhead ==
    \A w \in Workers :
        /\ pc[w] \notin {"poll", "down"} => inflight[w][2] = committed[inflight[w][1]]
        /\ \A p \in Partitions : owner[p] = w =>
              position[p] = IF pc[w] \notin {"poll", "down"} /\ inflight[w][1] = p
                            THEN committed[p] + 1 ELSE committed[p]

\* No row is of a version beyond the committed offset of its partition.
RowsBehind ==
    \A k \in RowKeys : table[k] # None => table[k][2] <= committed[table[k][1]]

InOrderInv == OneAhead /\ RowsBehind

-----------------------------------------------------------------------------

\* A commit moves the offset of one partition on by one.
LEMMA CommitByOne ==
    ASSUME TypeInv, OneAhead, NEW w \in Workers, pc[w] \notin {"poll", "down"},
           CommitInflight(w)
    PROVE  committed' = [committed EXCEPT ![inflight[w][1]] = @ + 1]
  BY DEF OneAhead, CommitInflight, CommitOffset, TypeInv, TypeOK

LEMMA CommitForward ==
    ASSUME TypeInv, OneAhead, NEW w \in Workers, pc[w] \notin {"poll", "down"},
           CommitInflight(w)
    PROVE  \A p \in Partitions : committed'[p] \in Nat /\ committed'[p] >= committed[p]
<1> DEFINE q == inflight[w][1]
<1>1. committed' = [committed EXCEPT ![q] = @ + 1]
  BY CommitByOne
<1>2. committed \in [Partitions -> Nat]
  BY DEF TypeInv, TypeOK
<1> HIDE DEF q
<1>. QED  BY <1>1, <1>2

\* Only commits move committed offsets.
LEMMA StepCommits ==
    ASSUME [Next]_vars
    PROVE  \/ UNCHANGED committed
           \/ \E w \in Workers : /\ pc[w] \notin {"poll", "down"} /\ CommitInflight(w)
                                 /\ UNCHANGED table
<1>1. CASE UNCHANGED vars
  BY <1>1 DEF vars, brokerVars
<1>2. ASSUME NEW w \in Workers, CommitSucceeds(w) \/ DlqCommitSucceeds(w)
      PROVE  /\ pc[w] \notin {"poll", "down"} /\ CommitInflight(w)
             /\ UNCHANGED table
  BY <1>2 DEF CommitSucceeds, DlqCommitSucceeds, storeVars
<1>3. ASSUME NEW w \in Workers,
             \/ Crash(w) \/ Restart(w) \/ PollNothing(w) \/ Poll(w)
             \/ WriteSucceeds(w) \/ WriteRaises(w) \/ CommitRaises(w)
             \/ PublishDelivered(w) \/ PublishLost(w) \/ PublishRaises(w)
             \/ DlqCommitRaises(w)
      PROVE  UNCHANGED committed
  BY <1>3 DEF Crash, Restart, PollNothing, Poll, WriteSucceeds, WriteRaises, CommitRaises,
     PublishDelivered, PublishLost, PublishRaises, DlqCommitRaises, vars, brokerVars
<1>4. ASSUME NEW p \in Partitions, NEW w \in Workers, AssignOrphan(p, w) \/ Rebalance(p, w)
      PROVE  UNCHANGED committed
  BY <1>4 DEF AssignOrphan, Rebalance, Assign
<1>. QED  BY <1>1, <1>2, <1>3, <1>4 DEF Next

-----------------------------------------------------------------------------
(* OneAhead *)

LEMMA DiesKeepsAhead ==
    ASSUME OneWorker, TypeInv, OneAhead, NEW w \in Workers, Dies(w), UNCHANGED committed
    PROVE  OneAhead'
<1> SUFFICES ASSUME NEW v \in Workers PROVE
        /\ (pc[v] \notin {"poll", "down"} => inflight[v][2] = committed[inflight[v][1]])'
        /\ \A p \in Partitions : owner'[p] # v
  BY DEF OneAhead
<1>1. v = w
  BY DEF OneWorker
<1>2. pc'[v] = "down"
  BY <1>1 DEF Dies, TypeInv, TypeOK
<1>3. \A p \in Partitions : owner'[p] # v
  BY <1>1, TransformerAssumption DEF Dies
<1>. QED  BY <1>2, <1>3

LEMMA AssignKeepsAhead ==
    ASSUME OneWorker, TypeInv, OneAhead, NEW q \in Partitions, NEW w \in Workers, Assign(q, w)
    PROVE  OneAhead'
<1>1. pc[w] = "poll" /\ pc'[w] = "poll"
  BY DEF Assign, workerVars
<1>2. ASSUME NEW p \in Partitions, owner'[p] = w PROVE position'[p] = committed'[p]
  <2>1. CASE p = q
    BY <2>1 DEF Assign, TypeInv, TypeOK
  <2>2. CASE p # q
    BY <1>1, <1>2, <2>2 DEF Assign, OneAhead, TypeInv, TypeOK
  <2>. QED  BY <2>1, <2>2
<1>. QED  BY <1>1, <1>2 DEF OneAhead, OneWorker

LEMMA PollKeepsAhead ==
    ASSUME OneWorker, TypeInv, OneAhead, NEW w \in Workers, Poll(w)
    PROVE  OneAhead'
<1>1. PICK q \in Partitions :
        /\ owner[q] = w /\ position[q] < Len(Log[q])
        /\ inflight' = [inflight EXCEPT ![w] = <<q, position[q]>>]
        /\ position' = [position EXCEPT ![q] = @ + 1]
        /\ pc'[w] \in {"publish", "write", "commit"}
  BY DEF Poll, TypeInv, TypeOK
<1>2. pc[w] = "poll" /\ UNCHANGED <<committed, owner>>
  BY DEF Poll
<1>3. position[q] = committed[q]
  BY <1>1, <1>2 DEF OneAhead
<1>4. inflight'[w] = <<q, committed[q]>>
  BY <1>1, <1>3 DEF TypeInv, TypeOK
<1>5. ASSUME NEW p \in Partitions, owner[p] = w
      PROVE  position'[p] = IF p = q THEN committed[p] + 1 ELSE committed[p]
  BY <1>1, <1>2, <1>3, <1>5 DEF OneAhead, TypeInv, TypeOK
<1>. QED  BY <1>1, <1>2, <1>4, <1>5 DEF OneAhead, OneWorker

LEMMA CommitKeepsAhead ==
    ASSUME OneWorker, TypeInv, OneAhead, NEW w \in Workers, pc[w] \notin {"poll", "down"},
           CommitInflight(w), Return(w), UNCHANGED <<owner, position>>
    PROVE  OneAhead'
<1> DEFINE q == inflight[w][1]
<1>1. q \in Partitions
  BY MessageFacts DEF TypeInv, InflightOK
<1>2. committed' = [committed EXCEPT ![q] = @ + 1]
  BY CommitByOne
<1>3. pc'[w] = "poll"
  BY DEF Return, TypeInv, TypeOK
<1>4. \A p \in Partitions : owner[p] = w =>
        position[p] = IF q = p THEN committed[p] + 1 ELSE committed[p]
  BY DEF OneAhead
<1> HIDE DEF q
<1>5. \A p \in Partitions : owner'[p] = w => position'[p] = committed'[p]
  BY <1>1, <1>2, <1>4 DEF TypeInv, TypeOK
<1>. QED  BY <1>3, <1>5 DEF OneAhead, OneWorker

\* A call that leaves offsets and message alone, and the worker in between two
\* polls, out of them or away.
LEMMA CallKeepsAhead ==
    ASSUME OneWorker, TypeInv, OneAhead, NEW w \in Workers,
           UNCHANGED <<committed, owner, position, inflight>>,
           (pc[w] \in {"poll", "down"}) <=> (pc'[w] \in {"poll", "down"})
    PROVE  OneAhead'
  BY DEF OneAhead, OneWorker

LEMMA NextKeepsAhead ==
    ASSUME OneWorker, TypeInv, OneAhead, [Next]_vars
    PROVE  OneAhead'
<1>1. CASE UNCHANGED vars
  BY <1>1 DEF OneAhead, vars, brokerVars, workerVars
<1>2. ASSUME NEW w \in Workers, Crash(w) \/ PublishRaises(w) \/ DlqCommitRaises(w)
      PROVE  OneAhead'
  BY <1>2, DiesKeepsAhead DEF Crash, PublishRaises, DlqCommitRaises
<1>3. ASSUME NEW w \in Workers, Poll(w) PROVE OneAhead'
  BY <1>3, PollKeepsAhead
<1>4. ASSUME NEW w \in Workers, CommitSucceeds(w) \/ DlqCommitSucceeds(w)
      PROVE  OneAhead'
  BY <1>4, CommitKeepsAhead DEF CommitSucceeds, DlqCommitSucceeds
<1>5. ASSUME NEW w \in Workers,
             \/ Restart(w) \/ WriteSucceeds(w) \/ WriteRaises(w) \/ CommitRaises(w)
             \/ PublishDelivered(w) \/ PublishLost(w)
      PROVE  OneAhead'
  <2>1. UNCHANGED <<committed, owner, position, inflight>>
    BY <1>5 DEF Restart, WriteSucceeds, WriteRaises, CommitRaises, PublishDelivered,
       PublishLost, brokerVars
  <2>2. (pc[w] \in {"poll", "down"}) <=> (pc'[w] \in {"poll", "down"})
    BY <1>5 DEF Restart, WriteSucceeds, WriteRaises, CommitRaises, PublishDelivered,
       PublishLost, TypeInv, TypeOK
  <2>. QED  BY <2>1, <2>2, CallKeepsAhead
<1>6. ASSUME NEW w \in Workers, PollNothing(w) PROVE OneAhead'
  BY <1>1, <1>6 DEF PollNothing
<1>7. ASSUME NEW p \in Partitions, NEW w \in Workers, AssignOrphan(p, w) \/ Rebalance(p, w)
      PROVE  OneAhead'
  BY <1>7, AssignKeepsAhead DEF AssignOrphan, Rebalance
<1>. QED  BY <1>1, <1>2, <1>3, <1>4, <1>5, <1>6, <1>7 DEF Next

-----------------------------------------------------------------------------
(* RowsBehind *)

\* What a step may do to the table: nothing, or upsert the message in hand.
LEMMA StepUpserts ==
    ASSUME TypeInv, [Next]_vars
    PROVE  \/ UNCHANGED table
           \/ /\ UNCHANGED committed
              /\ \E w \in Workers : /\ pc[w] = "write" /\ inflight[w] \in RowMessages
                                    /\ Upsert(inflight[w])
<1>1. CASE UNCHANGED vars
  BY <1>1 DEF vars, storeVars
<1>2. ASSUME NEW w \in Workers, WriteSucceeds(w) \/ WriteRaises(w)
      PROVE  /\ pc[w] = "write" /\ inflight[w] \in RowMessages /\ UNCHANGED committed
             /\ UNCHANGED table \/ Upsert(inflight[w])
  BY <1>2 DEF WriteSucceeds, WriteRaises, TypeInv, InflightOK, brokerVars, storeVars
<1>3. ASSUME NEW w \in Workers,
             \/ Crash(w) \/ Restart(w) \/ PollNothing(w) \/ Poll(w)
             \/ CommitSucceeds(w) \/ CommitRaises(w)
             \/ PublishDelivered(w) \/ PublishLost(w) \/ PublishRaises(w)
             \/ DlqCommitSucceeds(w) \/ DlqCommitRaises(w)
      PROVE  UNCHANGED table
  BY <1>3 DEF Crash, Restart, PollNothing, Poll, CommitSucceeds, CommitRaises,
     PublishDelivered, PublishLost, PublishRaises, DlqCommitSucceeds, DlqCommitRaises,
     vars, storeVars
<1>4. ASSUME NEW p \in Partitions, NEW w \in Workers, AssignOrphan(p, w) \/ Rebalance(p, w)
      PROVE  UNCHANGED table
  BY <1>4 DEF AssignOrphan, Rebalance, Assign, storeVars
<1>. QED  BY <1>1, <1>2, <1>3, <1>4 DEF Next

\* After an upsert a key has its old row or the message in hand, which is at
\* the committed offset of its partition.
LEMMA UpsertedRow ==
    ASSUME TypeInv, OneAhead, NEW w \in Workers, pc[w] = "write",
           inflight[w] \in RowMessages, Upsert(inflight[w]), NEW k \in RowKeys
    PROVE  \/ table'[k] = table[k]
           \/ /\ k = RowKey(At(inflight[w])) /\ table'[k] = inflight[w]
              /\ inflight[w][2] = committed[inflight[w][1]]
<1>1. inflight[w][2] = committed[inflight[w][1]]
  BY DEF OneAhead
<1>. QED  BY <1>1 DEF Upsert, TypeInv, TypeOK

LEMMA NextKeepsBehind ==
    ASSUME TypeInv, OneAhead, RowsBehind, [Next]_vars
    PROVE  RowsBehind'
<1> SUFFICES ASSUME NEW k \in RowKeys, table'[k] # None
             PROVE  table'[k][2] <= committed'[table'[k][1]]
  BY DEF RowsBehind
<1>1. table[k] \in Messages \cup {None}
  BY DEF TypeInv, TypeOK
<1>2. CASE table'[k] = table[k]
  <2>1. /\ table[k][1] \in Partitions /\ table[k][2] \in Nat
        /\ table[k][2] <= committed[table[k][1]]
    BY <1>1, <1>2, MessageFacts DEF RowsBehind
  <2>2. /\ committed[table[k][1]] \in Nat /\ committed'[table[k][1]] \in Nat
        /\ committed'[table[k][1]] >= committed[table[k][1]]
    BY <2>1, StepCommits, CommitForward DEF TypeInv, TypeOK
  <2>. QED  BY <1>2, <2>1, <2>2
<1>3. CASE table'[k] # table[k]
  <2>1. PICK w \in Workers : /\ pc[w] = "write" /\ inflight[w] \in RowMessages
                             /\ Upsert(inflight[w]) /\ UNCHANGED committed
    BY <1>3, StepUpserts
  <2>2. /\ table'[k] = inflight[w]
        /\ inflight[w][2] = committed[inflight[w][1]]
    BY <1>3, <2>1, UpsertedRow
  <2>3. inflight[w][2] \in Nat
    BY <2>1, MessageFacts DEF RowMessages
  <2>. QED  BY <2>1, <2>2, <2>3
<1>. QED  BY <1>2, <1>3

-----------------------------------------------------------------------------

\* Both parts of the invariant, for a single worker.
LEMMA InOrderHolds == ASSUME OneWorker PROVE Spec => []InOrderInv
<1>1. Init => InOrderInv
  BY TransformerAssumption DEF Init, InOrderInv, OneAhead, RowsBehind
<1>2. TypeInv /\ InOrderInv /\ [Next]_vars => InOrderInv'
  BY NextKeepsAhead, NextKeepsBehind DEF InOrderInv
<1>. QED  BY <1>1, <1>2, TypeCorrect, PTL DEF Spec

\* With one worker the committed offset of a partition never moves back,
\* although a failed record is committed a second time after the DLQ publish
\* and every crash fetches from the committed offset again.
THEOREM OffsetsNeverRewind == ASSUME OneWorker PROVE Spec => CommittedNeverRewinds
<1>1. ASSUME TypeInv, InOrderInv, [Next]_vars
      PROVE  [\A p \in Partitions : committed'[p] >= committed[p]]_vars
  <2>1. CASE UNCHANGED committed
    <3>1. \A p \in Partitions : committed[p] \in Nat
      BY <1>1 DEF TypeInv, TypeOK
    <3>. QED  BY <2>1, <3>1
  <2>2. CASE \E w \in Workers : /\ pc[w] \notin {"poll", "down"} /\ CommitInflight(w)
                                /\ UNCHANGED table
    BY <1>1, <2>2, CommitForward DEF InOrderInv
  <2>. QED  BY <1>1, <2>1, <2>2, StepCommits
<1>. QED
  BY <1>1, TypeCorrect, InOrderHolds, PTL DEF Spec, CommittedNeverRewinds

\* With one worker, and the versions of each dimension row on one partition,
\* an earlier version never overwrites a later one, however often a crash or a
\* failed commit has messages delivered again.
THEOREM DimensionsMoveForward ==
    ASSUME OneWorker, VersionsTogether PROVE Spec => DimensionsNeverRegress
<1>1. ASSUME TypeInv, InOrderInv, TableReflectsWrites, [Next]_vars
      PROVE  [\A k \in RowKeys :
                table[k] # None /\ IsDimension(At(table[k]))
                    => table'[k][2] >= table[k][2]]_vars
  <2> SUFFICES ASSUME NEW k \in RowKeys, table[k] # None, IsDimension(At(table[k]))
               PROVE  table'[k][2] >= table[k][2]
    OBVIOUS
  <2>1. table[k] \in RowMessages /\ RowKey(At(table[k])) = k
    BY <1>1 DEF TableReflectsWrites
  <2>2. /\ table[k][1] \in Partitions /\ table[k][2] \in Nat
        /\ table[k][2] <= committed[table[k][1]]
    BY <1>1, <2>1, MessageFacts DEF InOrderInv, RowsBehind, RowMessages
  <2>3. CASE table'[k] = table[k]
    BY <2>2, <2>3
  <2>4. CASE table'[k] # table[k]
    <3>1. PICK w \in Workers : /\ pc[w] = "write" /\ inflight[w] \in RowMessages
                               /\ Upsert(inflight[w])
      BY <1>1, <2>4, StepUpserts
    <3>2. /\ k = RowKey(At(inflight[w])) /\ table'[k] = inflight[w]
          /\ inflight[w][2] = committed[inflight[w][1]]
      BY <1>1, <2>4, <3>1, UpsertedRow DEF InOrderInv
    <3>3. inflight[w][1] = table[k][1]
      BY <2>1, <3>1, <3>2 DEF VersionsTogether
    <3>4. inflight[w][2] \in Nat
      BY <3>1, MessageFacts DEF RowMessages
    <3>. QED  BY <2>2, <3>2, <3>3, <3>4
  <2>. QED  BY <2>3, <2>4
<1>. QED
  BY <1>1, TypeCorrect, InOrderHolds, TableHolds, PTL DEF Spec, DimensionsNeverRegress

-----------------------------------------------------------------------------
(* Payments are covered by the lines in Cassandra *)

\* The versions of an order line are messages of one partition.
LinesTogether ==
    \A m, n \in RowMessages :
        /\ At(m).table = "order_items" /\ At(n).table = "order_items"
        /\ At(m).id = At(n).id
        => m[1] = n[1]

\* What write_applied does is excluded: a row in Cassandra the guardrails have
\* not observed.
CoverAssumption ==
    /\ OneWorker /\ Strict /\ LinesTogether
    /\ "write_applied" \notin FaultKinds
    /\ IsFiniteSet(Items)

\* Nothing beyond the committed offsets has been written.
WrittenBehind == \A m \in written : m[2] <= committed[m[1]]

\* A line that is remembered is in its last version written.
LatestIn(mem, messages) ==
    \A i \in Items : mem.lines[i] # NoLine =>
        \E m \in LastVersions(i, messages) :
            mem.lines[i] = [order |-> At(m).order, amount |-> At(m).amount]

MemoryLatest == \A w \in Workers : LatestIn(memory[w], written)

\* A captured payment about to be written is covered.
PaymentsCovered ==
    \A w \in Workers : pc[w] = "write" /\ IsCapturedPayment(inflight[w]) =>
        At(inflight[w]).amount <= OrderTotal(At(inflight[w]).order, written) + Tolerance

CoverInv == WrittenBehind /\ MemoryLatest /\ PaymentsCovered

-----------------------------------------------------------------------------

LEMMA LastVersionUnique ==
    ASSUME LinesTogether, NEW i, NEW S \in SUBSET Messages,
           NEW m \in LastVersions(i, S), NEW n \in LastVersions(i, S)
    PROVE  m = n
<1>1. m \in RowMessages /\ n \in RowMessages /\ m[2] <= n[2] /\ n[2] <= m[2]
  BY DEF LastVersions
<1>2. m[1] = n[1]
  BY <1>1 DEF LinesTogether, LastVersions
<1>3. m \in Messages /\ n \in Messages
  BY <1>1 DEF RowMessages
<1>4. m[2] \in Nat /\ n[2] \in Nat /\ m = <<m[1], m[2]>> /\ n = <<n[1], n[2]>>
  BY <1>3, MessageFacts
<1>5. m[2] = n[2]
  BY <1>1, <1>4
<1>. QED  BY <1>2, <1>4, <1>5

LEMMA LastShareType ==
    ASSUME NEW i, NEW o, NEW S PROVE LastShare(i, o, S) \in Nat
<1> DEFINE last == {m \in LastVersions(i, S) : At(m).order = o}
<1>1. ASSUME last # {} PROVE At(CHOOSE m \in last : TRUE).amount \in Nat
  <2>1. \E m \in last : TRUE
    BY <1>1
  <2>2. (CHOOSE m \in last : TRUE) \in last
    <3>. HIDE DEF last
    <3>. QED  BY <2>1
  <2>. QED  BY <2>2, TransformerAssumption DEF LastVersions, LogAssumption
<1>. QED  BY <1>1 DEF LastShare

\* What is remembered of a line is no more than what is written of it.
LEMMA ShareIsWritten ==
    ASSUME LinesTogether, NEW mem \in Memory, NEW S \in SUBSET Messages,
           LatestIn(mem, S), NEW i \in Items, NEW o
    PROVE  Share(mem, i, o) <= LastShare(i, o, S)
<1> DEFINE last == {m \in LastVersions(i, S) : At(m).order = o}
<1>1. CASE mem.lines[i] # NoLine /\ mem.lines[i].order = o
  <2>1. PICK m \in LastVersions(i, S) :
            mem.lines[i] = [order |-> At(m).order, amount |-> At(m).amount]
    BY <1>1 DEF LatestIn
  <2>2. m \in last /\ mem.lines[i].amount = At(m).amount
    BY <1>1, <2>1
  <2>3. (CHOOSE n \in last : TRUE) \in last
    <3>. HIDE DEF last
    <3>. QED  BY <2>2
  <2>4. (CHOOSE n \in last : TRUE) = m
    BY <2>2, <2>3, LastVersionUnique
  <2>5. LastShare(i, o, S) = At(m).amount /\ Share(mem, i, o) = At(m).amount
    BY <1>1, <2>2, <2>4 DEF LastShare, Share
  <2>. QED  BY <2>5, LastShareType
<1>2. CASE ~(mem.lines[i] # NoLine /\ mem.lines[i].order = o)
  BY <1>2, LastShareType DEF Share
<1>. QED  BY <1>1, <1>2

LEMMA TotalIsWritten ==
    ASSUME LinesTogether, IsFiniteSet(Items), NEW mem \in Memory, AddsUp(mem),
           NEW S \in SUBSET Messages, LatestIn(mem, S), NEW o \in Orders
    PROVE  /\ mem.totals[o] \in Int /\ OrderTotal(o, S) \in Int
           /\ mem.totals[o] <= OrderTotal(o, S)
<1> DEFINE f == [i \in Items |-> Share(mem, i, o)]
           g == [i \in Items |-> LastShare(i, o, S)]
<1>1. \A i \in Items : f[i] \in Int /\ g[i] \in Int /\ f[i] <= g[i]
  BY ShareType, LastShareType, ShareIsWritten
<1>2. mem.totals[o] = SumFunctionOnSet(f, Items) /\ OrderTotal(o, S) = SumFunctionOnSet(g, Items)
  BY DEF AddsUp, OrderTotal, SumFunction
<1>. HIDE DEF f, g
<1>. QED  BY <1>1, <1>2, SumOfAtMost, SumType

\* Only rows count.
LEMMA SameRows ==
    ASSUME NEW S, NEW T, S \cap RowMessages = T \cap RowMessages
    PROVE  /\ \A o : OrderTotal(o, S) = OrderTotal(o, T)
           /\ \A mem : LatestIn(mem, S) => LatestIn(mem, T)
<1>1. \A i : LastVersions(i, S) = LastVersions(i, T)
  BY DEF LastVersions
<1>. QED  BY <1>1 DEF OrderTotal, LastShare, LatestIn

LEMMA EmptyMemoryLatest == ASSUME NEW S PROVE LatestIn(EmptyMemory, S)
  BY DEF LatestIn, EmptyMemory

-----------------------------------------------------------------------------

\* A message is written at the committed offset of its partition.
LEMMA NextWrittenBehind ==
    ASSUME TypeInv, OneAhead, WrittenBehind, [Next]_vars PROVE WrittenBehind'
<1>1. ASSUME NEW m \in Messages, m[2] <= committed[m[1]]
      PROVE  m[2] <= committed'[m[1]]
  <2>1. m[1] \in Partitions /\ m[2] \in Nat
    BY MessageFacts
  <2>2. /\ committed[m[1]] \in Nat /\ committed'[m[1]] \in Nat
        /\ committed'[m[1]] >= committed[m[1]]
    BY <2>1, StepCommits, CommitForward DEF TypeInv, TypeOK
  <2>. QED  BY <1>1, <2>1, <2>2
<1>2. ASSUME NEW w \in Workers, WriteSucceeds(w) \/ WriteRaises(w)
      PROVE  \A m \in written' \ written : m \in Messages /\ m[2] <= committed[m[1]]
  <2>1. written' = written \/ written' = written \cup {inflight[w]}
    BY <1>2 DEF WriteSucceeds, WriteRaises, Upsert, storeVars
  <2>2. inflight[w] \in Messages /\ inflight[w][2] = committed[inflight[w][1]]
    BY <1>2 DEF WriteSucceeds, WriteRaises, OneAhead, TypeInv, InflightOK
  <2>3. inflight[w][2] \in Nat
    BY <2>2, MessageFacts
  <2>. QED  BY <2>1, <2>2, <2>3
<1>3. ASSUME NEW w \in Workers, Poll(w)
      PROVE  \A m \in written' \ written : m \in Messages /\ m[2] <= committed[m[1]]
  <2>1. PICK p \in Partitions :
          /\ owner[p] = w /\ position[p] < Len(Log[p])
          /\ written' \in {written, written \cup {<<p, position[p]>>}}
    BY <1>3 DEF Poll
  <2>2. position[p] = committed[p] /\ committed[p] \in Nat
    BY <1>3, <2>1 DEF OneAhead, Poll, TypeInv, TypeOK
  <2>3. <<p, position[p]>> \in Messages
    BY <2>1, OffsetIsMessage DEF TypeInv, TypeOK
  <2>. QED  BY <2>1, <2>2, <2>3
<1>4. ASSUME ~ \E w \in Workers : Poll(w) \/ WriteSucceeds(w) \/ WriteRaises(w)
      PROVE  written' = written
  BY <1>4, OtherStepsKeepStore DEF storeVars
<1>5. \A m \in written : m \in Messages /\ m[2] <= committed[m[1]]
  BY DEF TypeInv, TypeOK, WrittenBehind
<1>6. \A m \in written' : m \in Messages /\ m[2] <= committed[m[1]]
  BY <1>2, <1>3, <1>4, <1>5
<1>. QED  BY <1>1, <1>6 DEF WrittenBehind

\* The only step that adds a row to those written is the write it is for.
LEMMA StepWrites ==
    ASSUME CoverAssumption, TypeInv, [Next]_vars
    PROVE  \/ written' \cap RowMessages = written \cap RowMessages
           \/ \E w \in Workers : WriteSucceeds(w)
<1>1. ASSUME NEW w \in Workers, Poll(w)
      PROVE  written' \cap RowMessages = written \cap RowMessages
  <2>1. PICK p \in Partitions :
          written' = IF /\ Objection(memory[w], At(<<p, position[p]>>)) = None
                        /\ ~<<p, position[p]>> \in RowMessages
                     THEN written \cup {<<p, position[p]>>} ELSE written
    BY <1>1 DEF Poll
  <2>. QED  BY <2>1
<1>2. ASSUME NEW w \in Workers, WriteRaises(w) PROVE written' = written
  BY <1>2 DEF WriteRaises, CoverAssumption, Fault, storeVars
<1>. QED  BY <1>1, <1>2, OtherStepsKeepStore DEF storeVars

\* The line just written is the last version of it, and the one remembered.
LEMMA WriteLatest ==
    ASSUME CoverAssumption, TypeInv, OneAhead, CoverInv, NEW w \in Workers, WriteSucceeds(w)
    PROVE  LatestIn(memory'[w], written')
<1> DEFINE m == inflight[w]
           mem == memory[w]
<1>1. /\ m \in RowMessages /\ mem \in Memory /\ LatestIn(mem, written)
      /\ written' = written \cup {m} /\ memory'[w] = Observe(mem, At(m))
      /\ m[2] = committed[m[1]]
  BY DEF WriteSucceeds, Upsert, TypeInv, TypeOK, InflightOK, OneAhead, CoverInv, MemoryLatest
<1>2. \A n \in written : n \in Messages /\ n[2] <= committed[n[1]]
  BY DEF TypeInv, TypeOK, CoverInv, WrittenBehind
<1>. HIDE DEF m, mem
<1>3. m[2] \in Nat
  BY <1>1, MessageFacts DEF RowMessages
<1> SUFFICES ASSUME NEW i \in Items, memory'[w].lines[i] # NoLine
    PROVE  \E n \in LastVersions(i, written') :
              memory'[w].lines[i] = [order |-> At(n).order, amount |-> At(n).amount]
  BY DEF LatestIn
<1>4. CASE At(m).table = "order_items" /\ At(m).id = i
  <2>1. memory'[w].lines[i] = [order |-> At(m).order, amount |-> At(m).amount]
    BY <1>1, <1>4 DEF Observe, ObserveLine, Memory
  <2>2. ASSUME NEW n \in written' \cap RowMessages, At(n).table = "order_items", At(n).id = i
        PROVE  n[2] <= m[2]
    <3>1. n[1] = m[1]
      BY <1>1, <1>4, <2>2 DEF CoverAssumption, LinesTogether
    <3>2. CASE n = m
      BY <1>3, <3>2
    <3>3. CASE n \in written
      BY <1>1, <1>2, <3>1, <3>3
    <3>. QED  BY <1>1, <3>2, <3>3
  <2>3. m \in LastVersions(i, written')
    BY <1>1, <1>4, <2>2 DEF LastVersions
  <2>. QED  BY <2>1, <2>3
<1>5. CASE ~(At(m).table = "order_items" /\ At(m).id = i)
  <2>1. LastVersions(i, written') = LastVersions(i, written)
    BY <1>1, <1>5 DEF LastVersions
  <2>2. memory'[w].lines[i] = mem.lines[i]
    <3>1. mem.lines \in [Items -> Line \cup {NoLine}]
      BY <1>1 DEF Memory
    <3>2. CASE At(m).table = "order_items"
      BY <1>1, <1>5, <3>1, <3>2 DEF Observe, ObserveLine
    <3>3. CASE At(m).table # "order_items"
      BY <1>1, <3>3 DEF Observe, Memory
    <3>. QED  BY <3>2, <3>3
  <2>. QED  BY <1>1, <2>1, <2>2 DEF LatestIn
<1>. QED  BY <1>4, <1>5

LEMMA NextMemoryLatest ==
    ASSUME CoverAssumption, TypeInv, OneAhead, CoverInv, [Next]_vars
    PROVE  MemoryLatest'
<1> SUFFICES ASSUME NEW w \in Workers PROVE LatestIn(memory'[w], written')
  BY DEF MemoryLatest, LatestIn, LastVersions
<1>1. CASE WriteSucceeds(w)
  BY <1>1, WriteLatest
<1>2. CASE ~WriteSucceeds(w)
  <2>1. memory'[w] \in {memory[w], EmptyMemory}
    BY <1>2, StepMemory
  <2>2. written' \cap RowMessages = written \cap RowMessages
    BY <1>2, StepWrites DEF CoverAssumption, OneWorker
  <2>3. LatestIn(memory[w], written)
    BY DEF CoverInv, MemoryLatest
  <2>. QED  BY <2>1, <2>2, <2>3, SameRows, EmptyMemoryLatest
<1>. QED  BY <1>1, <1>2

\* A payment the guardrails admit is covered by what they remember.
LEMMA AdmittedCovered ==
    ASSUME CoverAssumption, TypeInv, CoverInv, TotalsAddUp, NEW w \in Workers,
           NEW m, IsCapturedPayment(m), Objection(memory[w], At(m)) = None
    PROVE  At(m).amount <= OrderTotal(At(m).order, written) + Tolerance
<1> DEFINE mem == memory[w]
           o == At(m).order
<1>1. /\ m \in RowMessages /\ At(m).table = "payments" /\ At(m).status = "captured"
      /\ At(m).amount \in Nat
  BY TransformerAssumption DEF IsCapturedPayment, LogAssumption
<1>2. mem \in Memory /\ LatestIn(mem, written) /\ written \in SUBSET Messages
  BY DEF TypeInv, TypeOK, CoverInv, MemoryLatest
<1>3. o \in mem.known
  BY <1>1, AdmittedKnown DEF CoverAssumption
<1>4. o \in Orders
  BY <1>2, <1>3 DEF Memory
<1>5. ~Overpays(mem, At(m))
  <2>1. Verdict(At(m)) = "row" /\ "validation" # None
    BY <1>1, TransformerAssumption DEF RowMessages, HasRow, Errors
  <2>2. Admits(mem, At(m))
    BY <2>1 DEF Objection, HasRow
  <2>. QED  BY <1>1, <2>2 DEF Admits, PaymentIssues
<1>6. AddsUp(mem)
  BY DEF TotalsAddUp, AddsUp, SumFunction
<1>. HIDE DEF mem
<1>7. /\ mem.totals[o] \in Int /\ OrderTotal(o, written) \in Int
      /\ mem.totals[o] <= OrderTotal(o, written)
  BY <1>2, <1>4, <1>6, TotalIsWritten DEF CoverAssumption
<1>8. ~(At(m).amount > mem.totals[o] + Tolerance)
  BY <1>1, <1>3, <1>5 DEF Overpays
<1>. HIDE DEF o
<1>9. At(m).amount <= OrderTotal(o, written) + Tolerance
  BY <1>1, <1>7, <1>8, GuardrailAssumption
<1>. QED  BY <1>9 DEF o

LEMMA PollCovered ==
    ASSUME CoverAssumption, TypeInv, CoverInv, TotalsAddUp, NEW w \in Workers, Poll(w)
    PROVE  PaymentsCovered'
<1>1. PICK p \in Partitions :
        /\ inflight' = [inflight EXCEPT ![w] = <<p, position[p]>>]
        /\ pc' = [pc EXCEPT ![w] =
              IF Objection(memory[w], At(<<p, position[p]>>)) # None THEN "publish"
              ELSE IF <<p, position[p]>> \in RowMessages THEN "write" ELSE "commit"]
        /\ written' = IF /\ Objection(memory[w], At(<<p, position[p]>>)) = None
                         /\ ~<<p, position[p]>> \in RowMessages
                      THEN written \cup {<<p, position[p]>>} ELSE written
  BY DEF Poll
<1> DEFINE m == <<p, position[p]>>
<1>2. inflight'[w] = m /\ (pc'[w] = "write" => Objection(memory[w], At(m)) = None)
  BY <1>1 DEF TypeInv, TypeOK
<1>3. written' \cap RowMessages = written \cap RowMessages
  BY <1>1
<1>. HIDE DEF m
<1> SUFFICES ASSUME pc'[w] = "write", IsCapturedPayment(m)
    PROVE  At(m).amount <= OrderTotal(At(m).order, written') + Tolerance
  BY <1>2 DEF PaymentsCovered, OneWorker, CoverAssumption
<1>4. At(m).amount <= OrderTotal(At(m).order, written) + Tolerance
  BY <1>2, AdmittedCovered
<1>. QED  BY <1>3, <1>4, SameRows

LEMMA NextCovered ==
    ASSUME CoverAssumption, TypeInv, CoverInv, TotalsAddUp, [Next]_vars
    PROVE  PaymentsCovered'
<1>1. CASE \E w \in Workers : Poll(w)
  BY <1>1, PollCovered
<1>2. CASE \E w \in Workers : WriteSucceeds(w)
  <2>1. \A w \in Workers : pc'[w] # "write"
    BY <1>2 DEF WriteSucceeds, TypeInv, TypeOK, CoverAssumption, OneWorker
  <2>. QED  BY <2>1 DEF PaymentsCovered
<1>3. CASE ~ \E w \in Workers : Poll(w) \/ WriteSucceeds(w)
  <2>1. written' \cap RowMessages = written \cap RowMessages
    BY <1>3, StepWrites
  <2>2. ASSUME NEW w \in Workers, pc'[w] = "write"
        PROVE  pc[w] = "write" /\ inflight'[w] = inflight[w]
    <3>1. CASE UNCHANGED vars
      BY <2>2, <3>1 DEF vars, workerVars
    <3>2. ASSUME NEW v \in Workers, Crash(v) \/ PublishRaises(v) \/ DlqCommitRaises(v)
          PROVE  pc[w] = "write" /\ inflight'[w] = inflight[w]
      BY <2>2, <3>2 DEF Crash, PublishRaises, DlqCommitRaises, Dies, TypeInv, TypeOK
    <3>3. ASSUME NEW v \in Workers,
                 \/ Restart(v) \/ WriteRaises(v) \/ CommitSucceeds(v) \/ CommitRaises(v)
                 \/ DlqCommitSucceeds(v) \/ PublishDelivered(v) \/ PublishLost(v)
          PROVE  pc[w] = "write" /\ inflight'[w] = inflight[w]
      BY <2>2, <3>3 DEF Restart, WriteRaises, CommitSucceeds, CommitRaises,
         DlqCommitSucceeds, PublishDelivered, PublishLost, Return, TypeInv, TypeOK
    <3>4. ASSUME NEW v \in Workers, PollNothing(v)
          PROVE  pc[w] = "write" /\ inflight'[w] = inflight[w]
      BY <3>1, <3>4 DEF PollNothing
    <3>5. ASSUME NEW p \in Partitions, NEW v \in Workers,
                 AssignOrphan(p, v) \/ Rebalance(p, v)
          PROVE  pc[w] = "write" /\ inflight'[w] = inflight[w]
      BY <2>2, <3>5 DEF AssignOrphan, Rebalance, Assign, workerVars
    <3>. QED  BY <1>3, <3>1, <3>2, <3>3, <3>4, <3>5 DEF Next
  <2>3. \A o : OrderTotal(o, written') = OrderTotal(o, written)
    BY <2>1, SameRows
  <2>. QED  BY <2>2, <2>3 DEF PaymentsCovered, CoverInv
<1>. QED  BY <1>1, <1>2, <1>3

\* With one worker, in strict mode, with the versions of a line on one
\* partition and no write applied that was reported to have failed: a captured
\* payment is written only when the last versions of its order's lines in
\* Cassandra cover it, although the guardrails know no more than this process
\* has written since it started.
THEOREM NoOverpayment ==
    ASSUME CoverAssumption PROVE Spec => NoOverpaymentStored
<1>1. Init => CoverInv
  <2>1. Init => \A w \in Workers : memory[w] = EmptyMemory /\ pc[w] = "poll"
    BY DEF Init
  <2>2. Init => written = {}
    BY DEF Init
  <2>. QED  BY <2>1, <2>2, EmptyMemoryLatest
       DEF CoverInv, WrittenBehind, MemoryLatest, PaymentsCovered
<1>2. TypeInv /\ InOrderInv /\ TotalsAddUp /\ CoverInv /\ [Next]_vars => CoverInv'
  BY NextWrittenBehind, NextMemoryLatest, NextCovered DEF CoverInv, InOrderInv
<1>3. ASSUME TypeInv, CoverInv, [Next]_vars
      PROVE  [\A m \in written' \ written : IsCapturedPayment(m) =>
                At(m).amount <= OrderTotal(At(m).order, written) + Tolerance]_vars
  <2> SUFFICES ASSUME NEW m \in written' \ written, IsCapturedPayment(m)
               PROVE  At(m).amount <= OrderTotal(At(m).order, written) + Tolerance
    OBVIOUS
  <2>1. PICK w \in Workers : WriteSucceeds(w)
    BY <1>3, StepWrites DEF IsCapturedPayment
  <2>2. m = inflight[w] /\ pc[w] = "write"
    BY <2>1 DEF WriteSucceeds, Upsert
  <2>. QED  BY <1>3, <2>2 DEF CoverInv, PaymentsCovered
<1>4. OneWorker /\ IsFiniteSet(Items)
  BY DEF CoverAssumption
<1>. QED
  BY <1>1, <1>2, <1>3, <1>4, TypeCorrect, InOrderHolds, TotalsHold, PTL
  DEF Spec, NoOverpaymentStored
=============================================================================
