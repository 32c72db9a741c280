----------------------------- MODULE Transformer -----------------------------
(***************************************************************************)
(* The transformer service: the workers of one Kafka consumer group, each  *)
(* polling, validating, writing to Cassandra, committing, and sending what *)
(* fails to the DLQ (service.py, main.py, dlq.py, cassandra_writer.py).    *)
(*                                                                         *)
(* process_message is cut at its calls out of the process, which is where  *)
(* it can be interrupted: poll, Cassandra write, offset commit, DLQ        *)
(* publish, the commit after the DLQ publish.  Everything in between is    *)
(* local to a worker and belongs to the action of the call it follows.     *)
(* The broker (log, group coordinator, committed offsets, DLQ topic) and   *)
(* Cassandra are modelled from how service.py uses them.                   *)
(***************************************************************************)
EXTENDS Guardrails, Sequences, Functions

CONSTANTS
    Partitions, Workers,
    Log,            \* Log[p]: the messages Debezium wrote to partition p
    None,           \* no owner, no message in flight, no row
    MetricsEnabled, \* whether a MetricsRegistry is passed to the service
    FaultKinds,     \* the faults the environment may inject
    MaxFaults       \* bound on their number in a behaviour

AllFaultKinds ==
    {"crash", "rebalance", "write_lost", "write_applied", "commit",
     "dlq_lost", "dlq_raises"}

Messages == UNION {{p} \X (0 .. Len(Log[p]) - 1) : p \in Partitions}

\* The record at a partition and offset.
At(m) == Log[m[1]][m[2] + 1]

\* The messages that parse, map and validate to a star row.
RowMessages == {m \in Messages : HasRow(At(m))}

RowKeys == {RowKey(At(m)) : m \in RowMessages}

\* FailedRecord.error: what put a message on the DLQ.
Errors == {"mapping", "validation", "write", "commit"}

\* A message that yields a row carries the ids its row refers to, and amounts
\* that passed validation.
LogAssumption ==
    \A m \in RowMessages :
        /\ At(m).table = "customers" => At(m).id \in Customers
        /\ At(m).table = "payments" => At(m).amount \in Nat
        /\ At(m).table = "order_items" =>
              /\ At(m).id \in Items
              /\ At(m).order \in Orders
              /\ At(m).customer \in Customers
              /\ At(m).amount \in Nat

ASSUME TransformerAssumption ==
    /\ \A p \in Partitions : Len(Log[p]) \in Nat
    /\ None \notin Workers \cup Messages \cup Errors
    /\ MetricsEnabled \in BOOLEAN
    /\ FaultKinds \subseteq AllFaultKinds
    /\ MaxFaults \in Nat
    /\ LogAssumption

VARIABLES
    \* the broker
    committed,      \* per partition, the group's committed offset
    owner,          \* per partition, the worker it is assigned to
    position,       \* per partition, the next offset its owner will be given
    dlq,            \* per message and error, the records on the DLQ topic
    dlqLost,        \* messages whose DLQ record the broker never stored
    \* Cassandra
    table,          \* per primary key, the message whose row is stored there
    written,        \* messages all of whose rows have been applied (history)
    \* each worker process
    pc,             \* the call the worker is about to make
    inflight,       \* the message it is processing
    error,          \* the exception process_message has caught
    memory,         \* its BusinessGuardrails
    metrics,        \* its MetricsRegistry
    \* the environment
    faults          \* number of faults injected so far

brokerVars == <<committed, owner, position, dlq, dlqLost>>
storeVars == <<table, written>>
workerVars == <<pc, inflight, error, memory, metrics>>
vars == <<brokerVars, storeVars, workerVars, faults>>

Calls == {"poll", "write", "commit", "publish", "dlq_commit", "down"}
Counters == [success : Nat, dlq : Nat, rejects : Nat]
NoCounts == [success |-> 0, dlq |-> 0, rejects |-> 0]

TypeOK ==
    /\ committed \in [Partitions -> Nat]
    /\ \A p \in Partitions : committed[p] <= Len(Log[p])
    /\ owner \in [Partitions -> Workers \cup {None}]
    /\ position \in [Partitions -> Nat]
    /\ \A p \in Partitions : position[p] <= Len(Log[p])
    /\ dlq \in [Messages \X Errors -> Nat]
    /\ dlqLost \subseteq Messages
    /\ table \in [RowKeys -> Messages \cup {None}]
    /\ written \subseteq Messages
    /\ pc \in [Workers -> Calls]
    /\ inflight \in [Workers -> Messages \cup {None}]
    /\ error \in [Workers -> Errors \cup {None}]
    /\ memory \in [Workers -> Memory]
    /\ metrics \in [Workers -> Counters]
    /\ faults \in Nat

\* The consumer group starts from the earliest offset with nothing committed.
Init ==
    /\ committed = [p \in Partitions |-> 0]
    /\ owner = [p \in Partitions |-> None]
    /\ position = [p \in Partitions |-> 0]
    /\ dlq = [r \in Messages \X Errors |-> 0]
    /\ dlqLost = {}
    /\ table = [k \in RowKeys |-> None]
    /\ written = {}
    /\ pc = [w \in Workers |-> "poll"]
    /\ inflight = [w \in Workers |-> None]
    /\ error = [w \in Workers |-> None]
    /\ memory = [w \in Workers |-> EmptyMemory]
    /\ metrics = [w \in Workers |-> NoCounts]
    /\ faults = 0

-----------------------------------------------------------------------------

\* The environment injects one fault of this kind.
Fault(kind) ==
    /\ kind \in FaultKinds
    /\ faults < MaxFaults
    /\ faults' = faults + 1

\* The process of w ends, and with it all its memory.  Once its session times
\* out the coordinator takes its partitions away.
Dies(w) ==
    /\ pc' = [pc EXCEPT ![w] = "down"]
    /\ inflight' = [inflight EXCEPT ![w] = None]
    /\ error' = [error EXCEPT ![w] = None]
    /\ memory' = [memory EXCEPT ![w] = EmptyMemory]
    /\ metrics' = [metrics EXCEPT ![w] = NoCounts]
    /\ owner' = [p \in Partitions |-> IF owner[p] = w THEN None ELSE owner[p]]

\* The process is killed, or poll returned a message with an error, which
\* run_forever raises.
Crash(w) ==
    /\ pc[w] # "down"
    /\ Fault("crash")
    /\ Dies(w)
    /\ UNCHANGED <<committed, position, dlq, dlqLost, storeVars>>

\* The pod is restarted and joins the group with empty guardrails.
Restart(w) ==
    /\ pc[w] = "down"
    /\ pc' = [pc EXCEPT ![w] = "poll"]
    /\ UNCHANGED <<brokerVars, storeVars, inflight, error, memory, metrics, faults>>

\* Mutant: the consumer ignores the group's offset and starts at the earliest.
Assign_FromEarliest(p, w) ==
    /\ pc[w] = "poll"
    /\ owner' = [owner EXCEPT ![p] = w]
    /\ position' = [position EXCEPT ![p] = 0]
    /\ UNCHANGED <<committed, dlq, dlqLost, storeVars, workerVars>>

\* The coordinator assigns p to w, which learns of it in poll and reads on from
\* the committed offset.  The owner until now is not told before its own next
\* poll: what it has in flight, it goes on with.
Assign(p, w) ==
    /\ pc[w] = "poll"
    /\ owner' = [owner EXCEPT ![p] = w]
    /\ position' = [position EXCEPT ![p] = committed[p]]
    /\ UNCHANGED <<committed, dlq, dlqLost, storeVars, workerVars>>

AssignOrphan(p, w) ==
    /\ owner[p] = None
    /\ Assign(p, w)
    /\ UNCHANGED faults

\* A rebalance moves a partition, or gives it to its owner again, because a
\* member joined, left or stayed away from poll for too long.
Rebalance(p, w) ==
    /\ owner[p] # None
    /\ Fault("rebalance")
    /\ Assign(p, w)

-----------------------------------------------------------------------------

\* poll returned None: run_forever goes round again.
PollNothing(w) ==
    /\ pc[w] = "poll"
    /\ \A p \in Partitions : owner[p] = w => position[p] = Len(Log[p])
    /\ UNCHANGED vars

\* Mutant: the guardrails' verdict on a payment is not raised.
Objection_NoGuardrails(mem, m) ==
    CASE Verdict(m) = "mapping" -> "mapping"
      [] Verdict(m) = "validation" -> "validation"
      [] OTHER -> None

\* Mutant: rows with issues are dropped instead of raised.
Objection_DropsInvalid(mem, m) ==
    CASE Verdict(m) = "mapping" -> "mapping"
      [] HasRow(m) /\ ~Admits(mem, m) -> "validation"
      [] OTHER -> None

\* The exception process_message catches for message m before the Cassandra
\* write, None if there is none.
Objection(mem, m) ==
    CASE Verdict(m) = "mapping" -> "mapping"
      [] Verdict(m) = "validation" -> "validation"
      [] HasRow(m) /\ ~Admits(mem, m) -> "validation"
      [] OTHER -> None

\* Mutant: an exception before the write is not caught, so the process ends
\* without committing and meets the same message again.
Poll_RaisesOut(w) ==
    /\ pc[w] = "poll"
    /\ \E p \in Partitions :
        /\ owner[p] = w
        /\ position[p] < Len(Log[p])
        /\ LET m == <<p, position[p]>>
           IN  IF Objection(memory[w], At(m)) # None
               THEN Dies(w) /\ UNCHANGED <<position, written>>
               ELSE /\ inflight' = [inflight EXCEPT ![w] = m]
                    /\ position' = [position EXCEPT ![p] = @ + 1]
                    /\ pc' = [pc EXCEPT ![w] = IF m \in RowMessages THEN "write" ELSE "commit"]
                    /\ written' = IF m \in RowMessages THEN written ELSE written \cup {m}
                    /\ UNCHANGED <<owner, error, memory, metrics>>
    /\ UNCHANGED <<committed, dlq, dlqLost, table, faults>>

\* Mutant: the guardrails observe the row as soon as it is validated.
Poll_ObservesEarly(w) ==
    /\ pc[w] = "poll"
    /\ \E p \in Partitions :
        /\ owner[p] = w
        /\ position[p] < Len(Log[p])
        /\ LET m == <<p, position[p]>>
               objection == Objection(memory[w], At(m))
           IN  /\ inflight' = [inflight EXCEPT ![w] = m]
               /\ position' = [position EXCEPT ![p] = @ + 1]
               /\ error' = [error EXCEPT ![w] = objection]
               /\ memory' = IF objection = None /\ m \in RowMessages
                            THEN [memory EXCEPT ![w] = Observe(@, At(m))] ELSE memory
               /\ pc' = [pc EXCEPT ![w] =
                            IF objection # None THEN "publish"
                            ELSE IF m \in RowMessages THEN "write" ELSE "commit"]
               /\ written' = IF objection = None /\ ~m \in RowMessages
                             THEN written \cup {m} ELSE written
    /\ UNCHANGED <<committed, owner, dlq, dlqLost, table, metrics, faults>>

\* poll delivers the next message of a partition of w; it is parsed, mapped,
\* validated and checked by the guardrails.  A message without a row has
\* nothing to write: write_rows([]) returns 0.
Poll(w) ==
    /\ pc[w] = "poll"
    /\ \E p \in Partitions :
        /\ owner[p] = w
        /\ position[p] < Len(Log[p])
        /\ LET m == <<p, position[p]>>
               objection == Objection(memory[w], At(m))
           IN  /\ inflight' = [inflight EXCEPT ![w] = m]
               /\ position' = [position EXCEPT ![p] = @ + 1]
               /\ error' = [error EXCEPT ![w] = objection]
               /\ pc' = [pc EXCEPT ![w] =
                            IF objection # None THEN "publish"
                            ELSE IF m \in RowMessages THEN "write" ELSE "commit"]
               /\ written' = IF objection = None /\ ~m \in RowMessages
                             THEN written \cup {m} ELSE written
    /\ UNCHANGED <<committed, owner, dlq, dlqLost, table, memory, metrics, faults>>

\* Mutant: INSERT ... IF NOT EXISTS.
Upsert_IfNotExists(m) ==
    /\ table' = [table EXCEPT ![RowKey(At(m))] = IF @ = None THEN m ELSE @]
    /\ written' = written \cup {m}

\* The INSERT of the row of m reaches Cassandra: an upsert, last write wins.
Upsert(m) ==
    /\ table' = [table EXCEPT ![RowKey(At(m))] = m]
    /\ written' = written \cup {m}

\* write_rows returns, and the guardrails observe the row.
WriteSucceeds(w) ==
    /\ pc[w] = "write"
    /\ Upsert(inflight[w])
    /\ memory' = [memory EXCEPT ![w] = Observe(@, At(inflight[w]))]
    /\ pc' = [pc EXCEPT ![w] = "commit"]
    /\ UNCHANGED <<brokerVars, inflight, error, metrics, faults>>

\* Mutant: a failed write is committed like a success, without a DLQ record.
WriteRaises_Swallowed(w) ==
    /\ pc[w] = "write"
    /\ \/ Fault("write_lost") /\ UNCHANGED storeVars
       \/ Fault("write_applied") /\ Upsert(inflight[w])
    /\ pc' = [pc EXCEPT ![w] = "commit"]
    /\ UNCHANGED <<brokerVars, inflight, error, memory, metrics>>

\* execute raises.  After a timeout the row may be in Cassandra all the same.
WriteRaises(w) ==
    /\ pc[w] = "write"
    /\ \/ Fault("write_lost") /\ UNCHANGED storeVars
       \/ Fault("write_applied") /\ Upsert(inflight[w])
    /\ error' = [error EXCEPT ![w] = "write"]
    /\ pc' = [pc EXCEPT ![w] = "publish"]
    /\ UNCHANGED <<brokerVars, inflight, memory, metrics>>

-----------------------------------------------------------------------------

\* Mutant: committed past the message after the one processed.
CommitOffset_SkipsOne(m) == m[2] + 2

\* Mutant: committed the offset of the message instead of the next one.
CommitOffset_SameOffset(m) == m[2]

\* commit(message) commits the offset after the message.
CommitOffset(m) == m[2] + 1

\* The coordinator stores the offset.  It does not check that the partition is
\* still the committing member's, only that the member is in the group.
CommitInflight(w) ==
    committed' = [committed EXCEPT ![inflight[w][1]] = CommitOffset(inflight[w])]

\* A commit can fail at any time; once w lost the partition it may have been
\* fenced, and failing then is no further fault.
CommitRejected(w) ==
    \/ Fault("commit")
    \/ owner[inflight[w][1]] # w /\ UNCHANGED faults

\* process_message returns to the poll loop.
Return(w) ==
    /\ pc' = [pc EXCEPT ![w] = "poll"]
    /\ inflight' = [inflight EXCEPT ![w] = None]
    /\ error' = [error EXCEPT ![w] = None]

CommitSucceeds(w) ==
    /\ pc[w] = "commit"
    /\ CommitInflight(w)
    /\ Return(w)
    /\ metrics' = IF MetricsEnabled
                  THEN [metrics EXCEPT ![w].success = @ + 1] ELSE metrics
    /\ UNCHANGED <<owner, position, dlq, dlqLost, storeVars, memory, faults>>

\* The commit is inside the try block: its failure, too, goes to the DLQ.
CommitRaises(w) ==
    /\ pc[w] = "commit"
    /\ CommitRejected(w)
    /\ error' = [error EXCEPT ![w] = "commit"]
    /\ pc' = [pc EXCEPT ![w] = "publish"]
    /\ UNCHANGED <<brokerVars, storeVars, inflight, memory, metrics>>

\* produce and flush return and the broker has the record.
PublishDelivered(w) ==
    /\ pc[w] = "publish"
    /\ dlq' = [dlq EXCEPT ![<<inflight[w], error[w]>>] = @ + 1]
    /\ pc' = [pc EXCEPT ![w] = "dlq_commit"]
    /\ UNCHANGED <<committed, owner, position, dlqLost, storeVars,
                   inflight, error, memory, metrics, faults>>

\* produce and flush return although delivery failed: there is no delivery
\* callback and the result of flush is not looked at.
PublishLost(w) ==
    /\ pc[w] = "publish"
    /\ Fault("dlq_lost")
    /\ dlqLost' = dlqLost \cup {inflight[w]}
    /\ pc' = [pc EXCEPT ![w] = "dlq_commit"]
    /\ UNCHANGED <<committed, owner, position, dlq, storeVars,
                   inflight, error, memory, metrics>>

\* produce raises (local queue full, producer in a fatal state): nothing
\* catches it in the except block, and run_forever ends.
PublishRaises(w) ==
    /\ pc[w] = "publish"
    /\ Fault("dlq_raises")
    /\ Dies(w)
    /\ UNCHANGED <<committed, position, dlq, dlqLost, storeVars>>

\* Mutant: the DLQ counter is raised again for a message with issues.
CountFailure_Twice(count, e) ==
    LET issue == IF e = "validation" THEN 1 ELSE 0
    IN  [success |-> count.success, dlq |-> count.dlq + 1 + issue,
         rejects |-> count.rejects + issue]

\* The counters after record_message("dlq", e).  "rejects" counts messages
\* with validation issues.
CountFailure(count, e) ==
    LET issue == IF e = "validation" THEN 1 ELSE 0
    IN  [success |-> count.success, dlq |-> count.dlq + 1,
         rejects |-> count.rejects + issue]

\* The offset of the failed message is committed, then the failure counted.
DlqCommitSucceeds(w) ==
    /\ pc[w] = "dlq_commit"
    /\ CommitInflight(w)
    /\ Return(w)
    /\ metrics' = IF MetricsEnabled
                  THEN [metrics EXCEPT ![w] = CountFailure(@, error[w])] ELSE metrics
    /\ UNCHANGED <<owner, position, dlq, dlqLost, storeVars, memory, faults>>

\* The second commit raises out of process_message and of run_forever.
DlqCommitRaises(w) ==
    /\ pc[w] = "dlq_commit"
    /\ CommitRejected(w)
    /\ Dies(w)
    /\ UNCHANGED <<committed, position, dlq, dlqLost, storeVars>>

-----------------------------------------------------------------------------

Next ==
    \/ \E w \in Workers :
        \/ Crash(w) \/ Restart(w)
        \/ PollNothing(w) \/ Poll(w)
        \/ WriteSucceeds(w) \/ WriteRaises(w)
        \/ CommitSucceeds(w) \/ CommitRaises(w)
        \/ PublishDelivered(w) \/ PublishLost(w) \/ PublishRaises(w)
        \/ DlqCommitSucceeds(w) \/ DlqCommitRaises(w)
    \/ \E p \in Partitions, w \in Workers :
        AssignOrphan(p, w) \/ Rebalance(p, w)

Spec == Init /\ [][Next]_vars

\* A live process goes on with its loop, Kubernetes restarts a dead one and
\* the coordinator hands out partitions nobody owns.  No fault is ever owed.
Fairness ==
    /\ \A w \in Workers :
        /\ WF_vars(Restart(w))
        /\ WF_vars(Poll(w))
        /\ WF_vars(WriteSucceeds(w))
        /\ WF_vars(CommitSucceeds(w))
        /\ WF_vars(PublishDelivered(w))
        /\ WF_vars(DlqCommitSucceeds(w))
    /\ \A p \in Partitions : WF_vars(\E w \in Workers : AssignOrphan(p, w))

FairSpec == Spec /\ Fairness

-----------------------------------------------------------------------------
(* The promises of the transformer *)

\* The DLQ topic holds a record of m.
Published(m) == \E e \in Errors : dlq[<<m, e>>] > 0

\* What has become of a message: its rows are in Cassandra, or it is on the
\* DLQ, or its DLQ record was lost on the way.
Settled == written \cup {m \in Messages : Published(m)} \cup dlqLost

\* The transformer implements at-least-once delivery: whatever crashes,
\* rebalances and failing calls do, a message is settled before its offset is
\* committed and is never unsettled again.
Abstract == INSTANCE Delivery WITH
    settled <- Settled, Length <- [p \in Partitions |-> Len(Log[p])]

ImplementsDelivery == Abstract!Spec

\* The committed offset never covers a message that was neither written, nor
\* put on the DLQ, nor handed to a DLQ publish that returned.
CommittedSettled ==
    \A p \in Partitions : \A o \in 0 .. committed[p] - 1 : <<p, o>> \in Settled

\* Cassandra holds under a key the row of a valid message that was written
\* there, and holds something under the key of every message written.
TableReflectsWrites ==
    /\ \A k \in RowKeys : table[k] # None =>
          /\ table[k] \in written
          /\ table[k] \in RowMessages
          /\ RowKey(At(table[k])) = k
    /\ \A m \in written :
          /\ Verdict(At(m)) \in {"row", "ignored"}
          /\ m \in RowMessages => table[RowKey(At(m))] # None

\* Every fact version written is still there under its own key: however often
\* and in whatever order messages are redelivered, facts are neither
\* duplicated nor overwritten.
EveryFactKept ==
    \A m \in written \cap RowMessages :
        ~IsDimension(At(m)) => table[RowKey(At(m))] = m

\* A message in the set proves that customer c, or a line of order o, exists.
CustomerIn(c, messages) ==
    \E m \in messages :
        /\ m \in RowMessages
        /\ \/ At(m).table = "customers" /\ At(m).id = c
           \/ At(m).table = "order_items" /\ At(m).customer = c

OrderIn(o, messages) ==
    \E m \in messages :
        m \in RowMessages /\ At(m).table = "order_items" /\ At(m).order = o

\* Each thing a memory knows is shown by one of the messages.
Backed(mem, messages) ==
    /\ \A c \in mem.customers : CustomerIn(c, messages)
    /\ \A o \in mem.known : OrderIn(o, messages)
    /\ \A i \in Items : mem.lines[i] # NoLine =>
          \E m \in messages :
              /\ m \in RowMessages /\ At(m).table = "order_items" /\ At(m).id = i
              /\ mem.lines[i] = [order |-> At(m).order, amount |-> At(m).amount]

\* What any worker's guardrails remember is in Cassandra: they never validate
\* a payment against a row whose write has failed.
MemoryBacked == \A w \in Workers : Backed(memory[w], written)

\* In strict mode the stored payments are referentially complete: the order
\* and the customer of each are in Cassandra, although no worker ever asks it.
StrictReferences ==
    Strict => \A m \in written :
        m \in RowMessages /\ At(m).table = "payments" =>
            OrderIn(At(m).order, written) /\ CustomerIn(At(m).customer, written)

\* What line i of a memory adds to order o.
Share(mem, i, o) ==
    IF mem.lines[i] # NoLine /\ mem.lines[i].order = o THEN mem.lines[i].amount ELSE 0

\* The guardrails' totals are the sums of the lines they remember, however
\* often a line came, was repriced or moved to another order.
TotalsAddUp ==
    \A w \in Workers : \A o \in Orders :
        memory[w].totals[o] = SumFunction([i \in Items |-> Share(memory[w], i, o)])

\* The last version of line i among the messages, if it has any.
LastVersions(i, messages) ==
    {m \in messages \cap RowMessages :
        /\ At(m).table = "order_items" /\ At(m).id = i
        /\ \A n \in messages \cap RowMessages :
              At(n).table = "order_items" /\ At(n).id = i => n[2] <= m[2]}

\* What the line adds to order o there.
LastShare(i, o, messages) ==
    LET last == {m \in LastVersions(i, messages) : At(m).order = o}
    IN  IF last = {} THEN 0 ELSE At(CHOOSE m \in last : TRUE).amount

OrderTotal(o, messages) == SumFunction([i \in Items |-> LastShare(i, o, messages)])

IsCapturedPayment(m) ==
    m \in RowMessages /\ At(m).table = "payments" /\ At(m).status = "captured"

\* One worker, strict mode, no write applied behind its back: a captured
\* payment is written only when the order's lines in Cassandra cover it,
\* whatever was lost from memory in a crash or delivered again.
NoOverpaymentStored ==
    [][\A m \in written' \ written : IsCapturedPayment(m) =>
          At(m).amount <= OrderTotal(At(m).order, written) + Tolerance]_vars

\* Unless the broker has lost a DLQ record, the DLQ counters exported by the
\* workers never claim one that is not on the DLQ topic.
MetricsNeverOverReport ==
    dlqLost = {} => SumFunction([w \in Workers |-> metrics[w].dlq]) <= SumFunction(dlq)

\* Later versions of a dimension row are never overwritten by earlier ones.
\* (Checked for one worker: a stale owner can break it.)
DimensionsNeverRegress ==
    [][\A k \in RowKeys :
          table[k] # None /\ IsDimension(At(table[k])) => table'[k][2] >= table[k][2]]_vars

\* With one worker the committed offset of a partition never moves back.
CommittedNeverRewinds ==
    [][\A p \in Partitions : committed'[p] >= committed[p]]_vars

\* Every message is dealt with in the end, poison messages included.
EventuallySettled == <>(Messages \subseteq Settled)

\* With one worker the group ends up with every message committed.
EventuallyCommitted ==
    <>[](\A p \in Partitions : committed[p] = Len(Log[p]))
=============================================================================
