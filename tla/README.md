# OmniCare CDC in TLA+

TLA+ models of the OmniCare change-data-capture pipeline: specifications of its
core services, TLC configurations that check them on small instances, and TLAPS
proofs for every instance. The code is the reference: each definition is
translated from the source lines that `PROJECT.json` ("map") names.

## 1. The system

Postgres, MySQL and MongoDB (optionally Oracle) are captured by Debezium into
Kafka topics. The *transformer* consumes the topics, maps each message to a row
of a star schema, validates it and upserts it into Cassandra. What cannot be
processed goes to a dead-letter (DLQ) topic. Trino reads Cassandra for a
dashboard, whose snapshot also carries a data-quality report; a command-line
gate, a Prometheus exporter and alert rules watch the whole.

| Component | State | Operations | Interacts with |
|---|---|---|---|
| Mapping and validation (`debezium.py`, `star_schema.py`, `validation.py`) | none | parse, map, validate one message | called by the service |
| Business guardrails (`guardrails.py`) | customers seen, order lines seen, running order totals; per process, in memory | `validate`, `observe` | called by the service before and after the write |
| Transformer service (`service.py`, `main.py`) | message in hand, consumer position; committed offsets at the broker | `run_forever`, `run_until`, `process_message` | Kafka poll and commit, Cassandra, DLQ, metrics |
| Cassandra writer (`cassandra_writer.py`) | prepared statements; rows in Cassandra | `write_rows` | Cassandra |
| DLQ producer (`dlq.py`) | producer queue | `publish` | Kafka |
| Metrics (`metrics.py`) | counters per process | `record_*`, `/metrics` | dashboard server, exporter |
| Source schemas (`db/postgres`, `db/mysql`, `db/mongo`) | constraints on rows | - | Debezium reads the rows |
| Generator (`apps/generator`) | count and clock of the loop; rows in four databases | `run_once` insert by insert, loop | sources |
| Dashboard server (`server.py`) | none; five queries per snapshot | `snapshot`, `/api/dashboard` | Trino, transformer metrics |
| Quality report (`quality.py`), gate (`tools/quality_gate.py`) | none | eight checks, overrides; one judgement of a live or saved snapshot | snapshot |
| Dashboard page (`static/app.js`) | the rendered snapshot | poll every 30 s | dashboard server |
| Exporter and alerts (`infra/observability`) | samples of the scrape; Prometheus' time series | scrape target by target, alert rules | Connect, Jolokia, transformer, dashboard |
| Replay (`cdc-replay.sh`) | a consumer group of its own, an idle clock, a message count | bounded transformer run (`run_until`) | topics, Cassandra |
| Recovery (`recover-bad-facts.sh`) | two listings, a snapshot, a report | check arguments, list, delete, list, gate, report | Cassandra, dashboard |
| Connector scripts (`register-connectors.sh`, `connect-connector.sh`, `request-resnapshot.sh`) | connector status at Connect | create, stop, resume, restart, signal | Connect, signal tables |
| Anomaly test (`anomaly-e2e.sh`) | four counts | clean up, insert, run bounded transformer, count, judge, gate | sources, Cassandra, DLQ topic, dashboard |
| Demo script (`demo-e2e.sh`) | - | start, wait, assert | everything |

What is hard here:

* *Concurrency.* Several replicas share a consumer group (the Helm chart sets
  two). A worker that stays away from `poll` loses partitions without noticing
  and finishes the message in hand: two workers then process the same message,
  write the same rows and commit the same offset.
* *Failure.* Every call out of `process_message` can fail or be the last thing
  the process does. A failing write may have been applied, a DLQ publish may
  return although nothing was stored, the commit is inside the `try` block, and
  the exception handler itself publishes and commits.
* *Ordering.* Order lines, customers and payments are on different topics.
  Guardrails compare a payment with what this process happens to have written.
* *Memory.* Guardrails and counters are lost on restart.
* *Snapshots of moving data.* A dashboard snapshot is five queries at five
  moments; facts are one row per version; the page, the gate and the exporter
  ask at moments of their own and some answers never come.
* *Scripts over a running system.* Recovery, replay and the anomaly test read
  printed tables and counts while the transformer goes on writing.

What makes each part correct: the *service* never commits past a message it has
not dealt with, gets past every poison message, and does not keep part of a
message; *Cassandra* keeps every fact version once, and dimensions at their last
version; *guardrails* only vouch for stored rows and never admit an overpaid or
(strict mode) dangling payment; *metrics* never claim what the DLQ does not
hold; *mapping and validation* refuse what the sources would refuse and accept
every sound row; a *snapshot* reconciles figures of comparable moments;
a *gate* that passes means that nothing known to be wrong was there; *alerts*
fire on what lasts and on nothing else; the *generator* never leaves a row whose
reference is missing, and ends; *recovery* reports success only over clean
tables; a *replay* ends, and a complete one restores every row.

## 2. Modules

    StarSchema -- Guardrails -- Transformer -- MCTransformer (Events)
        |                        |  |  `------ TransformerProofs (Sums)
        |                        | Delivery (abstract)
        |                        `- Replay (two instances) -- MCReplay
        |                              `--- Anomaly -- MCAnomaly, AnomalyProofs (Sums)
        |-- SourceSchema -- MCStarSchema -- StarSchemaProofs
        `-- Serving -- Quality -- Dashboard -- MCDashboard, DashboardProofs (Sums)
    Generator -- MCGenerator (instance of Guardrails) -- GeneratorProofs
    Exporter -- MCExporter -- ExporterProofs (Sums)
    Recovery -- MCRecovery, RecoveryProofs

**StarSchema** is `to_star_rows` and `validate_star_rows` as operators. A
message is a record of its shape, table, operation, row images, ids and the
*damaged* columns with the class of their value (absent, null, blank, garbage,
zero, negative, huge, or one of the values listed for the column). `Mapping` is the
seven mappers, `Rules` is `RULES`, `KnownValues` its value lists,
`Verdict` is the outcome (`mapping` error, `validation` error, `ignored`, `row`),
`RowKey` the primary key of the row, and `SourcePosition` the fields of the event
that tell its versions apart.

**SourceSchema** is what the databases promise of the columns the mappers read: NOT
NULL (time stamps included), CHECK, types other than text, and the MongoDB
validator. `RefusedColumns` are those for which a row would have been refused.
MCStarSchema compares the three lists of what a row must be: that of its source,
`RULES`, and the SQL of the dashboard. They do not ask the same, and `MadeGood` says
where the transformer takes more than the source: a time stamp that is missing is
replaced by the time of the event (`star_schema.py:230-232`), and an id need not have
the form its column has at the source. Nothing else is excepted.

**Guardrails** is `BusinessGuardrails`: a memory record, `Observe` and
`PaymentIssues`, with the strict and the deferred reference mode.

**Delivery** is the abstract promise of a consumer: a message is *settled* and
stays so; the committed offset moves, forward or back, only onto settled ground.

**Transformer** is the service on any number of workers. `process_message` is cut
at its calls out of the process (poll, write, commit, DLQ publish, second
commit), where it can be interrupted; what is local is part of the action of the
call it follows. `pc[w]` is the call worker `w` is about to make.

| Code | Action |
|---|---|
| `poll` returns a message; parse, map, validate, guardrails | `Poll` |
| `poll` returns `None` | `PollNothing` |
| `write_rows` returns, guardrails observe | `WriteSucceeds` |
| `write_rows` raises, applied or not | `WriteRaises` |
| `commit` returns / raises inside `try` | `CommitSucceeds` / `CommitRaises` |
| `publish` returns, delivered or not / raises | `PublishDelivered`, `PublishLost` / `PublishRaises` |
| commit in the handler returns / raises | `DlqCommitSucceeds` / `DlqCommitRaises` |
| process killed, or `message.error()` raised | `Crash` |
| pod restarted, `main` | `Restart` |
| coordinator | `AssignOrphan`, `Rebalance` |

The broker and Cassandra are external and modelled from how the service uses
them: a log per partition, one committed offset per partition that the
coordinator stores on behalf of any group member, an assignment that reaches a
worker only in `poll`, a DLQ topic that counts records, and last-write-wins
upserts. A commit by a worker that has lost the partition may be accepted or
refused.

**Replay** composes two instances of Transformer, each with one worker: `Live`,
which runs `run_forever`, and `Service`, which runs `run_until` in a group of its
own from the start of the topics. They share Cassandra (`table`) and the fault
budget, nothing else. `PollMessage` counts and sets the idle clock back, `Tick`
moves the clock while the bounded run polls or processes, `ReachLimit` and
`GiveUp` are the two ways `run_until` returns, `Fail` an exception that leaves
it. `RecreateKeyspace` empties Cassandra before the replay, the case a replay is
for.

**Anomaly** extends Replay with `anomaly-e2e.sh`, an action per command: wait for
the services, clean up at the source and in Cassandra, count the DLQ, expect the
source to refuse bad rows, insert the two anomalies, run the bounded transformer,
count again, judge, gate. `sourced` limits what either transformer can read to
what the sources have brought about by then. Counts may fail (printed as 0) or
come out short (the DLQ count gives up after five seconds); `misread` remembers
it. The eight rejected inserts are one step, since none leaves anything behind,
and the dashboard gate at the end is a choice, since Dashboard is about it.

**Recovery** is `recover-bad-facts.sh`, an action per query of a listing and per
further command. A statement of a listing is the fact whose key it names, or a
line of cqlsh's frame that awk takes for one. The file of DELETE statements never
reaches cqlsh (section 5), so `DeleteFacts` changes nothing in Cassandra.

**Generator** is `main`'s loop and `run_once`, an action per insert. A flow
decides its ids and amounts at once; a table holds the flows whose row is
committed. Every insert commits by itself and may be the last. The `options` of a
process (two counts, a time limit, waits) are chosen when it is started, from
`CommandLines`, and again at each restart. MCGenerator puts
the guardrails of a transformer beside it, which reads the order lines inserted so
far in any order and again after a redelivery, and restarts with nothing known.

**Serving** is the SQL of the dashboard's five queries over sets of rows,
**Quality** the eight checks, the thresholds, the overrides and the overall
status, and **Dashboard** the server, the page and the gate around them. A
request takes the time, scans the tables of its queries one by one
(`ScanFirst`, `QueryReturns`), probes the metrics and answers; any query may fail or raise.
Several requests run side by side, and rows, DLQ records, restarts of the
transformer and the clock go on between any two steps.

**Exporter** is one scrape, an action per call to a target, followed by `Send`,
in which Prometheus keeps the first of two samples of a series (`++`) and drops a
scrape that took too long (`Ingested`). The alert rules are operators over the
scrapes in `history`. MCExporter adds the world: Connect, its connectors, the
transformer's counter and the dashboard change between any two calls, and `log`
remembers beside each scrape what was true at some and at every moment of it.

## 3. Runs

Faults are counted by `faults` and bounded by `MaxFaults`; `FaultKinds` names
the kinds a run injects. A topic's log is fixed: everything Debezium will ever
write is there from the start, and how far a worker has read stands for what has
arrived (Anomaly adds what the script brings about).

| Run | Instance | Shows |
|---|---|---|
| `transformer` | 2 workers, strict mode, metrics on; an order line, its next version and an invalid one on one partition, a deleted customer and a payment on the other; 2 faults of all 7 kinds | `CommittedSettled`, `TableReflectsWrites`, `EveryFactKept`, `MemoryBacked`, `StrictReferences`, `MetricsNeverOverReport`, refinement `ImplementsDelivery`, `TypeOK` |
| `transformer_one_worker` | 1 worker, strict mode; two lines of an order, one repriced, a payment only their first versions cover, two versions of a customer, an unmapped table; 2 faults | `TotalsAddUp`, `NoOverpaymentStored`, `DimensionsNeverRegress`, `CommittedNeverRewinds`, `EventuallyCommitted` |
| `transformer_liveness` | 2 workers, deferred mode; a soft delete, a tombstone, an unmapped table, two versions of a line and an invalid one; 1 fault of all kinds | `EventuallySettled` |
| `star_schema` | every mapped table and operation, rows with up to 2 columns that are damaged or hold any value of any of the three lists | `SourceConstraintsHold`, `SoundRowsAccepted`, `AcceptedRowsRaiseNoFinding` |
| `replay` | live transformer and replay on 2 partitions; two versions of a customer around a tombstone, a line; limit of 4 messages, idle time of one tick; 1 fault of all kinds | `CompleteReplayRebuilds`, `ReplayEnds`, `ReplayDelivers` |
| `anomaly` | `--cleanup` after an earlier run: its payment, the deletion and its tombstone, the two anomalies; 1 fault of all kinds | `PassMeansHandled`, `FailureHasCause`, `AnomalyTypeOK` |
| `recovery` | 16 contents of the tables, all kinds of command lines, 2 writes meanwhile | `ScopeCleared`, `QualityRestored`, `TypeOK` |
| `exporter` | 2 connectors, Connect and transformer that refuse, a dashboard that hangs, 3 changes, window of 2 scrapes | `LastingTroubleFires`, `AlertsHaveCause`, `DlqGrowthFires` |
| `generator` | 2 flows; processes started with `--max-events` over `--iterations`, with a time limit alone, with both, or unlimited, a clock of 2 seconds; a transformer that reads their order lines meanwhile | `References`, `RefundsCovered`, `PaymentsAdmitted`, `Terminates`, `TypeOK` |
| `dashboard` | four scenarios, below | `OverpaidOrdersReported`, `KnownDefectsStopTheGate`, `SoundBooksPass`, `PassMeansFresh`, `PageCatchesUp`, `TypeOK` |

*The bounds.* Two workers are enough for what is about a former and a present
owner, since at most one of each is involved in a partition at a time. Two faults
allow a fault while another is being handled (a rebalance followed by a refused
commit, a failed write followed by a lost DLQ record); a fault-free restart or a
refused stale commit costs nothing from the budget. Two versions per key and one
message of each verdict give every path of `process_message`. Workers are
symmetric in `transformer`, which has no liveness property. In `replay` the limit
equals the number of messages, so that it is reached with and without
redelivery, and one tick of idle time is enough for the clock to run out at any
poll. Two faults of the dashboard are a failing query with a restarted
transformer; two writes during a recovery can hit both sides of either listing;
two flow ids (`FlowIds`) are two attempts, the first broken off anywhere and the second
in another process, or both in one. The generator's clock (`MaxTime`) reaches the time
limits of both command lines that have one, 1 and 2 seconds, before, between and after
the flows; `Terminates` asks of a limited loop not only that it ends but that it ends
with exactly the flows asked for or because its time is up. A value that any of the
lists of `star_schema` has is tried in its column, so a value added to or missing from
one of them is noticed.
Three changes around the exporter are something that breaks, recovers and breaks
again, or three different things at once; a window of two scrapes is the shortest
in which something can last, and stands for the `for` and the range of the rules.

`transformer_one_worker` leaves out `write_applied` on purpose: a payment can be
judged against an older line than the one stored when the newer line's write was
applied but reported as failed, or was made by another replica. That is the
documented reach of the guardrails ("already been observed in the transformer
process", `docs/v2/DATA_QUALITY.md:122`). The order properties do not depend on
it, and the theorems about them cover every kind of fault.
`MetricsNeverOverReport` excludes behaviours in which the broker has lost a DLQ
record, which the code counts as published.

*Scenarios of `dashboard`.* One module, four sets of bounds, chosen by the
variable `scenario` and kept in `MCDashboard.Scenarios`: `gate` (a gate against
every interleaving with three or four writes, two faults, a DLQ record), `fresh`
(rows of successive times, a clock, a gate that judges a snapshot later), `page`
(two overlapping loads, one fault) and `books` (no request at all: every set of
six of eleven rows of two orders, written one by one, so that every smaller
prefix is judged, too). A property speaks of all of them. One of the streams of `gate`
is of odd cents (100 and 103 ordered, 108 paid): its figures are rounded up and down to
tenths, and the overpayment of five cents is just what must not be rounded away.

Two runs end in a violation; section 5 quotes them.

### Fairness

*Transformer.* A live process goes on with its loop (weak fairness of each
worker's successful calls), Kubernetes restarts a dead pod (`Restart`), and the
group coordinator hands out a partition nobody owns. No fault is ever owed, and
faults are finitely many: liveness says what happens once the environment calms
down. The Compose file has no restart policy for the transformer, so these
results are about the Kubernetes deployment.

*Replay.* The operator starts it, time passes, the calls of `process_message`
return, and so does `poll`, with or without a message. Nothing is owed by the
live transformer, the coordinator or the broker: `ReplayEnds` holds when no
partition is ever assigned.

*Generator.* The loop, the inserts and the clock go on; a dead process need not be
started again, and processes are started finitely often.

*Dashboard.* Rows get written, the page's timer goes on firing, and every request
is answered or given up, since `urlopen` and `fetch` return in the end.

## 4. Proofs

All theorems hold for every value of the constants under the named assumptions.

`TransformerProofs`, for any topics, partitions, workers and number of faults,
under `TransformerAssumption` and `GuardrailAssumption` (well-formed constants;
messages with a row carry ids of the right sets):

* `TypesHold`: `Spec => []TypeOK`. `TypeOK` alone is not inductive: what a worker
  holds must fit the call it is about to make (`InflightOK`), or a commit could
  be of no message.
* `CommittedIsSettled`: `Spec => []CommittedSettled`, from the inductive
  invariant `Progress`: below the committed offset everything is settled; before
  the message in a worker's hand everything is settled (`InOrder`), even after
  the worker has lost the partition; behind the fetch position of an owned
  partition there are settled messages and the one its owner holds
  (`FetchedSettled`); and what is about to be committed is settled
  (`ReadySettled`). The step lemmas `CallStep`, `CommitStep`, `DiesStep`,
  `AssignStep` and `PollStep` each cover a family of actions. A stale owner's
  commit is harmless because `InOrder` does not depend on ownership.
* `DeliveryImplemented`: `Spec => ImplementsDelivery`. Each step settles at most
  one message or commits one offset above settled messages only.

Of what is stored, under the same assumptions:

* `StrictReferencesHold` and `MemoryIsBacked`. Neither is inductive alone: a
  payment is checked in `Poll` and written a call later, so `PaymentsChecked`
  carries the verdict across, and the verdict is only worth something because
  memories are backed by Cassandra. `EvidenceGrows` is what makes a check made
  earlier still good.
* `TableHolds`: `Spec => []TableReflectsWrites`.
* `FactsAreKept`: `Spec => []EveryFactKept`, under `PositionsDistinct`, which
  MongoDB's positions do not satisfy (section 5). `FactKeyUnique` derives the
  uniqueness of fact keys from it and from `Mapping`.

Of finite groups and of single workers:

* `CountersNeverOverReport`: `Spec => []MetricsNeverOverReport` for finite sets of
  workers and partitions. The invariant `ClaimsBacked` counts a worker's next
  record before the worker does: between the publish and the commit that follows
  the record is on the topic and not yet in the counter.
* `TotalsHold`: `Spec => []TotalsAddUp` for finitely many order lines.
  `LineTotals` is the step: a line observed leaves its old order's total and
  enters the new one's, also when the two are the same.
* `NoOverpayment`: `Spec => NoOverpaymentStored` under `CoverAssumption`, which
  names the price of the promise: one worker, strict references, the versions of an
  order line on one partition (as Debezium keys them), finitely many lines, and no
  write that takes effect and then raises. `MemoryLatest` says that what the worker remembers
  of a line is its last written version, hence that the totals it checks against
  are at most those in Cassandra; `PaymentsCovered` carries the check across the
  write. The run `transformer_one_worker` satisfies the assumption.
* `OffsetsNeverRewind`, with one worker (`OneWorker`): `Spec =>
  CommittedNeverRewinds`, from `OneAhead`: what the worker holds is the message at
  the committed offset, and the position of each partition it owns is there or
  just behind that message. A commit therefore moves an offset by exactly one.
* `DimensionsMoveForward`: `Spec => DimensionsNeverRegress`, with `VersionsTogether`
  (Kafka Connect keys a topic by the row's key, so a row's versions share a
  partition) and `RowsBehind`: no stored row is of a version beyond the
  committed offset of its partition.

`Sums` has what is needed of the community modules' `SumFunctionOnSet`. The
library's induction over finite sets takes a predicate, which the prover cannot
instantiate; each lemma therefore inducts over a *set*, that of the subsets for
which it holds (`GrowingSets`). `SumOfChange` says what one changed summand does,
`SumOfAtMost` compares two sums, `SumOverImage` renames the summands, and
`SumByGroups` is GROUP BY: the sum is that of the sums of the groups.

`StarSchemaProofs`: the three properties of the `star_schema` run, each as a rule
about any message with any number of damaged columns (`RowsKeepConstraints`,
`SoundRowsPass` with `DeletesNeedOnlyTheKey`, `AcceptedRowsPassTheAudit`), and as a
theorem of the run's specification (`ConstraintsAlwaysHold`,
`SoundRowsAlwaysAccepted`, `FindingsNeverRaised`). `RowsKeepConstraints` says of an
accepted row that its source refuses none of its columns but for what is made good.
It rests on `Covered`: table by table, the lists of `validation.py` cover what the
source database asks, and the mappers' reading of time stamps covers those types;
and on `SourceValuesKnown`, which compares the lists of values.
`AcceptedRowsPassTheAudit` rests on `Audited`, which compares the lists of
`validation.py` with those in the SQL of the dashboard, values (`SameValues`) and columns.

`AnomalyProofs` begins with the replay, two groups over one Cassandra. The theorems
of Transformer cannot be cited of an instance, so what they need is stated here of a
*hand*, a record of what one worker of either group holds (`LiveHand`, `ServiceHand`).
`HandOK` is its invariant: types, what is ahead of the commit, what is ready to be
committed, and that everything passed is settled. `Deals` is what one action does
to a hand and to the table; each action of either instance deals (`LiveDeals`,
`ServiceDeals`) and leaves the other hand alone (`WorkMoves`).

* `ReplayImplementsDelivery`: `Spec => ReplayDelivers`. The bounded run with its
  limit, its idle clock and its exits is an at-least-once consumer of its own
  group, whatever the live transformer does to the shared table meanwhile.
* `CompleteReplaysRebuild`: `Spec => []CompleteReplayRebuilds`. The invariant is
  `RowsKept`: a row is of a message that one of the groups has written (`Stored`),
  what *both* groups are done with is there in its version or a later one, or was
  dropped (`Kept`), and a replay not yet started has done nothing (`Waiting`), so
  that recreating the keyspace loses nothing `Kept` speaks of. One group alone
  guarantees nothing: the other may be putting an old version over a new one, but
  then it is not done with the new one. It needs `TopicsAssumption`: Debezium keys
  the records of a topic by primary key, so the versions of a row are on one
  partition.

It goes on with the script: `PassedMeansHandled` (`Spec => []PassMeansHandled`).
`HarnessStep` shows that every step is one of Replay's or the cleanup;
`ServedStays`, that a payment once served is not taken back, since an upsert takes
nothing away and the cleanup comes before; `CountsStep`, that a count of 1 was
made of a served payment. That the overpayment was settled, although no count says
so, follows from the order of the topic (`Covered`): whoever wrote the pending
payment had the overpayment behind it. `AnomalyAssumption` says that no other
message has the id of the pending payment: the script ends it in a part of its
own (`run_id`).

`FailuresHaveCause` (`Spec => []FailureHasCause`) is the converse for the counts:
with every count right, no failing call and everything read, the script gets past
them, whatever the live transformer did. Its hypotheses are finitely many topics
and deferred references (the default, `docker-compose.yaml:252`; in strict mode a
pending payment could be refused for want of its order); `AnomalyAssumption` says
what the two INSERTs put in. The invariant `Explained` has four parts: `Sober`,
that without faults the bounded run loses nothing, owns what it holds, never
writes the overpayment and never dead-letters the pending payment; `Phases`, how
far the run is at each step of the script; `WrittenServed`, that the pending
payment, once the bounded run has written it, is served; and `Tallied`, which
bounds the counts: the first by the records the live transformer has published,
the second from below by the first and the records of the bounded run.
`ToldGrows` is what makes the difference of the two meaningful: records on the
topic only become more.

`ReplayTypesHold` (`Spec => []TypeOK` of Replay) and `AnomalyTypesHold`
(`Spec => []AnomalyTypeOK`) are more than types. The count of `run_until` covers what
has been committed of every partition, which needs `HasRead`: the message in hand is
counted before it is committed, and only `PollMessage` takes one (`OnlyPollTakes`);
the bounded run commits nothing outside its topics (`ReadsTopics`); and `Sourced`
says how far the sources are at each step of the script, or an insert could go
beyond the log.

`GeneratorProofs`: `TypesHold`, `ReferencesHold` and `RefundsAreCovered`, for any
prices, command lines and flows. `FlowOK` says that rows with the id of the flow in hand
are its own, `Prepared` that what the next row refers to has been inserted, and
`Covered` the same of a refund and its payment. `PaymentsAlwaysAdmitted`
(`MCSpec => []PaymentsAdmitted`) is about the transformer beside the generator:
`MemoryOK` says that the total of an order is the amount of its one line or, while
nothing has been read of it, 0 and the order unknown. `LineObserved` is the step: a
line read again is taken out of the total before it is put in.

`RecoveryProofs`: `RecoveredMeansClean` (`Spec => []QualityRestored`),
`ScopeIsCleared` (`Spec => []ScopeCleared`) and `ReportTellsTheStatus`, for any
facts, writers, failing commands and command lines. The first invariant follows
the script: `Untouched` until the second listing, `SnapshotFits` (a clean snapshot
was taken of what the listing began with, and more), `GateFits`, `Countable`,
`ReportFits` and `EndFits`. `ReportTellsTheStatus`
says that the report of a run and its exit status agree
(`ReportAgreesWithExit`, stated in Recovery); it is proved and needs no run.
`ScopeIsCleared` rests on a second invariant, `Listed`: the queries left are the
last of the plan (`Rest`), and while the second listing is empty nothing it began
with matches a query already asked (`Cleared`). `PlanCovers` shows that the plan
asks for all that is in scope, `QueryLists` that a query lists every stored fact
it asks for.

`RecoveryProofs` ends with `AskedLeavesNothing` (`Spec => []TypeOK`): `TypedStays`
needs `Confirmed`, that a run past its arguments is one that was allowed to be.

`DashboardProofs`, for any rows in any order, any requests side by side, any
thresholds and overrides and any number of faults, under `DashboardAssumption`
(well-formed constants) and `StreamsAssumption` (rows are records of the star
tables; no payment is in state `refunded`, refunds have no state). The inductive
invariant `DashboardOK` says what an answer is worth: each of its results is the
query's on tables scanned at some moment since the request began, each at its own
(`ResultOK`), or an error row; the answer is the report on these results, and on a
DLQ count not below that of the start if nothing failed (`AnswerOK`); a gate that
has passed still holds what it passed (`GateOK`).

* `TypesHold`: `Spec => []TypeOK`.
* `DefectsStopTheGate`: `Spec => []KnownDefectsStopTheGate` for a gate without
  `--allow-warnings`; with it, an overridden check passes by design. An audit over
  more rows finds at least as much (`DefectIsFound`), and what it finds is never
  summed away (`PositiveSum`).
* `PassesAreFresh`: `Spec => PassMeansFresh`, likewise. Every `last` of a result is
  the time of a stored row (`ResultsAreOfRows`), although no result is of now.
* `OverpaymentsAreReported`: `Spec => []OverpaidOrdersReported`, under
  `OneCustomerPerOrder`: an order's lines and payments name the same customer, as the
  generator passes it on (`scenario.py:148-168`) and no constraint of the sources
  says. The query groups both sides by order and customer but joins on the order,
  so with two payers each is compared with the whole order, and an order they
  overpay together has two rows that look fine.
* `SoundBooksAlwaysPass`: `Spec => []SoundBooksPass`, under `OneCustomerPerOrder`
  and `FailedIsNoResult` (an error row has no columns). `GroupsAddUp` shows that
  a result of one line per group, each rounded to tenths, adds up to the cents it was made
  of; `RefundsAsActivity` does so for the negated rows of the UNION ALL;
  `NoOrderOverpaid` adds the orders up to the books. Whole tenths are part of
  `SoundBooks`, since rounding is not additive without them.

`ExporterProofs`, for any connectors, topics, windows, targets that may hang and
changes in the world, under `ExporterAssumption` (well-formed constants; the names of
the connectors are distinct) and `TopicsAssumption` (finitely many DLQ topics):

* `AlertsAlwaysHaveCause`: `MCSpec => []AlertsHaveCause`.
* `LastingTroubleAlwaysFires` and `GrowthAlwaysFires`: `MCSpec =>
  []LastingTroubleFires` and `[]DlqGrowthFires`, under `NoScrapeIsLost`: Prometheus
  waits at least as long as the targets that may hang make it wait together. Without
  it the promise is false: a scrape that is dropped has no sample of the very outage
  that delayed it (section 5).

The inductive invariant `ExporterOK` ties each scrape to its entry in `log`.
`Causes` reads from the samples to the world: a sample that can raise an alert was
true at some moment of the scrape. `ConnectTold`, `ConnectorTold` and
`DashboardTold` read the other way: what was true throughout is in the samples, once
its target has been asked; `Unasked` says that no sample comes before its call, so
that of two samples the first is the one that counts. `Level` places a reading of the
DLQ counter, with what restarts have made the transformer forget (`Lost`), between the
records published at the start and at the end of its scrape; `ReadsMore` draws from
it that of two scrapes apart, the later reads more if records came between.
`RiseIsSeen` is what `increase()` needs: a higher reading later implies a rise between
two neighbours, whatever zeros an unreachable transformer has put between them.
`SpentOK` counts the time of a scrape: each target hangs at most once.

`Sums` also has `MaxIsIn` and `MinIsIn`, which the proofs about Dashboard and Exporter
need of the community modules' `Max` and `Min`.

Every safety property of the passing runs, invariant or action property, and both
refinements are theorems. Only model-checked are the liveness properties
(`EventuallySettled`, `EventuallyCommitted`, `ReplayEnds`, `Terminates` and
`PageCatchesUp`), which need fairness and ENABLED.

## 5. Where code and documentation part

Two runs check a statement of the repository and find it violated:

| Run | Statement | What happens |
|---|---|---|
| `recovery_deletes_nothing` | `recover-bad-facts.sh:9`: "Deletes matching local Cassandra serving facts" | `podman exec` without `-i` gives cqlsh an empty input (`:333`): nothing is deleted |
| `ticket_versions_merged` | RUNBOOKS:8 and ARCHITECTURE:116: the source position in the fact id makes a new version of each event | of a MongoDB event only `ord` is kept (`debezium.py:60`), a counter within one second: the update of a ticket can overwrite the fact of its opening |

Because no fact is ever deleted, a recovery run can only end with 0 when nothing
was in scope by its second listing; `ScopeCleared` and `QualityRestored` hold
with and without a working delete, since they speak of what the second listing
and the gate see. By source position such a run does not even get that far: the
ruler and the row count of two of the listings are always taken for rows, so it
ends with 1, and `ScopeCleared` has something to say of prefixes only.

Further differences seen while modelling. The models contain them; the
properties are stated so that they hold all the same, and no run is kept for
them:

* A commit that fails after a good write sends the written record to the DLQ
  (`service.py:48`), where README:277 has records that fail parsing or writing.
* The delivery of a DLQ record is never confirmed (`dlq.py:62`), so a message can
  be committed and nowhere.
* Deferred mode refuses a payment that arrives between two lines of its order
  (`guardrails.py:70`), against DATA_QUALITY:123.
* With two workers a former owner's late write leaves an old dimension version
  (`cassandra_writer.py:35`), and its late commit moves the offset back, which costs a
  redelivery; `DimensionsNeverRegress` and `CommittedNeverRewinds` are about one worker.
* A row whose `ordered_at`, `movement_ts`, `refunded_at` or `opened_at` is null or
  missing, which each source refuses, is accepted: the mapper puts the time of the
  event in its place (`star_schema.py:230`). So is an id of another form.
* Freshness is that of the newest event of all sources (`quality.py:234`): one that
  has stopped is not noticed while another goes on. When the transformer's metrics
  cannot be read, the DLQ checks have no figure and do not fail (`server.py:173`).
* A replay that stops at its limit leaves dimensions at old versions, and one
  whose idle clock runs out before it has an assignment ends with everything
  still to read (`service.py:94`); RUNBOOKS:8 and :96 sound safer.
* The anomaly test can pass on a count that failed (`anomaly-e2e.sh:140`), on
  another message's DLQ record (`:397`), and with facts of an earlier run back in
  Cassandra after `--cleanup` (`:328`).
* By source position, recovery counts cqlsh's ruler and row count as rows of two
  tables (`recover-bad-facts.sh:170`), so such a run always ends with 1.
* `omnicare_debezium_jmx_up 1` precedes the calls that may fail
  (`exporter/server.py:85`) and Prometheus keeps the first of two samples: the
  JMX alert never fires. It is not among the modelled alerts.
* An unreadable transformer is exported as 0 (`exporter/server.py:157`), which
  `increase()` takes for a restart: the next good scrape looks like growth. Two
  hanging targets take longer than Prometheus waits, and the alert on the outage
  has no sample.
* Figures of one snapshot are of different moments: an order and its payment
  written between two queries fail the reconciliation of sound books
  (`dashboard/app/server.py:79`). Amounts are divided by `100.0`, which Trino rounds to
  tenths (`:333`): an overpayment of less than five cents passes. A payment
  updated after its capture counts twice (`:319`).

## 6. Abstractions and what is not modelled

* Column values are classes; time stamps, day columns, time zones and text are
  left out. The fact id, a sha256 of id and source position, is the pair.
* A message that reports an error from `poll` ends the process like a crash.
* `rejects` counts messages with issues, not issues. Concurrent Cassandra writes
  are ordered by arrival; clock skew between replicas is left out.
* *Dashboard.* The seven tables of the findings query are scanned at one moment,
  since their counts are not compared with each other. Cents are kept, and the
  tenths Trino rounds to are computed where the query divides. Of the page only
  which snapshot each panel shows is kept. Static files and `/health` change
  nothing. The age limit of the gate is in Dashboard; recovery's call of the gate
  leaves it out, since it has just taken the snapshot.
* *Exporter.* The calls to Jolokia are one step, since all fail or answer with
  the host. The DLQ counter stands for both counters read the same way. Latency
  and lag figures and the Kafka and Cassandra exporters' alerts are left out.
* *Generator.* Columns without bearing on references or amounts, and the random
  choice behind them (any outcome may happen), are left out.
* *Replay, Anomaly.* Argument checks and the podman command line are left out.
  A write that fails goes to the DLQ and may not be in Cassandra, in either
  group: `CompleteReplayRebuilds` excepts what is dead-lettered.
* *Not modelled*, with the reasons in `PROJECT.json`: environment parsing
  (its values are CONSTANTS); Cassandra DDL and migrations; the Oracle source;
  Trino's and Superset's configuration; status, preflight and validation tools,
  which read and print; connector registration and resnapshot requests, each one
  REST call or one record, whose effect is decided by Kafka Connect and
  Debezium; `demo-e2e.sh`, which waits around parts that are modelled here;
  deployment manifests.

## 7. Plan

Done: everything above. What a later iteration could add, in order of weight:

1. A refinement of Dashboard to reports of one moment, once the server takes its
   figures from one query.
2. The Debezium lifecycle (snapshot reads against streamed events, signals), if
   its source becomes part of the repository.
