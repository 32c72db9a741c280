------------------------------ MODULE Dashboard ------------------------------
(***************************************************************************)
(* The dashboard server (server.py), the page that polls it (app.js) and   *)
(* the command-line gate (tools/quality_gate.py), while the transformer    *)
(* goes on writing.                                                        *)
(*                                                                         *)
(* A request for a snapshot takes the time, asks Trino five queries one    *)
(* after the other, probes the transformer's metrics, and answers with the *)
(* summary and the quality report.  Trino scans the tables of a query one  *)
(* by one, in any order, and the tables change in between.  Requests of    *)
(* the page and of the gate run side by side, a thread each.               *)
(***************************************************************************)
EXTENDS Quality, Sequences

CONSTANTS
    Streams,        \* sequences of rows, in the order the transformer writes them
    Loads,          \* requests the page can have under way at once
    Gates,          \* runs of the quality gate
    DlqMax, QuarantineMax, FreshnessWindow, WarningChecks,  \* DASHBOARD_* variables
    AllowWarnings, MaxSnapshotAge,                          \* options of the gate
    MaxTime,        \* bound on the clock
    MaxDlq,         \* bound on the DLQ records of a behaviour
    MaxFaults       \* bound on failing queries, probes, answers and restarts

ASSUME DashboardAssumption ==
    /\ Loads \cap Gates = {}
    /\ {DlqMax, QuarantineMax, FreshnessWindow, MaxSnapshotAge} \subseteq Int
    /\ {MaxTime, MaxDlq, MaxFaults} \subseteq Nat

\* Rows are records of the star tables.
ASSUME StreamsAssumption ==
    \A s \in Streams :
        /\ DOMAIN s = 1 .. Len(s) /\ Len(s) \in Nat
        /\ \A i \in 1 .. Len(s) :
            /\ {"table", "order", "customer", "status", "amount", "day", "ts"}
                   \subseteq DOMAIN s[i]
            /\ s[i].table \in DOMAIN Mapping /\ {s[i].amount, s[i].ts} \subseteq Int
            /\ s[i].table = "order_items" => "quantity" \in DOMAIN s[i] /\ s[i].quantity \in Int
            /\ s[i] = [f \in DOMAIN s[i] |-> s[i][f]]
            \* The states the source allows; refunds have none.
            /\ s[i].table = "payments" => s[i].status # "refunded"
            /\ s[i].table = "refunds" => s[i].status = "none"

\* An order and its payments name the same customer: the generator passes it on
\* from the order to the invoice and the payment.  No constraint says so.
OneCustomerPerOrder ==
    \A s \in Streams : \A i, j \in 1 .. Len(s) :
        /\ s[i].table \in {"order_items", "payments"}
        /\ s[j].table \in {"order_items", "payments"}
        /\ s[i].order = s[j].order
        => s[i].customer = s[j].customer

Requests == Loads \cup Gates

VARIABLES
    stream, stored,     \* the rows being written, and how many are in Cassandra
    now,                \* the clock
    telemetry,          \* the transformer's DLQ counter, and what the topic holds
    faults,
    step,               \* per request: what it is about to do
    generatedAt,        \* per request: the time it started
    seen,               \* per request: the table of the current query already scanned
    results,            \* per request: the results so far
    snapshot,           \* per request: the answer
    startedAt,          \* per request: rows and DLQ records when it started (history)
    page,               \* the page: its status, its chart and its other panels
    verdict             \* per gate run: none, pass or fail

serverVars == <<step, generatedAt, seen, results, snapshot, startedAt>>
envVars == <<stream, stored, now, telemetry>>
vars == <<envVars, faults, serverVars, page, verdict>>

DefaultMaxEventAge == 86400

\* _freshness_window_seconds and _quality_threshold: a value out of range is
\* replaced by the default.
Config ==
    [dlqMax |-> IF DlqMax >= 0 THEN DlqMax ELSE 0,
     quarantineMax |-> IF QuarantineMax >= 0 THEN QuarantineMax ELSE 0,
     maxAge |-> IF FreshnessWindow > 0 THEN FreshnessWindow ELSE DefaultMaxEventAge,
     warningChecks |-> WarningChecks]

Queries == <<"revenue", "payments", "support", "orderCash", "findings">>

\* The tables a query joins or unites.  Those of "findings" are only counted,
\* each on its own, so one moment stands for seven.
ScannedTables ==
    [revenue |-> {"order_items"}, payments |-> {"payments", "refunds"},
     support |-> {"support_tickets"}, orderCash |-> {"order_items", "payments"},
     findings |-> DOMAIN Mapping]

RowsAt(n) == {stream[i] : i \in 1 .. n}

\* The result of query q that scans table t when as many rows as moments[t] are
\* stored.
QueryAt(q, moments) ==
    LET From(t) == RowsOf(RowsAt(moments[t]), t)
        rows == UNION {From(t) : t \in ScannedTables[q]}
    IN  CASE q = "revenue" -> RevenueByDay(rows)
          [] q = "payments" -> PaymentHealth(rows)
          [] q = "support" -> SupportRisk(rows)
          [] q = "orderCash" -> OrderToCash(From("order_items"), From("payments"))
          [] q = "findings" -> QualityFindings(rows)

NothingSeen == [table |-> "none", moment |-> 0]
NoResults == [q \in {} |-> Failed]
NoAnswer == [generatedAt |-> 0, summary |-> <<>>, report |-> <<>>]
NoStart == [rows |-> 0, dlq |-> 0]
NoPage == [status |-> "Loading", chart |-> NoAnswer, panels |-> NoAnswer]

Steps == {"idle", "probe", "answered", "broken"} \cup {Queries[i] : i \in 1 .. 5}

TypeOK ==
    /\ stored \in 0 .. Len(stream)
    /\ now \in 0 .. MaxTime
    /\ telemetry.counter <= telemetry.topic /\ telemetry.topic <= MaxDlq
    /\ faults \in 0 .. MaxFaults
    /\ step \in [Requests -> Steps]
    /\ \A r \in Requests :
        /\ startedAt[r].rows <= stored /\ startedAt[r].dlq <= telemetry.topic
        /\ seen[r].moment <= stored
        /\ generatedAt[r] <= now
        /\ step[r] \in {"probe", "answered"} =>
              DOMAIN results[r] = {Queries[i] : i \in 1 .. 5}
    /\ page.status \in {"Loading", "Live", "Unavailable"}
    /\ verdict \in [Gates -> {"none", "pass", "fail"}]

Init ==
    /\ stream \in Streams
    /\ stored = 0
    /\ now = 0
    /\ telemetry = [counter |-> 0, topic |-> 0]
    /\ faults = 0
    /\ step = [r \in Requests |-> "idle"]
    /\ generatedAt = [r \in Requests |-> 0]
    /\ seen = [r \in Requests |-> NothingSeen]
    /\ results = [r \in Requests |-> NoResults]
    /\ snapshot = [r \in Requests |-> NoAnswer]
    /\ startedAt = [r \in Requests |-> NoStart]
    /\ page = NoPage
    /\ verdict = [g \in Gates |-> "none"]

-----------------------------------------------------------------------------
(* The environment *)

Fault == faults < MaxFaults /\ faults' = faults + 1

\* The transformer writes the next row; an event is written after it happened.
WriteFact ==
    /\ stored < Len(stream)
    /\ stream[stored + 1].ts <= now
    /\ stored' = stored + 1
    /\ UNCHANGED <<stream, now, telemetry, faults, serverVars, page, verdict>>

Tick ==
    /\ now < MaxTime
    /\ now' = now + 1
    /\ UNCHANGED <<stream, stored, telemetry, faults, serverVars, page, verdict>>

\* The transformer publishes a DLQ record and counts it.
PublishDlq ==
    /\ telemetry.topic < MaxDlq
    /\ telemetry' = [counter |-> telemetry.counter + 1, topic |-> telemetry.topic + 1]
    /\ UNCHANGED <<stream, stored, now, faults, serverVars, page, verdict>>

\* The transformer restarts, and its counters with it.
RestartTransformer ==
    /\ Fault
    /\ telemetry' = [telemetry EXCEPT !.counter = 0]
    /\ UNCHANGED <<stream, stored, now, serverVars, page, verdict>>

-----------------------------------------------------------------------------
(* DashboardData.snapshot *)

\* GET /api/dashboard reaches the server, which takes the time first.
StartSnapshot(r) ==
    /\ step[r] = "idle"
    /\ step' = [step EXCEPT ![r] = Queries[1]]
    /\ generatedAt' = [generatedAt EXCEPT ![r] = now]
    /\ startedAt' = [startedAt EXCEPT ![r] = [rows |-> stored, dlq |-> telemetry.topic]]
    /\ results' = [results EXCEPT ![r] = NoResults]
    /\ seen' = [seen EXCEPT ![r] = NothingSeen]

\* The number of the query request r is at.
At(r) == CHOOSE i \in 1 .. Len(Queries) : Queries[i] = step[r]

Asking(r) == \E i \in 1 .. Len(Queries) : Queries[i] = step[r]

\* Trino scans one table of a query over two.
ScanFirst(r) ==
    /\ Asking(r)
    /\ Cardinality(ScannedTables[step[r]]) = 2
    /\ seen[r] = NothingSeen
    /\ \E t \in ScannedTables[step[r]] :
        seen' = [seen EXCEPT ![r] = [table |-> t, moment |-> stored]]
    /\ UNCHANGED <<envVars, faults, step, generatedAt, results, snapshot, startedAt,
                   page, verdict>>

\* When the current query of r scans table t, unless it has done so already.
Moment(r, t) == IF seen[r].table = t THEN seen[r].moment ELSE stored

\* Mutant: the order-to-cash query returns its first row only.
QueryResult_FirstOrder(r) ==
    LET all == QueryAt(step[r], [t \in ScannedTables[step[r]] |-> Moment(r, t)])
    IN  IF step[r] = "orderCash" THEN {o \in all : \A p \in all : p.open <= o.open} ELSE all

\* What the query returns once the rest of its tables is scanned.
QueryResult(r) == QueryAt(step[r], [t \in ScannedTables[step[r]] |-> Moment(r, t)])

\* Mutant: the last query is not asked.
NextQuery_SkipsOne(r, result) ==
    /\ results' = [results EXCEPT ![r] =
                      [q \in DOMAIN @ \cup {step[r]} |->
                          IF q = step[r] THEN result ELSE results[r][q]]]
    /\ step' = [step EXCEPT ![r] =
                   IF At(r) = Len(Queries) - 1 THEN "probe" ELSE Queries[At(r) + 1]]
    /\ seen' = [seen EXCEPT ![r] = NothingSeen]
    /\ UNCHANGED <<envVars, generatedAt, snapshot, startedAt, page, verdict>>

\* snapshot goes on with the result of the query.
NextQuery(r, result) ==
    /\ results' = [results EXCEPT ![r] =
                      [q \in DOMAIN @ \cup {step[r]} |->
                          IF q = step[r] THEN result ELSE results[r][q]]]
    /\ step' = [step EXCEPT ![r] =
                   IF At(r) = Len(Queries) THEN "probe" ELSE Queries[At(r) + 1]]
    /\ seen' = [seen EXCEPT ![r] = NothingSeen]
    /\ UNCHANGED <<envVars, generatedAt, snapshot, startedAt, page, verdict>>

\* TrinoClient.query has followed every nextUri.
QueryReturns(r) ==
    /\ Asking(r)
    /\ NextQuery(r, QueryResult(r))
    /\ UNCHANGED faults

\* Trino answers with an error, is unreachable or slow: _safe_query turns it
\* into an error row, whatever rows had been fetched already.
QueryFails(r) ==
    /\ Asking(r)
    /\ Fault
    /\ NextQuery(r, Failed)

\* An exception _safe_query does not name (a reset connection, a body cut
\* short, text that is not JSON) ends the handler thread without an answer.
QueryRaises(r) ==
    /\ Asking(r)
    /\ Fault
    /\ step' = [step EXCEPT ![r] = "broken"]
    /\ UNCHANGED <<envVars, generatedAt, seen, results, snapshot, startedAt, page, verdict>>

\* The snapshot is complete but for the metrics of the transformer, whose text
\* is summed over its samples.  The reject counter is treated like the DLQ
\* counter and stays 0 here.
AnswerWith(r, metrics) ==
    LET got == results[r]
    IN  /\ snapshot' = [snapshot EXCEPT ![r] =
              [generatedAt |-> generatedAt[r],
               summary |-> Summary(got.revenue, got.payments, got.support, got.orderCash),
               report |-> Report(generatedAt[r], got, metrics, Config)]]
        /\ step' = [step EXCEPT ![r] = "answered"]
        /\ UNCHANGED <<envVars, generatedAt, seen, results, startedAt, page, verdict>>

Unavailable == [available |-> FALSE, dlq |-> 0, rejects |-> 0]

ProbeReturns(r) ==
    /\ step[r] = "probe"
    /\ AnswerWith(r, [available |-> TRUE, dlq |-> telemetry.counter, rejects |-> 0])
    /\ UNCHANGED faults

\* The transformer does not answer in time, or does not listen.
ProbeFails(r) ==
    /\ step[r] = "probe"
    /\ Fault
    /\ AnswerWith(r, Unavailable)

-----------------------------------------------------------------------------
(* The page *)

\* loadDashboard: at the start, every 30 seconds and on a click, whether or
\* not the answer to the last one has arrived.
LoadDashboard(r) ==
    /\ StartSnapshot(r)
    /\ page' = [page EXCEPT !.status = "Loading"]
    /\ UNCHANGED <<envVars, faults, snapshot, verdict>>

Release(r) ==
    /\ step' = [step EXCEPT ![r] = "idle"]
    /\ results' = [results EXCEPT ![r] = NoResults]
    /\ snapshot' = [snapshot EXCEPT ![r] = NoAnswer]
    /\ generatedAt' = [generatedAt EXCEPT ![r] = 0]
    /\ startedAt' = [startedAt EXCEPT ![r] = NoStart]
    /\ seen' = [seen EXCEPT ![r] = NothingSeen]

\* Mutant: an answer is only rendered when its second is later than the one on
\* show.
Render_LaterSecond(r) ==
    /\ step[r] = "answered"
    /\ page' = IF page.panels = NoAnswer \/ page.panels.generatedAt < snapshot[r].generatedAt
               THEN [status |-> "Live", chart |-> snapshot[r], panels |-> snapshot[r]]
               ELSE [page EXCEPT !.status = "Live"]
    /\ Release(r)
    /\ UNCHANGED <<envVars, faults, verdict>>

\* The answer arrives and is rendered, older or newer than the one on show.
Render(r) ==
    /\ step[r] = "answered"
    /\ page' = [status |-> "Live", chart |-> snapshot[r], panels |-> snapshot[r]]
    /\ Release(r)
    /\ UNCHANGED <<envVars, faults, verdict>>

\* No answer: renderError replaces the revenue chart and nothing else.
RenderError(r) ==
    /\ \/ step[r] = "broken" /\ UNCHANGED faults
       \/ step[r] = "answered" /\ Fault
    /\ page' = [page EXCEPT !.status = "Unavailable", !.chart = NoAnswer]
    /\ Release(r)
    /\ UNCHANGED <<envVars, verdict>>

-----------------------------------------------------------------------------
(* The quality gate *)

StartGate(g) ==
    /\ verdict[g] = "none"
    /\ StartSnapshot(g)
    /\ UNCHANGED <<envVars, faults, snapshot, page, verdict>>

\* Mutant: the age of the snapshot is not looked at.
GatePasses_AnyAge(answer) ==
    LET accepted == IF AllowWarnings THEN {"pass", "warn"} ELSE {"pass"}
    IN  /\ answer.report.overallStatus \in accepted
        /\ \A c \in DOMAIN answer.report.checks : answer.report.checks[c] \in accepted

\* evaluate_snapshot finds no failure.
GatePasses(answer) ==
    LET accepted == IF AllowWarnings THEN {"pass", "warn"} ELSE {"pass"}
    IN  /\ now - answer.generatedAt <= MaxSnapshotAge
        /\ answer.report.overallStatus \in accepted
        /\ \A c \in DOMAIN answer.report.checks : answer.report.checks[c] \in accepted

\* The gate reads the snapshot, from the server or later from a file.
Evaluate(g) ==
    /\ verdict[g] = "none"
    /\ \/ step[g] = "answered" /\ UNCHANGED faults
          /\ verdict' = [verdict EXCEPT ![g] = IF GatePasses(snapshot[g]) THEN "pass" ELSE "fail"]
       \/ step[g] = "broken" /\ UNCHANGED faults
          /\ verdict' = [verdict EXCEPT ![g] = "fail"]
       \/ step[g] \notin {"idle", "answered", "broken"} /\ Fault    \* --timeout-seconds
          /\ verdict' = [verdict EXCEPT ![g] = "fail"]
    /\ step' = [step EXCEPT ![g] = IF @ = "answered" THEN @ ELSE "broken"]
    /\ UNCHANGED <<envVars, generatedAt, seen, results, snapshot, startedAt, page>>

-----------------------------------------------------------------------------

Next ==
    \/ WriteFact \/ Tick \/ PublishDlq \/ RestartTransformer
    \/ \E r \in Requests :
        \/ ScanFirst(r) \/ QueryReturns(r) \/ QueryFails(r) \/ QueryRaises(r)
        \/ ProbeReturns(r) \/ ProbeFails(r)
    \/ \E r \in Loads : LoadDashboard(r) \/ Render(r) \/ RenderError(r)
    \/ \E g \in Gates : StartGate(g) \/ Evaluate(g)

Spec == Init /\ [][Next]_vars

-----------------------------------------------------------------------------

Orders == {stream[i].order : i \in 1 .. Len(stream)}

OrderRows(o, rows) ==
    {r \in rows : r.table \in {"order_items", "payments"} /\ r.order = o}

\* Captured cents above the ordered cents, for an order with lines.
Overpayment(o, rows) ==
    LET own == OrderRows(o, rows)
    IN  IF RowsOf(own, "order_items") = {} THEN 0
        ELSE Captured(RowsOf(own, "payments")) - Cents(RowsOf(own, "order_items"))

Untouched(o, r) == OrderRows(o, RowsAt(startedAt[r].rows)) = OrderRows(o, RowsAt(stored))

\* What the five queries return on the tables of one moment.
ResultsAt(n) ==
    [q \in {Queries[i] : i \in 1 .. 5} |-> QueryAt(q, [t \in ScannedTables[q] |-> n])]

\* The audit finds something in the row alone.
Defective(row) ==
    LET findings == QualityFindings({row})
    IN  \E f \in DOMAIN findings : findings[f] > 0

-----------------------------------------------------------------------------

\* An order that is overpaid by five cents or more when a snapshot starts, and
\* is not touched until it is answered, fails the report, whatever is written
\* for other orders meanwhile and whichever queries fail.
OverpaidOrdersReported ==
    \A r \in Requests : step[r] = "answered" =>
        \A o \in Orders :
            Untouched(o, r) /\ Overpayment(o, RowsAt(startedAt[r].rows)) >= 5
                => snapshot[r].report.overallStatus # "pass"

\* The strict gate never passes over a defect that was there when it asked: a
\* stored row the audit objects to, or a DLQ record over the threshold while
\* the transformer stayed up and reachable.  Overriding a check into a warning
\* does not get it past the gate.
KnownDefectsStopTheGate ==
    \A g \in Gates : verdict[g] = "pass" =>
        /\ \A row \in RowsAt(startedAt[g].rows) : ~Defective(row)
        /\ faults = 0 => startedAt[g].dlq <= Config.dlqMax

\* When the gate passes, some event is at most as old as the freshness window
\* and the snapshot's own age together, at that moment.
PassMeansFresh ==
    [][\A g \in Gates : verdict[g] # verdict'[g] /\ verdict'[g] = "pass" =>
          \E i \in 1 .. stored : now - stream[i].ts <= Config.maxAge + MaxSnapshotAge]_vars

\* Every payment is of an ordered order, no order is overpaid, no more is
\* refunded than was captured, and amounts are whole tenths, none negative.
SoundBooks(rows) ==
    LET lines == RowsOf(rows, "order_items")
        payments == RowsOf(rows, "payments")
        Of(s, o) == {r \in s : r.order = o}
    IN  /\ \A r \in rows : r.amount >= 0 /\ r.amount % 10 = 0
        /\ \A p \in payments : Captured(Of(payments, p.order)) <= Cents(Of(lines, p.order))
        /\ Cents(RowsOf(rows, "refunds")) <= Captured(payments)

\* Books that are sound never fail the reconciliation.
SoundBooksPass == SoundBooks(RowsAt(stored)) => ~BooksOff(ResultsAt(stored))
=============================================================================
