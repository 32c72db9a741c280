------------------------------ MODULE Exporter ------------------------------
(***************************************************************************)
(* The metrics exporter (infra/observability/exporter) and the Prometheus  *)
(* that scrapes it and evaluates the alert rules.  A scrape asks its       *)
(* targets one after the other while they fail and recover.                *)
(*                                                                         *)
(* A series is a metric with the value of its label, "none" where it has   *)
(* none; samples are a function from series to values.  history holds the  *)
(* last Window scrapes, which stand for the "for" and the range of the     *)
(* alert rules.                                                            *)
(***************************************************************************)
EXTENDS Integers, Sequences, FiniteSetsExt, Functions

CONSTANTS
    ConnectorNames,     \* sequence of connectors, in sorted order
    Topics,             \* source topics of DLQ records
    Refusing, Hanging,  \* targets that may fail at once, or by hanging
    JolokiaConfigured,  \* JOLOKIA_URL is set
    Window,             \* scrapes an alert looks back on
    Changing,           \* what changes around the exporter: ChangeKinds
    MaxChanges,         \* bound on these changes
    CallTimeout,        \* of urlopen, seconds
    ScrapeTimeout       \* of Prometheus, seconds

Targets == {"connect", "jolokia", "transformer", "dashboard"}
ConnectorStates == {"RUNNING", "TASK_FAILED", "STOPPED", "REMOVED"}
Health(t) ==
    {"answers"} \cup {h \in {"refuses"} : t \in Refusing} \cup {h \in {"hangs"} : t \in Hanging}

ChangeKinds == {"health", "connectors", "dlq", "quality"}

ASSUME ExporterAssumption ==
    /\ Changing \subseteq ChangeKinds
    /\ ConnectorNames \in Seq(Range(ConnectorNames)) /\ IsInjective(ConnectorNames)
    /\ Refusing \subseteq Targets /\ Hanging \subseteq Targets
    /\ JolokiaConfigured \in BOOLEAN
    /\ Window \in Nat \ {0} /\ MaxChanges \in Nat
    /\ CallTimeout \in Nat /\ ScrapeTimeout \in Nat

VARIABLES
    health,     \* of each target
    states,     \* of each connector, as Connect has it
    dlq,        \* the transformer's DLQ counter per topic, 0: no such series yet
    quality,    \* overallStatus of the dashboard
    pc,         \* the target to be asked next, or "idle"
    todo,       \* places of the connectors whose status is still to be asked
    body,       \* samples collected in this scrape, the first of each series
    spent,      \* seconds spent waiting for targets that hang
    history,    \* samples of the last scrapes, <<>> for a lost one
    changes     \* count against MaxChanges

vars == <<health, states, dlq, quality, pc, todo, body, spent, history, changes>>
world == <<health, states, dlq, quality, changes>>

Connectors == {ConnectorNames[i] : i \in DOMAIN ConnectorNames}

Init ==
    /\ health = [t \in Targets |-> "answers"]
    /\ states = [c \in Connectors |-> "RUNNING"]
    /\ dlq = [t \in Topics |-> 0]
    /\ quality = "pass"
    /\ pc = "idle" /\ todo = {} /\ body = <<>> /\ spent = 0
    /\ history = <<>> /\ changes = 0

-----------------------------------------------------------------------------
\* What happens around the exporter.

Change(kind) ==
    /\ kind \in Changing
    /\ changes < MaxChanges
    /\ changes' = changes + 1

exporterVars == <<pc, todo, body, spent, history>>

HealthChanges ==
    /\ Change("health")
    /\ \E t \in Targets : \E h \in Health(t) \ {health[t]} :
          health' = [health EXCEPT ![t] = h]
    /\ UNCHANGED <<states, dlq, quality, exporterVars>>

\* connect-connector.sh stops, restarts and removes; tasks fail by themselves.
ConnectorChanges ==
    /\ Change("connectors")
    /\ \E c \in Connectors : \E s \in ConnectorStates \ {states[c]} :
          states' = [states EXCEPT ![c] = s]
    /\ UNCHANGED <<health, dlq, quality, exporterVars>>

RecordDlq ==
    /\ Change("dlq")
    /\ \E t \in Topics : dlq' = [dlq EXCEPT ![t] = @ + 1]
    /\ UNCHANGED <<health, states, quality, exporterVars>>

TransformerRestarts ==
    /\ Change("dlq")
    /\ dlq' = [t \in Topics |-> 0]
    /\ UNCHANGED <<health, states, quality, exporterVars>>

QualityChanges ==
    /\ Change("quality")
    /\ \E s \in {"pass", "warn", "fail"} \ {quality} : quality' = s
    /\ UNCHANGED <<health, states, dlq, exporterVars>>

-----------------------------------------------------------------------------
\* One scrape.  Each call answers, fails at once or after CallTimeout.

Sample(metric, label, value) == [s \in {<<metric, label>>} |-> value]

\* Samples and those after them: Prometheus keeps the first of two of one series.
\* This is @@ of TLC, which the provers take for an unknown operator.
f ++ g == [s \in DOMAIN f \cup DOMAIN g |-> IF s \in DOMAIN f THEN f[s] ELSE g[s]]
Bit(condition) == IF condition THEN 1 ELSE 0

Scrape ==
    /\ pc = "idle"
    /\ pc' = "connect"
    /\ body' = Sample("exporter_up", "none", 1)
    /\ spent' = 0
    /\ UNCHANGED <<world, todo, history>>

Answers(t) == health[t] = "answers"

\* The call to t: it collects samples and goes on.
Called(t, samples, next) ==
    /\ body' = body ++ samples
    /\ pc' = next
    /\ spent' = spent + (IF health[t] = "hangs" THEN CallTimeout ELSE 0)
    /\ UNCHANGED <<world, history>>

\* The tour of the connectors: those still to be asked, and where it goes.
Touring(rest) == IF rest = {} THEN "jolokia" ELSE "status"
Listed == {i \in DOMAIN ConnectorNames : states[ConnectorNames[i]] # "REMOVED"}

\* Mutant: the list is announced before it is asked for.
AskConnectors_UpFirst ==
    /\ pc = "connect"
    /\ todo' = IF Answers("connect") THEN Listed ELSE {}
    /\ Called("connect",
              Sample("connect_up", "none", 1) ++ Sample("connect_up", "none", 0),
              Touring(todo'))

\* GET /connectors.
AskConnectors ==
    /\ pc = "connect"
    /\ todo' = IF Answers("connect") THEN Listed ELSE {}
    /\ Called("connect", Sample("connect_up", "none", Bit(Answers("connect"))), Touring(todo'))

\* A stopped connector has no tasks.
ConnectorMetrics(c) ==
    Sample("connector_running", c, Bit(states[c] \in {"RUNNING", "TASK_FAILED"})) ++
    (IF states[c] = "STOPPED" THEN <<>>
     ELSE Sample("task_running", c, Bit(states[c] = "RUNNING")))

\* Mutant: a connector whose status cannot be read is reported as not running.
AskStatus_NotRunning ==
    LET i == Min(todo)
        c == ConnectorNames[i]
    IN  /\ pc = "status"
        /\ todo' = todo \ {i}
        /\ Called("connect",
                  IF Answers("connect") /\ states[c] # "REMOVED" THEN ConnectorMetrics(c)
                  ELSE Sample("connector_running", c, 0),
                  Touring(todo'))

\* GET /connectors/<name>/status.  One failure, as of a connector removed since
\* the list was read, ends the tour and contradicts the first sample.
AskStatus ==
    LET i == Min(todo)
        c == ConnectorNames[i]
        known == Answers("connect") /\ states[c] # "REMOVED"
    IN  /\ pc = "status"
        /\ todo' = IF known THEN todo \ {i} ELSE {}
        /\ Called("connect",
                  IF known THEN ConnectorMetrics(c) ELSE Sample("connect_up", "none", 0),
                  Touring(todo'))

\* The search for MBeans and the reads of each, with the lag they report.
JolokiaMetrics == Sample("source_lag", "none", 0)

\* What Jolokia returns is collected when all calls have been made; that it is up
\* is said before the first.
AskJolokia ==
    /\ pc = "jolokia"
    /\ IF JolokiaConfigured
       THEN Called("jolokia",
                   Sample("jmx_up", "none", 1) ++
                   (IF Answers("jolokia") THEN JolokiaMetrics ELSE Sample("jmx_up", "none", 0)),
                   "transformer")
       ELSE /\ body' = body ++ Sample("jmx_up", "none", 0)
            /\ pc' = "transformer"
            /\ UNCHANGED <<world, spent, history>>
    /\ UNCHANGED todo

\* Mutant: lines with labels are not matched.
MetricSum_NoLabels(counters) == 0

\* The lines of a metric, one per topic, added up.
MetricSum(counters) == SumFunctionOnSet(counters, Topics)

\* The reject counter is read the same way; dlq stands for both.
AskTransformer ==
    /\ pc = "transformer"
    /\ Called("transformer",
              Sample("quality_dlq", "none", IF Answers("transformer") THEN MetricSum(dlq) ELSE 0),
              "dashboard")
    /\ UNCHANGED todo

DataQualityMetrics ==
    Sample("overall_status", "pass", Bit(quality = "pass")) ++
    Sample("overall_status", "warn", Bit(quality = "warn")) ++
    Sample("overall_status", "fail", Bit(quality = "fail"))

AskDashboard ==
    /\ pc = "dashboard"
    /\ Called("dashboard",
              IF Answers("dashboard")
              THEN Sample("dashboard_up", "none", 1) ++ Sample("generated_at", "none", 0) ++
                   Sample("order_lines", "none", 0) ++ DataQualityMetrics
              ELSE Sample("dashboard_up", "none", 0),
              "send")
    /\ UNCHANGED todo

\* Prometheus drops a scrape that took too long.
Ingested == IF spent > ScrapeTimeout THEN <<>> ELSE body

Remember(seq, entry) ==
    IF Len(seq) < Window THEN Append(seq, entry) ELSE Append(Tail(seq), entry)

Send ==
    /\ pc = "send"
    /\ history' = Remember(history, Ingested)
    /\ pc' = "idle" /\ body' = <<>> /\ spent' = 0
    /\ UNCHANGED <<world, todo>>

Next ==
    \/ HealthChanges \/ ConnectorChanges \/ RecordDlq \/ TransformerRestarts
    \/ QualityChanges
    \/ Scrape \/ AskConnectors \/ AskStatus \/ AskJolokia \/ AskTransformer
    \/ AskDashboard \/ Send

Spec == Init /\ [][Next]_vars

-----------------------------------------------------------------------------
\* The alert rules, over the scrapes in history.

\* A series had the value in every scrape of the window: "for" is over.
Lasting(metric, label, value) ==
    /\ Len(history) = Window
    /\ \A i \in DOMAIN history :
          /\ <<metric, label>> \in DOMAIN history[i]
          /\ history[i][<<metric, label>>] = value

\* increase() over the window: a counter that fell is taken to have restarted.
Readings(metric) == {i \in DOMAIN history : <<metric, "none">> \in DOMAIN history[i]}
Later(metric, i) == {j \in Readings(metric) : j > i}

Rise(metric, i) ==
    LET from == history[i][<<metric, "none">>]
        to == history[Min(Later(metric, i))][<<metric, "none">>]
    IN  IF to < from THEN to ELSE to - from

Increase(metric) ==
    SumFunction([i \in {i \in Readings(metric) : Later(metric, i) # {}} |-> Rise(metric, i)])

KafkaConnectDown == Lasting("connect_up", "none", 0)
ConnectorNotRunning(c) == Lasting("connector_running", c, 0)
ConnectorTaskNotRunning(c) == Lasting("task_running", c, 0)
DashboardApiDown == Lasting("dashboard_up", "none", 0)
DataQualityGateFailed == Lasting("overall_status", "fail", 1)
DlqSpike == Increase("quality_dlq") > 0
=============================================================================
