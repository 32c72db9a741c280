----------------------------- MODULE MCExporter -----------------------------
(***************************************************************************)
(* Exporter for TLC, with a log of what really was the matter during each  *)
(* of the scrapes in history, to hold the alerts against.                  *)
(***************************************************************************)
EXTENDS Exporter

TwoConnectors == <<"mongo", "mysql">>

ASSUME TopicsAssumption == IsFiniteSet(Topics)

\* Each target makes a scrape wait once: even if all that may hang do, Prometheus
\* waits long enough.
NoScrapeIsLost == Cardinality(Hanging) * CallTimeout <= ScrapeTimeout

VARIABLES
    now,    \* of the scrape in progress: log entry so far
    log     \* entries of the scrapes in history

mcVars == <<vars, now, log>>

\* The conditions of the moment: a target's health, a connector's state.
Conditions ==
    {<<t, health[t]>> : t \in Targets} \cup {<<c, states[c]>> : c \in Connectors}
        \cup {<<"quality", quality>>}

Total == SumFunctionOnSet(dlq, Topics)

\* all: true throughout the scrape; some: true at some moment of it; from, to:
\* DLQ records ever counted at its start and end; before, restarts: restarts of
\* the transformer until its start and its end.
Entry == [all |-> Conditions, some |-> Conditions, from |-> 0, to |-> 0,
          before |-> 0, restarts |-> 0]

MCInit == Init /\ now = Entry /\ log = <<>>

Recorded == IF Total' > Total THEN 1 ELSE 0
Restarted == IF Total' < Total THEN 1 ELSE 0

\* Between scrapes, now is the entry of a scrape that starts at once.
MCNext ==
    /\ Next
    /\ LET seen ==
            [all |-> IF pc' = "idle" \/ pc = "idle" THEN Conditions'
                     ELSE now.all \cap Conditions',
             some |-> IF pc' = "idle" \/ pc = "idle" THEN Conditions'
                      ELSE now.some \cup Conditions',
             from |-> IF pc' = "idle" THEN now.to + Recorded ELSE now.from,
             to |-> now.to + Recorded,
             before |-> IF pc' = "idle" THEN now.restarts + Restarted ELSE now.before,
             restarts |-> now.restarts + Restarted]
       IN  /\ now' = seen
           /\ log' = IF pc = "send" /\ pc' = "idle" THEN Remember(log, now) ELSE log

MCSpec == MCInit /\ [][MCNext]_mcVars

-----------------------------------------------------------------------------

Throughout(condition) == Len(log) = Window /\ \A i \in DOMAIN log : condition \in log[i].all
Down(t) == Len(log) = Window /\ \A i \in DOMAIN log : <<t, "answers">> \notin log[i].some
SomeRemoved == \E i \in DOMAIN log : \E c \in Connectors : <<c, "REMOVED">> \in log[i].some

\* What lasts through all scrapes of the window is reported by its alert: an
\* unreachable Connect or dashboard, a connector or a task that does not run
\* while Connect answers and no connector is removed, a failed quality report.
LastingTroubleFires ==
    /\ Down("connect") => KafkaConnectDown
    /\ Down("dashboard") => DashboardApiDown
    /\ Throughout(<<"connect", "answers">>) /\ ~SomeRemoved =>
          \A c \in Connectors :
            /\ Throughout(<<c, "STOPPED">>) => ConnectorNotRunning(c)
            /\ Throughout(<<c, "TASK_FAILED">>) => ConnectorTaskNotRunning(c)
    /\ Throughout(<<"dashboard", "answers">>) /\ Throughout(<<"quality", "fail">>) =>
          DataQualityGateFailed

Sometime(condition) == \A i \in DOMAIN log : condition \in log[i].some

\* No alert without cause: in every scrape of the window there was a moment at
\* which what the alert says was so.
AlertsHaveCause ==
    /\ KafkaConnectDown => \A i \in DOMAIN log : log[i].some \cap
            {<<"connect", "refuses">>, <<"connect", "hangs">>} # {}
    /\ DashboardApiDown => \A i \in DOMAIN log : log[i].some \cap
            {<<"dashboard", "refuses">>, <<"dashboard", "hangs">>} # {}
    /\ \A c \in Connectors :
          /\ ConnectorNotRunning(c) => Sometime(<<c, "STOPPED">>)
          /\ ConnectorTaskNotRunning(c) => Sometime(<<c, "TASK_FAILED">>)
    /\ DataQualityGateFailed => Sometime(<<"quality", "fail">>)

\* DLQ records counted between two scrapes that could read the counter, with no
\* restart of the transformer meanwhile, are seen as a spike.
DlqGrowthFires ==
    (\E i, j \in DOMAIN log :
        /\ i < j /\ log[i].to < log[j].from
        /\ log[i].before = log[j].restarts
        /\ \A k \in {i, j} : <<"transformer", "answers">> \in log[k].all)
    => DlqSpike
=============================================================================
