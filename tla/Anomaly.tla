------------------------------ MODULE Anomaly ------------------------------
(***************************************************************************)
(* scripts/anomaly-e2e.sh: two odd payments are inserted at the source, a  *)
(* bounded transformer of a group of its own reads all topics from the     *)
(* start next to the live one, and the script decides from counts in       *)
(* Cassandra and on the DLQ topic whether the pipeline has coped.          *)
(*                                                                         *)
(* The bounded run and the live transformer are those of Replay.  The log  *)
(* holds the events of the whole run; `sourced` says how many of them the  *)
(* sources have brought about by now.                                      *)
(***************************************************************************)
EXTENDS Replay, FiniteSets, Functions

CONSTANTS
    Payments,           \* the topic of the payments
    History,            \* per topic, the events from before the script
    Cleanup,            \* --cleanup
    AnomalyIds          \* payment ids that start with PAY-ANOM-

\* The last two events: a captured payment nobody can pay, and a pending one
\* without a date.  Between the history and these come the events of --cleanup.
Overpay == <<Payments, Len(Log[Payments]) - 2>>
Pending == <<Payments, Len(Log[Payments]) - 1>>

ASSUME AnomalyAssumption ==
    /\ ReplayTopics = Partitions /\ Payments \in Partitions
    /\ History \in [Partitions -> Nat]
    /\ \A p \in Partitions : History[p] <= Len(Log[p])
    /\ \A p \in Partitions \ {Payments} : History[p] = Len(Log[p])
    /\ History[Payments] <= Overpay[2]
    /\ ~Cleanup => History[Payments] = Overpay[2]
    /\ Pending \in Live!RowMessages /\ Live!At(Pending).id \in AnomalyIds
    \* The ids of a run end in a part of its own.
    /\ \A m \in Live!RowMessages : Live!At(m).id = Live!At(Pending).id => m = Pending
    /\ \A m \in Live!RowMessages : Live!At(m).id # Live!At(Overpay).id
    \* The amounts and the states in the two INSERTs.
    /\ Live!Verdict(Live!At(Overpay)) = "validation"
    /\ Live!At(Pending).status # "captured"
    /\ None \notin Nat

VARIABLES
    sourced,        \* per topic, the events brought about so far
    step,           \* what the script does next
    listed,         \* rows the cleanup is about to delete
    beforeDlq,      \* before_dlq; None when the count failed
    afterDlq,       \* after_dlq, likewise
    accepted,       \* accepted_payment_count
    bad,            \* bad_overpay_count
    exit,           \* the script's status
    misread         \* history: some count was not the true one

countVars == <<beforeDlq, afterDlq, accepted, bad, misread>>
scriptVars == <<sourced, step, listed, countVars, exit>>
harnessVars == <<vars, scriptVars>>

Steps == {"wait", "cleanup", "list", "delete", "before", "rejects", "insert", "consume",
          "after", "accepted", "bad", "judge", "gate", "done"}

AnomalyInit ==
    /\ Init
    /\ sourced = History
    /\ step = "wait" /\ listed = {}
    /\ beforeDlq = 0 /\ afterDlq = 0 /\ accepted = 0 /\ bad = 0
    /\ misread = FALSE
    /\ exit = None

-----------------------------------------------------------------------------

\* The live transformer reads what there is.
LiveTransformer ==
    /\ LiveStep
    /\ \A p \in Partitions : livePosition'[p] <= sourced[p]
    /\ UNCHANGED scriptVars

BoundedRun ==
    /\ Tick \/ JoinGroup \/ PollMessage \/ ProcessMessage \/ ReachLimit \/ GiveUp \/ Fail
    /\ UNCHANGED scriptVars

Goto(s) == step' = s /\ UNCHANGED exit

\* Mutant: a failed command is the end, with whatever status comes.
Dies_NoStatus == step' = "done" /\ UNCHANGED exit

\* exit 1, or a command that fails under set -e.
Dies == step' = "done" /\ exit' = 1

\* wait_http: both services answer before the deadline, or the script ends.
WaitHttp ==
    /\ step = "wait"
    /\ Goto(IF Cleanup THEN "cleanup" ELSE "before") \/ Dies
    /\ UNCHANGED <<vars, sourced, listed, countVars>>

\* Earlier anomalies are deleted at the source, which is a change to capture.
CleanSource ==
    /\ step = "cleanup"
    /\ \/ Goto("list") /\ sourced' = [sourced EXCEPT ![Payments] = Overpay[2]]
       \/ Dies /\ UNCHANGED sourced
    /\ UNCHANGED <<vars, listed, countVars>>

IsAnomaly(k) == table[k] # None /\ Live!At(table[k]).id \in AnomalyIds

\* cleanup_cassandra_anomaly_rows: rows are selected, then deleted by key.
ListAnomalies ==
    /\ step = "list"
    /\ \/ Goto("delete") /\ listed' = {k \in DOMAIN table : IsAnomaly(k)}
       \/ Dies /\ UNCHANGED listed
    /\ UNCHANGED <<vars, sourced, countVars>>

DeleteAnomalies ==
    /\ step = "delete"
    /\ \/ /\ Goto("before")
          /\ table' = [k \in DOMAIN table |-> IF k \in listed THEN None ELSE table[k]]
       \/ Dies /\ UNCHANGED table
    /\ UNCHANGED <<faults, groupVars, serviceVars, runVars, sourced, listed, countVars>>

\* Records on the DLQ topic, which both groups publish to.
DlqRecords == SumFunction(liveDlq) + SumFunction(dlq)

\* dlq_count: a consumer that gives up when nothing comes for five seconds and
\* may have seen only some records.  When it fails, awk's 0 and the 0 of
\* "|| printf" make two lines, which is no number.
Counted(n) == n \in 0 .. DlqRecords \cup {None}

CountBefore ==
    /\ step = "before"
    /\ Counted(beforeDlq')
    /\ misread' = (misread \/ beforeDlq' # DlqRecords)
    /\ Goto("rejects")
    /\ UNCHANGED <<vars, sourced, listed, afterDlq, accepted, bad>>

\* expect_failure, for eight statements.  One that a source takes, or that
\* finds no row to copy from and inserts nothing, ends the script.
ExpectRejects ==
    /\ step = "rejects"
    /\ Goto("insert") \/ Dies
    /\ UNCHANGED <<vars, sourced, listed, countVars>>

\* The two payments, each committed on its own.
InsertAnomaly ==
    /\ step = "insert"
    /\ \/ /\ sourced' = [sourced EXCEPT ![Payments] = @ + 1]
          /\ Goto(IF sourced'[Payments] = Len(Log[Payments]) THEN "consume" ELSE "insert")
       \/ Dies /\ UNCHANGED sourced
    /\ UNCHANGED <<vars, listed, countVars>>

StartConsumer == step = "consume" /\ Start /\ UNCHANGED scriptVars

ConsumerEnds ==
    /\ step = "consume" /\ outcome \in Outcomes
    /\ IF outcome = "failed" THEN Dies ELSE Goto("after")
    /\ UNCHANGED <<vars, sourced, listed, countVars>>

\* after_dlq and dlq_delta, which is not a number if one of the counts is not.
CountAfter ==
    /\ step = "after"
    /\ Counted(afterDlq')
    /\ misread' = (misread \/ afterDlq' # DlqRecords)
    /\ IF None \in {beforeDlq, afterDlq'} THEN Dies ELSE Goto("accepted")
    /\ UNCHANGED <<vars, sourced, listed, beforeDlq, accepted, bad>>

\* Mutant: the rows are told by their prefix, not by the id of this run.
Rows_AnyRun(m) ==
    Cardinality({k \in DOMAIN table : table[k] # None /\ Live!At(table[k]).id \in AnomalyIds})

\* The count of the facts with the id of one of the two payments.
Rows(m) ==
    LET id == Live!At(m).id
    IN  Cardinality({k \in DOMAIN table : table[k] # None /\ Live!At(table[k]).id = id})

\* cassandra_filtered_count: a query that fails counts nothing.
CountedRows(count, n) == count \in {n, 0}

CountAccepted ==
    /\ step = "accepted"
    /\ CountedRows(accepted', Rows(Pending))
    /\ misread' = (misread \/ accepted' # Rows(Pending))
    /\ Goto("bad")
    /\ UNCHANGED <<vars, sourced, listed, beforeDlq, afterDlq, bad>>

CountBad ==
    /\ step = "bad"
    /\ CountedRows(bad', Rows(Overpay))
    /\ misread' = (misread \/ bad' # Rows(Overpay))
    /\ Goto("judge")
    /\ UNCHANGED <<vars, sourced, listed, beforeDlq, afterDlq, accepted>>

\* Mutant: the accepted payment is not asked for.
CountsAgree_AnyAccepted == bad = 0 /\ afterDlq - beforeDlq >= 1

\* The pending payment once, no bad one, and a new record on the DLQ topic.
CountsAgree == accepted = 1 /\ bad = 0 /\ afterDlq - beforeDlq >= 1

Judge ==
    /\ step = "judge"
    /\ IF CountsAgree THEN Goto("gate") ELSE Dies
    /\ UNCHANGED <<vars, sourced, listed, countVars>>

\* The dashboard is asked for a snapshot, the quality gate judges it, and the
\* report is written.
Gate ==
    /\ step = "gate"
    /\ step' = "done" /\ exit' \in {0, 1}
    /\ UNCHANGED <<vars, sourced, listed, countVars>>

Script ==
    \/ WaitHttp \/ CleanSource \/ ListAnomalies \/ DeleteAnomalies \/ CountBefore
    \/ ExpectRejects \/ InsertAnomaly \/ StartConsumer \/ ConsumerEnds \/ CountAfter
    \/ CountAccepted \/ CountBad \/ Judge \/ Gate

AnomalyNext == LiveTransformer \/ BoundedRun \/ Script

AnomalySpec == AnomalyInit /\ [][AnomalyNext]_harnessVars

-----------------------------------------------------------------------------

\* Types; the counts are those of the steps passed.
AnomalyTypeOK ==
    /\ TypeOK
    /\ sourced \in [Partitions -> Nat] /\ \A p \in Partitions : sourced[p] <= Len(Log[p])
    /\ step \in Steps
    /\ listed \subseteq DOMAIN table
    /\ beforeDlq \in Nat \cup {None} /\ afterDlq \in Nat \cup {None}
    /\ accepted \in Nat /\ bad \in Nat
    /\ misread \in BOOLEAN
    /\ exit \in {None, 0, 1} /\ (exit # None <=> step = "done")

SettledByAny(m) == m \in Live!Settled \cup Service!Settled

\* When the script passes, the pending payment is served and the overpayment
\* has been dealt with by one of the two transformers, although the script has
\* no count that says so, whichever of its counts were wrong, and however the
\* bounded run ended.
PassMeansHandled ==
    exit = 0 => /\ Rows(Pending) = 1
                /\ SettledByAny(Overpay)

\* The counts are no reason to fail when every count was right, the bounded run
\* read everything, and nothing went wrong: the live transformer, wherever it
\* is, and DLQ records of both never raise a false alarm.
FailureHasCause ==
    step = "judge" /\ ~CountsAgree => misread \/ faults > 0 \/ ~Complete
=============================================================================
