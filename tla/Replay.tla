------------------------------- MODULE Replay -------------------------------
(***************************************************************************)
(* A replay (scripts/cdc-replay.sh, and the smoke run of demo-e2e.sh): a   *)
(* second transformer under a consumer group of its own reads the topics   *)
(* from the start, with run_until instead of run_forever, and writes the   *)
(* tables of the live transformer, which goes on meanwhile.                *)
(*                                                                         *)
(* Both are instances of Transformer with one worker each.  They share     *)
(* Cassandra and the fault budget; everything else is per group.           *)
(***************************************************************************)
EXTENDS Integers, Sequences

CONSTANTS
    Customers, Orders, Items, NoLine, Strict, Tolerance,    \* as in Transformer
    Partitions, Log, None, MetricsEnabled, FaultKinds, MaxFaults,
    ReplayTopics,       \* --topic or --all-active
    MaxMessages,        \* --max-messages
    IdleTimeout         \* --idle-timeout-seconds, in ticks of the clock

ASSUME ReplayAssumption ==
    /\ ReplayTopics \subseteq Partitions
    /\ MaxMessages \in Nat \ {0}
    /\ IdleTimeout \in Nat \ {0}

VARIABLES
    table, faults,      \* shared
    liveCommitted, liveOwner, livePosition, liveDlq, liveDlqLost, liveWritten,
    livePc, liveInflight, liveError, liveMemory, liveMetrics,
    committed, owner, position, dlq, dlqLost, written,      \* the replay's group
    pc, inflight, error, memory, metrics,
    processed,          \* messages processed by run_until
    idle,               \* ticks since idle_started_at, IdleTimeout at most
    outcome             \* "waiting" to be started, "running", or how it ended

groupVars ==
    <<liveCommitted, liveOwner, livePosition, liveDlq, liveDlqLost, liveWritten,
      livePc, liveInflight, liveError, liveMemory, liveMetrics>>
serviceVars ==
    <<committed, owner, position, dlq, dlqLost, written,
      pc, inflight, error, memory, metrics>>
runVars == <<processed, idle, outcome>>
vars == <<table, faults, groupVars, serviceVars, runVars>>

Live == INSTANCE Transformer WITH
    Workers <- {"live"}, committed <- liveCommitted, owner <- liveOwner,
    position <- livePosition, dlq <- liveDlq, dlqLost <- liveDlqLost,
    written <- liveWritten, pc <- livePc, inflight <- liveInflight,
    error <- liveError, memory <- liveMemory, metrics <- liveMetrics

Service == INSTANCE Transformer WITH Workers <- {"replay"}

\* Debezium keys the records of a topic by primary key: the versions of a
\* dimension row are on one partition, in their order.
ASSUME TopicsAssumption ==
    /\ \A p \in Partitions : Len(Log[p]) \in Nat
    /\ None \notin {"live", "replay"} \cup Live!Messages \cup Live!Errors
    /\ FaultKinds \subseteq Live!AllFaultKinds /\ MaxFaults \in Nat
    /\ MetricsEnabled \in BOOLEAN
    /\ Live!LogAssumption
    /\ \A m, n \in Live!RowMessages :
          Live!RowKey(Live!At(m)) = Live!RowKey(Live!At(n)) => m[1] = n[1]

Outcomes == {"idle", "limit", "failed"}

TypeOK ==
    /\ Live!TypeOK
    /\ committed \in [Partitions -> Nat]
    /\ pc["replay"] \in Service!Calls
    /\ processed \in 0 .. MaxMessages
    /\ idle \in 0 .. IdleTimeout
    /\ outcome \in {"waiting", "running"} \cup Outcomes
    /\ (outcome \in Outcomes) <=> (pc["replay"] = "down")
    \* No message is dealt with twice or beyond the limit, except after a
    \* rebalance of the group with its one member.
    /\ \A p \in Partitions : committed[p] <= processed
    /\ \A p \in Partitions \ ReplayTopics : committed[p] = 0

Init ==
    /\ Live!Init /\ Service!Init
    /\ processed = 0 /\ idle = 0 /\ outcome = "waiting"

-----------------------------------------------------------------------------

\* The live transformer, restarts and failures included.
LiveStep == Live!Next /\ UNCHANGED <<serviceVars, runVars>>

\* The keyspace was recreated: what the replay is there to repair.
RecreateKeyspace ==
    /\ outcome = "waiting"
    /\ table' = [k \in DOMAIN table |-> None]
    /\ UNCHANGED <<faults, groupVars, serviceVars, runVars>>

Start ==
    /\ outcome = "waiting"
    /\ outcome' = "running"
    /\ UNCHANGED <<table, faults, groupVars, serviceVars, processed, idle>>

\* The idle clock runs while the group is joined, and while a message is
\* processed: it is set back when a message arrives, not when it is done.
Tick ==
    /\ outcome = "running"
    /\ idle < IdleTimeout
    /\ idle' = idle + 1
    /\ UNCHANGED <<table, faults, groupVars, serviceVars, processed, outcome>>

\* The group is only assigned the topics it subscribes to.
JoinGroup ==
    /\ outcome = "running"
    /\ \E p \in ReplayTopics : Service!AssignOrphan(p, "replay") \/ Service!Rebalance(p, "replay")
    /\ UNCHANGED <<groupVars, runVars>>

MayPoll == processed < MaxMessages

\* poll returns a message.
PollMessage ==
    /\ outcome = "running" /\ MayPoll
    /\ Service!Poll("replay")
    /\ processed' = processed + 1
    /\ idle' = 0
    /\ UNCHANGED <<groupVars, outcome>>

\* The rest of process_message.
ProcessMessage ==
    /\ \/ Service!WriteSucceeds("replay") \/ Service!WriteRaises("replay")
       \/ Service!CommitSucceeds("replay") \/ Service!CommitRaises("replay")
       \/ Service!PublishDelivered("replay") \/ Service!PublishLost("replay")
       \/ Service!DlqCommitSucceeds("replay")
    /\ UNCHANGED <<groupVars, runVars>>

\* run_until returns and main with it; the process leaves the group.
Exit(how) ==
    /\ outcome = "running"
    /\ pc["replay"] = "poll"
    /\ Service!Dies("replay")
    /\ outcome' = how
    /\ UNCHANGED <<table, faults, groupVars, committed, position, dlq, dlqLost, written,
                   processed, idle>>

ReachLimit == processed >= MaxMessages /\ Exit("limit")

\* Mutant: an idle clock that has run out is not looked at.
IdleOut_Never == FALSE

IdleOut == idle >= IdleTimeout

\* poll returns None, which it also does while messages are on their way.
GiveUp == MayPoll /\ IdleOut /\ Exit("idle")

\* An exception leaves run_until and the script; nobody restarts it.
Fail ==
    /\ outcome = "running"
    /\ \/ Service!Crash("replay") \/ Service!PublishRaises("replay")
       \/ Service!DlqCommitRaises("replay")
    /\ outcome' = "failed"
    /\ UNCHANGED <<groupVars, processed, idle>>

Next ==
    \/ LiveStep
    \/ RecreateKeyspace \/ Start \/ Tick \/ JoinGroup
    \/ PollMessage \/ ProcessMessage \/ ReachLimit \/ GiveUp \/ Fail

Spec == Init /\ [][Next]_vars

\* The calls of process_message return, and so does poll, with or without a
\* message.  The operator starts the replay; the live transformer owes nothing.
Fairness ==
    /\ WF_vars(Start) /\ WF_vars(Tick) /\ WF_vars(ProcessMessage)
    /\ WF_vars(ReachLimit) /\ WF_vars(GiveUp)

FairSpec == Spec /\ Fairness

-----------------------------------------------------------------------------

\* Whatever its topics, brokers and failures do, a replay ends.
ReplayEnds == <>(outcome \in Outcomes)

\* The replay's group, too, has at-least-once delivery: the bounded loop, its
\* limit and its exits included, implements Delivery.
ReplayDelivers == Service!ImplementsDelivery

Complete == \A p \in ReplayTopics : committed[p] = Len(Log[p])

LiveQuiet ==
    /\ livePc["live"] = "poll"
    /\ \A p \in Partitions : liveCommitted[p] = Len(Log[p]) /\ livePosition[p] = Len(Log[p])

\* m was refused or its write failed, in either group, and the DLQ was told.
DeadLettered(m) ==
    \/ \E e \in {"validation", "write"} : liveDlq[<<m, e>>] > 0 \/ dlq[<<m, e>>] > 0
    \/ m \in liveDlqLost \cup dlqLost

\* Each row of the topics that were replayed is there in its last version, but
\* for what is left to the DLQ.
Rebuilt ==
    \A m \in Service!RowMessages : m[1] \in ReplayTopics =>
        LET row == table[Service!RowKey(Service!At(m))]
        IN  \/ row # None /\ row[2] >= m[2]
            \/ DeadLettered(m)

\* Once a replay has committed its topics to the end and the live transformer
\* has nothing left to read, every fact and the last version of every dimension
\* is there, however the two have raced, whatever was lost before and whichever
\* calls have failed.
CompleteReplayRebuilds == Complete /\ LiveQuiet /\ outcome \in Outcomes => Rebuilt
=============================================================================
