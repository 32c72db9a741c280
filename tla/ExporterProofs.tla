--------------------------- MODULE ExporterProofs ---------------------------
(***************************************************************************)
(* The alerts fire when they should and not without cause.                 *)
(***************************************************************************)
EXTENDS MCExporter, SequenceTheorems, Sums

\* Samples of a series: there, with the value.
Has(samples, metric, label) == <<metric, label>> \in DOMAIN samples
Says(samples, metric, label, value) ==
    Has(samples, metric, label) /\ samples[<<metric, label>>] = value

\* A sequence, of whatever it is of.
IsSequence(seq) == seq \in Seq(Range(seq))

TypeOK ==
    /\ health \in [Targets -> {"answers", "refuses", "hangs"}]
    /\ \A t \in Targets : health[t] = "hangs" => t \in Hanging
    /\ states \in [Connectors -> ConnectorStates]
    /\ dlq \in [Topics -> Nat]
    /\ quality \in {"pass", "warn", "fail"}
    /\ pc \in {"idle", "connect", "status", "jolokia", "transformer", "dashboard", "send"}
    /\ todo \subseteq DOMAIN ConnectorNames
    /\ todo # {} <=> pc = "status"
    /\ IsSequence(history) /\ IsSequence(log)
    /\ Len(history) = Len(log) /\ Len(log) <= Window

\* What the log entry of a scrape has to do with the world.
EntryOK(entry) ==
    /\ entry.from \in Nat /\ entry.to \in Nat /\ entry.from <= entry.to
    /\ entry.before \in Nat /\ entry.restarts \in Nat /\ entry.before <= entry.restarts

NowOK ==
    /\ EntryOK(now)
    /\ now.all \subseteq Conditions /\ Conditions \subseteq now.some
    /\ pc = "idle" => now.before = now.restarts /\ now.from = now.to

-----------------------------------------------------------------------------
\* What the samples of a scrape have to do with its entry.

\* No sample without a cause.
Causes(entry, samples) ==
    /\ Says(samples, "connect_up", "none", 0) =>
          entry.some \cap {<<"connect", "refuses">>, <<"connect", "hangs">>} # {}
    /\ Says(samples, "dashboard_up", "none", 0) =>
          entry.some \cap {<<"dashboard", "refuses">>, <<"dashboard", "hangs">>} # {}
    /\ \A c \in Connectors :
          /\ Says(samples, "connector_running", c, 0) => <<c, "STOPPED">> \in entry.some
          /\ Says(samples, "task_running", c, 0) => <<c, "TASK_FAILED">> \in entry.some
    /\ Says(samples, "overall_status", "fail", 1) => <<"quality", "fail">> \in entry.some

\* What lasts is told.
ConnectTold(entry, samples) ==
    <<"connect", "answers">> \notin entry.some => Says(samples, "connect_up", "none", 0)

ConnectorTold(entry, samples, c) ==
    /\ <<"connect", "answers">> \in entry.all
    /\ \A d \in Connectors : <<d, "REMOVED">> \notin entry.some
    => /\ <<c, "STOPPED">> \in entry.all => Says(samples, "connector_running", c, 0)
       /\ <<c, "TASK_FAILED">> \in entry.all => Says(samples, "task_running", c, 0)

DashboardTold(entry, samples) ==
    /\ <<"dashboard", "answers">> \notin entry.some => Says(samples, "dashboard_up", "none", 0)
    /\ <<"dashboard", "answers">> \in entry.all /\ <<"quality", "fail">> \in entry.all =>
          Says(samples, "overall_status", "fail", 1)

\* The counter as read, if the transformer has not restarted since the scrape began:
\* lost are the DLQ records that its restarts made it forget.
Level(entry, samples, restarts, lost) ==
    /\ <<"transformer", "answers">> \in entry.all
    /\ entry.before = restarts
    => /\ Has(samples, "quality_dlq", "none")
       /\ entry.from <= samples[<<"quality_dlq", "none">>] + lost
       /\ samples[<<"quality_dlq", "none">>] + lost <= entry.to

CountsNaturally(samples) ==
    Has(samples, "quality_dlq", "none") => samples[<<"quality_dlq", "none">>] \in Nat

Lost == now.to - Total

-----------------------------------------------------------------------------
\* The scrape in progress.

\* What is still to be asked has no sample yet: of two samples the first counts.
Unasked ==
    /\ pc = "connect" => ~Has(body, "connect_up", "none")
    /\ \A i \in DOMAIN ConnectorNames :
          pc = "connect" \/ i \in todo =>
              /\ ~Has(body, "connector_running", ConnectorNames[i])
              /\ ~Has(body, "task_running", ConnectorNames[i])
    /\ pc \in {"connect", "status", "jolokia", "transformer"} =>
          ~Has(body, "quality_dlq", "none")
    /\ pc \in {"connect", "status", "jolokia", "transformer", "dashboard"} =>
          ~Has(body, "dashboard_up", "none") /\ ~Has(body, "overall_status", "fail")

Asked ==
    /\ pc \notin {"idle", "connect"} =>
          /\ Has(body, "connect_up", "none")
          /\ ConnectTold(now, body)
          /\ \A i \in DOMAIN ConnectorNames \ todo : ConnectorTold(now, body, ConnectorNames[i])
    /\ pc = "status" => <<"connect", "answers">> \in now.some
    /\ pc \in {"dashboard", "send"} => Level(now, body, now.restarts, Lost)
    /\ pc = "send" => DashboardTold(now, body)

BodyOK ==
    /\ pc # "idle" => Causes(now, body) /\ CountsNaturally(body)
    /\ Unasked /\ Asked

\* Seconds are spent only on targets that hung, each once.
AskedBefore ==
    [connect |-> {}, status |-> {}, jolokia |-> {"connect"},
     transformer |-> {"connect", "jolokia"},
     dashboard |-> {"connect", "jolokia", "transformer"},
     send |-> Targets]

SpentOK ==
    /\ spent \in Nat
    /\ pc # "idle" => spent <= Cardinality(Hanging \cap AskedBefore[pc]) * CallTimeout

-----------------------------------------------------------------------------
\* The scrapes in history.

Complete(entry, samples) ==
    /\ ConnectTold(entry, samples) /\ DashboardTold(entry, samples)
    /\ \A c \in Connectors : ConnectorTold(entry, samples, c)

Sound(entry, samples, before, restarts, lost) ==
    /\ EntryOK(entry) /\ entry.restarts <= before
    /\ Causes(entry, samples) /\ CountsNaturally(samples)
    /\ NoScrapeIsLost => Complete(entry, samples) /\ Level(entry, samples, restarts, lost)

\* Of two scrapes between which DLQ records were counted, the second reads more.
ReadsMore(before, first, after, second) ==
    /\ before.to < after.from /\ before.before = after.restarts
    /\ <<"transformer", "answers">> \in before.all
    /\ <<"transformer", "answers">> \in after.all
    => /\ Has(first, "quality_dlq", "none") /\ Has(second, "quality_dlq", "none")
       /\ first[<<"quality_dlq", "none">>] < second[<<"quality_dlq", "none">>]

HistoryOK ==
    /\ \A i \in DOMAIN history : Sound(log[i], history[i], now.before, now.restarts, Lost)
    /\ NoScrapeIsLost => \A i, j \in DOMAIN history :
          i < j => ReadsMore(log[i], history[i], log[j], history[j])

ExporterOK == TypeOK /\ NowOK /\ BodyOK /\ SpentOK /\ HistoryOK

-----------------------------------------------------------------------------
(* Samples *)

LEMMA JoinedHas ==
    ASSUME NEW f, NEW g
    PROVE  /\ \A m, l : Has(f ++ g, m, l) <=> Has(f, m, l) \/ Has(g, m, l)
           /\ \A m, l, v : Says(f ++ g, m, l, v) <=>
                 Says(f, m, l, v) \/ (~Has(f, m, l) /\ Says(g, m, l, v))
           /\ \A m, l : Has(f, m, l) => (f ++ g)[<<m, l>>] = f[<<m, l>>]
           /\ \A m, l : ~Has(f, m, l) /\ Has(g, m, l) => (f ++ g)[<<m, l>>] = g[<<m, l>>]
BY DEF ++, Has, Says

LEMMA NothingHas ==
    \A m, l : ~Has(<<>>, m, l) /\ \A v : ~Says(<<>>, m, l, v)
BY DEF Has, Says

-----------------------------------------------------------------------------
(* Conditions and DLQ records *)

LEMMA ConditionsAre ==
    ASSUME TypeOK
    PROVE  /\ \A t \in Targets, h \in {"answers", "refuses", "hangs"} :
                <<t, h>> \in Conditions <=> health[t] = h
           /\ \A c \in Connectors, s \in ConnectorStates :
                <<c, s>> \in Conditions <=> states[c] = s
           /\ \A s \in {"pass", "warn", "fail"} : <<"quality", s>> \in Conditions <=> quality = s
<1> USE DEF TypeOK
<1>1. ASSUME NEW t \in Targets, NEW h \in {"answers", "refuses", "hangs"}
      PROVE  <<t, h>> \in Conditions <=> health[t] = h
  <2>1. health[t] = h => <<t, h>> \in Conditions
    BY DEF Conditions
  <2>2. ASSUME <<t, h>> \in Conditions PROVE health[t] = h
    BY <2>2 DEF Conditions, ConnectorStates
  <2>. QED  BY <2>1, <2>2
<1>2. ASSUME NEW c \in Connectors, NEW s \in ConnectorStates
      PROVE  <<c, s>> \in Conditions <=> states[c] = s
  <2>1. states[c] = s => <<c, s>> \in Conditions
    BY DEF Conditions
  <2>2. ASSUME <<c, s>> \in Conditions PROVE states[c] = s
    BY <2>2 DEF Conditions, ConnectorStates
  <2>. QED  BY <2>1, <2>2
<1>3. ASSUME NEW s \in {"pass", "warn", "fail"}
      PROVE  <<"quality", s>> \in Conditions <=> quality = s
  <2>1. ASSUME <<"quality", s>> \in Conditions PROVE quality = s
    BY <2>1 DEF Conditions, ConnectorStates
  <2>. QED  BY <2>1 DEF Conditions
<1>. QED  BY <1>1, <1>2, <1>3

LEMMA TotalIsNat ==
    ASSUME dlq \in [Topics -> Nat] PROVE Total \in Nat
<1> DEFINE zero == [t \in Topics |-> 0]
<1>1. IsFiniteSet(Topics)
  BY TopicsAssumption
<1>2. Total \in Int
  BY <1>1, SumType DEF Total
<1>3. SumFunctionOnSet(zero, Topics) <= Total
  BY <1>1, SumOfAtMost DEF Total
<1>4. SumFunctionOnSet(zero, Topics) = 0
  BY <1>1, SumOfZeros
<1>. HIDE DEF zero
<1>. QED  BY <1>2, <1>3, <1>4

LEMMA TotalMoves ==
    ASSUME dlq \in [Topics -> Nat]
    PROVE  /\ dlq' = dlq => Total' = Total
           /\ RecordDlq => Total' = Total + 1
           /\ TransformerRestarts => Total' = 0
<1>1. dlq' = dlq => Total' = Total
  BY DEF Total
<1>2. ASSUME RecordDlq PROVE Total' = Total + 1
  <2>1. PICK t \in Topics : dlq' = [dlq EXCEPT ![t] = @ + 1]
    BY <1>2 DEF RecordDlq
  <2>2. /\ \A u \in Topics : dlq[u] \in Int
        /\ dlq'[t] = dlq[t] + 1 /\ dlq'[t] \in Int
        /\ \A u \in Topics \ {t} : dlq'[u] = dlq[u]
    BY <2>1
  <2>3. SumFunctionOnSet(dlq', Topics) = SumFunctionOnSet(dlq, Topics) + dlq'[t] - dlq[t]
    BY <2>2, TopicsAssumption, SumOfChange
  <2>4. Total \in Nat
    BY TotalIsNat
  <2>. QED  BY <2>2, <2>3, <2>4 DEF Total
<1>3. ASSUME TransformerRestarts PROVE Total' = 0
  BY <1>3, TopicsAssumption, SumOfZeros DEF TransformerRestarts, Total
<1>. QED  BY <1>1, <1>2, <1>3

-----------------------------------------------------------------------------
(* The window *)

LEMMA SequencesAre ==
    ASSUME NEW S, NEW seq \in Seq(S) PROVE IsSequence(seq)
<1>1. Len(seq) \in Nat /\ seq \in [1 .. Len(seq) -> S] /\ DOMAIN seq = 1 .. Len(seq)
  OBVIOUS
<1>2. seq \in [1 .. Len(seq) -> Range(seq)]
  BY <1>1 DEF Range
<1>. QED  BY <1>1, <1>2, SeqDef DEF IsSequence

LEMMA Remembered ==
    ASSUME NEW seq, IsSequence(seq), Len(seq) <= Window, NEW entry
    PROVE  LET new == Remember(seq, entry)
               gone == IF Len(seq) < Window THEN 0 ELSE 1
           IN  /\ IsSequence(new) /\ Len(new) <= Window
               /\ Len(new) = Len(seq) + 1 - gone
               /\ new[Len(new)] = entry
               /\ \A i \in 1 .. Len(new) - 1 :
                     i + gone \in 1 .. Len(seq) /\ new[i] = seq[i + gone]
<1> DEFINE S == Range(seq) \cup {entry}
           new == Remember(seq, entry)
           gone == IF Len(seq) < Window THEN 0 ELSE 1
<1>1. Window \in Nat \ {0}
  BY ExporterAssumption DEF ExporterAssumption
<1>2. seq \in Seq(S) /\ entry \in S
  <2>1. seq \in Seq(Range(seq))
    BY DEF IsSequence
  <2>. HIDE DEF S
  <2>2. Range(seq) \subseteq S /\ entry \in S
    BY DEF S
  <2>. QED  BY <2>1, <2>2
<1>. HIDE DEF S
<1>3. CASE Len(seq) < Window
  <2>1. new = Append(seq, entry)
    BY <1>3 DEF Remember
  <2>2. new \in Seq(S) /\ Len(new) = Len(seq) + 1 /\ new[Len(seq) + 1] = entry
        /\ \A i \in 1 .. Len(seq) : new[i] = seq[i]
    BY <1>2, <2>1
  <2>3. IsSequence(new)
    BY <2>2, SequencesAre
  <2>. HIDE DEF new
  <2>4. Len(seq) \in Nat
    BY <1>2
  <2>. QED  BY <1>1, <1>3, <2>2, <2>3, <2>4 DEF new
<1>4. CASE ~(Len(seq) < Window)
  <2>1. new = Append(Tail(seq), entry)
    BY <1>4 DEF Remember
  <2>2. Len(seq) \in Nat /\ seq # <<>>
    BY <1>1, <1>2, <1>4
  <2>3. Tail(seq) \in Seq(S) /\ Len(Tail(seq)) = Len(seq) - 1
        /\ \A i \in 1 .. Len(seq) - 1 : Tail(seq)[i] = seq[i + 1]
    BY <1>2, <2>2
  <2>4. new \in Seq(S) /\ Len(new) = Len(seq) /\ new[Len(seq)] = entry
        /\ \A i \in 1 .. Len(seq) - 1 : new[i] = seq[i + 1]
    BY <1>2, <2>1, <2>2, <2>3
  <2>5. IsSequence(new)
    BY <2>4, SequencesAre
  <2>. HIDE DEF new
  <2>. QED  BY <1>1, <1>4, <2>2, <2>4, <2>5 DEF new
<1>. QED  BY <1>3, <1>4

-----------------------------------------------------------------------------
(* What a step does to the entry of the scrape in progress *)

\* The entry of a scrape that goes on: less lasts, more has been.
Grows(entry, later) ==
    /\ later.all \subseteq entry.all /\ entry.some \subseteq later.some
    /\ later.from = entry.from /\ later.before = entry.before
    /\ entry.to <= later.to /\ entry.restarts <= later.restarts

\* Either the transformer keeps its counter or it forgets it in a restart.
RestartsTold ==
    /\ now.restarts \in Nat /\ Lost \in Int
    /\ \/ now'.restarts = now.restarts /\ Lost' = Lost
       \/ now'.restarts = now.restarts + 1 /\ Lost' \in Int

LEMMA TypesStay ==
    ASSUME TypeOK, Next, log' = IF pc = "send" /\ pc' = "idle" THEN Remember(log, now) ELSE log
    PROVE  TypeOK'
<1> USE DEF TypeOK
<1>1. ASSUME history' = history, log' = log
      PROVE  (/\ IsSequence(history) /\ IsSequence(log)
              /\ Len(history) = Len(log) /\ Len(log) <= Window)'
  BY <1>1
<1>2. CASE HealthChanges
  <2>1. \A t \in Targets : Health(t) \subseteq {"answers", "refuses", "hangs"}
          /\ ("hangs" \in Health(t) => t \in Hanging)
    BY DEF Health
  <2>2. history' = history /\ log' = log
    BY <1>2 DEF HealthChanges, exporterVars
  <2>. QED  BY <1>1, <1>2, <2>1, <2>2 DEF HealthChanges, exporterVars
<1>3. CASE ConnectorChanges
  <2>1. history' = history /\ log' = log
    BY <1>3 DEF ConnectorChanges, exporterVars
  <2>. QED  BY <1>1, <1>3, <2>1 DEF ConnectorChanges, exporterVars
<1>4. CASE RecordDlq
  <2>1. history' = history /\ log' = log
    BY <1>4 DEF RecordDlq, exporterVars
  <2>. QED  BY <1>1, <1>4, <2>1 DEF RecordDlq, exporterVars
<1>5. CASE TransformerRestarts
  <2>1. history' = history /\ log' = log
    BY <1>5 DEF TransformerRestarts, exporterVars
  <2>. QED  BY <1>1, <1>5, <2>1 DEF TransformerRestarts, exporterVars
<1>6. CASE QualityChanges
  <2>1. history' = history /\ log' = log
    BY <1>6 DEF QualityChanges, exporterVars
  <2>. QED  BY <1>1, <1>6, <2>1 DEF QualityChanges, exporterVars
<1>7. CASE Scrape
  <2>1. history' = history /\ log' = log
    BY <1>7 DEF Scrape
  <2>. QED  BY <1>1, <1>7, <2>1 DEF Scrape, world
<1>8. CASE AskConnectors
  <2>1. history' = history /\ log' = log
    BY <1>8 DEF AskConnectors, Called
  <2>2. todo' \subseteq DOMAIN ConnectorNames
    BY <1>8 DEF AskConnectors, Listed
  <2>. QED  BY <1>1, <1>8, <2>1, <2>2 DEF AskConnectors, Called, Touring, world
<1>9. CASE AskStatus
  <2>1. history' = history /\ log' = log
    BY <1>9 DEF AskStatus, Called
  <2>. QED  BY <1>1, <1>9, <2>1 DEF AskStatus, Called, Touring, world
<1>10. CASE AskJolokia
  <2>1. history' = history /\ log' = log
    BY <1>10 DEF AskJolokia, Called
  <2>2. todo = {}
    BY <1>10 DEF AskJolokia
  <2>. QED  BY <1>1, <1>10, <2>1, <2>2 DEF AskJolokia, Called, world
<1>11. CASE AskTransformer
  <2>1. history' = history /\ log' = log
    BY <1>11 DEF AskTransformer, Called
  <2>. QED  BY <1>1, <1>11, <2>1 DEF AskTransformer, Called, world
<1>12. CASE AskDashboard
  <2>1. history' = history /\ log' = log
    BY <1>12 DEF AskDashboard, Called
  <2>. QED  BY <1>1, <1>12, <2>1 DEF AskDashboard, Called, world
<1>13. CASE Send
  <2>1. history' = Remember(history, Ingested) /\ log' = Remember(log, now)
    BY <1>13 DEF Send
  <2>2. IsSequence(history') /\ IsSequence(log') /\ Len(history') = Len(log') /\ Len(log') <= Window
    BY <2>1, Remembered
  <2>. QED  BY <1>13, <2>2 DEF Send, world
<1>. QED  BY <1>2, <1>3, <1>4, <1>5, <1>6, <1>7, <1>8, <1>9, <1>10, <1>11, <1>12, <1>13 DEF Next

LEMMA CountsMove ==
    ASSUME TypeOK, NowOK, MCNext
    PROVE  /\ now'.to \in Nat /\ now'.restarts \in Nat
           /\ now.to <= now'.to /\ now.restarts <= now'.restarts
           /\ RestartsTold
<1>1. Total \in Nat /\ now.to \in Nat /\ now.restarts \in Nat
  BY TotalIsNat DEF TypeOK, NowOK, EntryOK
<1>2. now'.to = now.to + Recorded /\ now'.restarts = now.restarts + Restarted
  BY DEF MCNext
<1>3. Total' = Total \/ Total' = Total + 1 \/ Total' = 0
  BY TotalMoves DEF TypeOK, MCNext, Next, HealthChanges, ConnectorChanges, QualityChanges,
     exporterVars, Scrape, AskConnectors, AskStatus, AskJolokia, AskTransformer, AskDashboard,
     Send, Called, world
<1>. QED  BY <1>1, <1>2, <1>3 DEF Recorded, Restarted, RestartsTold, Lost

LEMMA NowMoves ==
    ASSUME TypeOK, NowOK, MCNext
    PROVE  /\ NowOK'
           /\ pc # "idle" /\ pc' # "idle" => Grows(now, now')
<1>1. /\ now'.all = IF pc' = "idle" \/ pc = "idle" THEN Conditions' ELSE now.all \cap Conditions'
      /\ now'.some = IF pc' = "idle" \/ pc = "idle" THEN Conditions' ELSE now.some \cup Conditions'
      /\ now'.from = IF pc' = "idle" THEN now.to + Recorded ELSE now.from
      /\ now'.to = now.to + Recorded
      /\ now'.before = IF pc' = "idle" THEN now.restarts + Restarted ELSE now.before
      /\ now'.restarts = now.restarts + Restarted
  BY DEF MCNext
<1>2. /\ now'.to \in Nat /\ now'.restarts \in Nat
      /\ now.to <= now'.to /\ now.restarts <= now'.restarts
  BY CountsMove
<1>3. EntryOK(now')
  BY <1>1, <1>2 DEF NowOK, EntryOK
<1>4. now'.all \subseteq Conditions' /\ Conditions' \subseteq now'.some
  BY <1>1
<1>5. pc' = "idle" => now'.before = now'.restarts /\ now'.from = now'.to
  BY <1>1
<1>6. pc # "idle" /\ pc' # "idle" => Grows(now, now')
  BY <1>1, <1>2 DEF Grows
<1>. QED  BY <1>3, <1>4, <1>5, <1>6 DEF NowOK, EntryOK

-----------------------------------------------------------------------------
(* What is said of a scrape stays said as it goes on *)

LEMMA CausesStay ==
    ASSUME NEW entry, NEW later, NEW samples, Grows(entry, later), Causes(entry, samples)
    PROVE  Causes(later, samples)
BY DEF Grows, Causes

LEMMA ToldStays ==
    ASSUME NEW entry, NEW later, NEW samples, Grows(entry, later)
    PROVE  /\ ConnectTold(entry, samples) => ConnectTold(later, samples)
           /\ DashboardTold(entry, samples) => DashboardTold(later, samples)
           /\ \A c : ConnectorTold(entry, samples, c) => ConnectorTold(later, samples, c)
BY DEF Grows, ConnectTold, DashboardTold, ConnectorTold

LEMMA LevelStays ==
    ASSUME NEW entry, NEW samples, entry.before \in Nat, entry.before <= now.restarts,
           RestartsTold, Level(entry, samples, now.restarts, Lost)
    PROVE  Level(entry, samples, now'.restarts, Lost')
<1>1. CASE now'.restarts = now.restarts /\ Lost' = Lost
  BY <1>1
<1>2. CASE now'.restarts = now.restarts + 1
  <2>1. entry.before # now'.restarts
    BY <1>2 DEF RestartsTold
  <2>. QED  BY <2>1 DEF Level
<1>. QED  BY <1>1, <1>2 DEF RestartsTold

LEMMA LevelGrows ==
    ASSUME NEW entry, NEW later, NEW samples, NEW restarts, NEW lost \in Int,
           Grows(entry, later), EntryOK(entry), EntryOK(later), CountsNaturally(samples),
           Level(entry, samples, restarts, lost)
    PROVE  Level(later, samples, restarts, lost)
<1>1. SUFFICES ASSUME <<"transformer", "answers">> \in later.all, later.before = restarts
               PROVE  /\ Has(samples, "quality_dlq", "none")
                      /\ later.from <= samples[<<"quality_dlq", "none">>] + lost
                      /\ samples[<<"quality_dlq", "none">>] + lost <= later.to
  BY DEF Level
<1> DEFINE v == samples[<<"quality_dlq", "none">>]
<1>2. Has(samples, "quality_dlq", "none") /\ entry.from <= v + lost /\ v + lost <= entry.to
  BY <1>1 DEF Grows, Level
<1>3. v \in Nat
  BY <1>2 DEF CountsNaturally
<1>4. entry.to \in Int /\ later.to \in Int /\ entry.to <= later.to /\ later.from = entry.from
  BY DEF Grows, EntryOK
<1>5. v + lost \in Int /\ v + lost <= entry.to
  BY <1>2, <1>3
<1>6. v + lost <= later.to
  BY <1>4, <1>5
<1>. QED  BY <1>2, <1>4, <1>6

-----------------------------------------------------------------------------
(* The scrape in progress *)

\* What the world does leaves what has been collected true.
LEMMA WorldStep ==
    ASSUME TypeOK, NowOK, BodyOK, MCNext, pc' = pc, todo' = todo, body' = body
    PROVE  BodyOK'
<1>1. Unasked'
  BY DEF BodyOK, Unasked
<1>2. CASE pc = "idle"
  BY <1>1, <1>2 DEF BodyOK, Asked
<1>3. CASE pc # "idle"
  <2>1. Grows(now, now') /\ EntryOK(now) /\ EntryOK(now') /\ RestartsTold
    BY <1>3, NowMoves, CountsMove DEF NowOK
  <2>2. Causes(now', body) /\ CountsNaturally(body)
    BY <1>3, <2>1, CausesStay DEF BodyOK
  <2>3. ASSUME pc \in {"dashboard", "send"} PROVE Level(now', body, now'.restarts, Lost')
    <3>1. Level(now, body, now'.restarts, Lost')
      BY <2>1, <2>3, LevelStays DEF BodyOK, Asked, EntryOK
    <3>2. Lost' \in Int
      BY <2>1 DEF RestartsTold
    <3>. QED  BY <2>1, <2>2, <3>1, <3>2, LevelGrows
  <2>4. ASSUME pc \notin {"idle", "connect"}
        PROVE  /\ Has(body, "connect_up", "none") /\ ConnectTold(now', body)
               /\ \A i \in DOMAIN ConnectorNames \ todo :
                     ConnectorTold(now', body, ConnectorNames[i])
    BY <2>1, <2>4, ToldStays DEF BodyOK, Asked
  <2>5. pc = "send" => DashboardTold(now', body)
    BY <2>1, ToldStays DEF BodyOK, Asked
  <2>6. pc = "status" => <<"connect", "answers">> \in now'.some
    BY <2>1 DEF BodyOK, Asked, Grows
  <2>7. Asked'
    BY <2>3, <2>4, <2>5, <2>6 DEF Asked
  <2>. QED  BY <1>1, <2>2, <2>7 DEF BodyOK
<1>. QED  BY <1>2, <1>3

LEMMA JoinedTold ==
    ASSUME NEW entry, NEW f, NEW g
    PROVE  /\ Causes(entry, f) /\ Causes(entry, g) => Causes(entry, f ++ g)
           /\ CountsNaturally(f) /\ CountsNaturally(g) => CountsNaturally(f ++ g)
           /\ ConnectTold(entry, f) => ConnectTold(entry, f ++ g)
           /\ DashboardTold(entry, f) => DashboardTold(entry, f ++ g)
           /\ \A c : ConnectorTold(entry, f, c) => ConnectorTold(entry, f ++ g, c)
           /\ \A restarts, lost :
                 Level(entry, f, restarts, lost) => Level(entry, f ++ g, restarts, lost)
<1>1. Causes(entry, f) /\ Causes(entry, g) => Causes(entry, f ++ g)
  BY JoinedHas DEF Causes
<1>2. CountsNaturally(f) /\ CountsNaturally(g) => CountsNaturally(f ++ g)
  BY JoinedHas DEF CountsNaturally
<1>3. ConnectTold(entry, f) => ConnectTold(entry, f ++ g)
  BY JoinedHas DEF ConnectTold
<1>4. DashboardTold(entry, f) => DashboardTold(entry, f ++ g)
  BY JoinedHas DEF DashboardTold
<1>5. \A c : ConnectorTold(entry, f, c) => ConnectorTold(entry, f ++ g, c)
  BY JoinedHas DEF ConnectorTold
<1>6. \A restarts, lost :
         Level(entry, f, restarts, lost) => Level(entry, f ++ g, restarts, lost)
  BY JoinedHas DEF Level
<1>. QED  BY <1>1, <1>2, <1>3, <1>4, <1>5, <1>6

\* A call is made: the world stands still.
LEMMA CallMoves ==
    ASSUME TypeOK, NowOK, MCNext, UNCHANGED world, pc # "idle", pc' # "idle"
    PROVE  /\ Grows(now, now') /\ EntryOK(now')
           /\ now'.all \subseteq Conditions /\ Conditions \subseteq now'.some
           /\ now'.restarts = now.restarts /\ now'.to = now.to /\ Lost' = Lost
           /\ Lost \in Int /\ Total \in Nat
<1>1. Conditions' = Conditions
  BY DEF world, Conditions
<1>2. NowOK' /\ Grows(now, now')
  BY NowMoves
<1>3. Total' = Total /\ Total \in Nat /\ now.to \in Nat /\ now.restarts \in Nat
  BY TotalIsNat, TotalMoves DEF TypeOK, world, NowOK, EntryOK
<1>4. now'.to = now.to /\ now'.restarts = now.restarts
  BY <1>3 DEF MCNext, Recorded, Restarted
<1>. QED  BY <1>1, <1>2, <1>3, <1>4 DEF NowOK, Lost

\* What a call collects is added to what is told already.  That Connect is down, said
\* after it was said to be up, counts for nothing.
LEMMA BodyGrows ==
    ASSUME TypeOK, NowOK, BodyOK, MCNext, UNCHANGED world, pc # "idle", pc' # "idle",
           NEW samples, body' = body ++ samples,
           CountsNaturally(samples),
           \/ Causes(now', samples)
           \/ samples = Sample("connect_up", "none", 0) /\ Has(body, "connect_up", "none")
    PROVE  /\ Causes(now', body') /\ CountsNaturally(body')
           /\ ConnectTold(now, body) => ConnectTold(now', body')
           /\ DashboardTold(now, body) => DashboardTold(now', body')
           /\ \A c : ConnectorTold(now, body, c) => ConnectorTold(now', body', c)
           /\ Level(now, body, now.restarts, Lost) => Level(now', body', now'.restarts, Lost')
           /\ \A m, l : Has(body', m, l) <=> Has(body, m, l) \/ Has(samples, m, l)
<1>1. /\ Grows(now, now') /\ EntryOK(now') /\ EntryOK(now)
      /\ now'.restarts = now.restarts /\ Lost' = Lost /\ Lost \in Int
  BY CallMoves DEF NowOK
<1>2. Causes(now', body) /\ CountsNaturally(body)
  BY <1>1, CausesStay DEF BodyOK
<1>3. /\ ConnectTold(now, body) => ConnectTold(now', body)
      /\ DashboardTold(now, body) => DashboardTold(now', body)
      /\ \A c : ConnectorTold(now, body, c) => ConnectorTold(now', body, c)
  BY <1>1, ToldStays
<1>4. Level(now, body, now.restarts, Lost) => Level(now', body, now'.restarts, Lost')
  BY <1>1, <1>2, LevelGrows
<1>5. Causes(now', body')
  <2>1. CASE Causes(now', samples)
    BY <1>2, <2>1, JoinedTold
  <2>2. CASE samples = Sample("connect_up", "none", 0) /\ Has(body, "connect_up", "none")
    <3>1. \A m, l, v : Says(samples, m, l, v) => m = "connect_up" /\ l = "none"
      BY <2>2 DEF Sample, Has, Says
    <3>2. \A m, l, v : Says(body', m, l, v) => Says(body, m, l, v)
      BY <2>2, <3>1, JoinedHas
    <3>. QED  BY <1>2, <3>2 DEF Causes
  <2>. QED  BY <2>1, <2>2
<1>. QED  BY <1>2, <1>3, <1>4, <1>5, JoinedTold, JoinedHas

LEMMA ScrapeStep ==
    ASSUME TypeOK, BodyOK, Scrape PROVE BodyOK'
<1>1. body' = Sample("exporter_up", "none", 1) /\ pc' = "connect"
  BY DEF Scrape
<1>2. \A m, l : m # "exporter_up" => ~Has(body', m, l) /\ \A v : ~Says(body', m, l, v)
  BY <1>1 DEF Sample, Has, Says
<1>3. Causes(now', body') /\ CountsNaturally(body')
  BY <1>2 DEF Causes, CountsNaturally
<1>4. Unasked'
  BY <1>2 DEF Unasked
<1>5. Asked'
  BY <1>1 DEF Asked
<1>. QED  BY <1>3, <1>4, <1>5 DEF BodyOK

LEMMA AnswersAsNoted ==
    ASSUME TypeOK, NEW entry, entry.all \subseteq Conditions, Conditions \subseteq entry.some,
           NEW t \in Targets
    PROVE  /\ <<t, "answers">> \in entry.all => Answers(t)
           /\ <<t, "answers">> \notin entry.some => ~Answers(t)
           /\ ~Answers(t) => entry.some \cap {<<t, "refuses">>, <<t, "hangs">>} # {}
BY ConditionsAre DEF TypeOK, Answers

LEMMA AskConnectorsStep ==
    ASSUME TypeOK, NowOK, BodyOK, MCNext, AskConnectors PROVE BodyOK'
<1> DEFINE up == Bit(Answers("connect"))
           samples == Sample("connect_up", "none", up)
<1>1. /\ pc = "connect" /\ body' = body ++ samples /\ UNCHANGED world
      /\ todo' = (IF Answers("connect") THEN Listed ELSE {})
      /\ pc' \in {"jolokia", "status"} /\ (pc' = "status" <=> todo' # {})
  BY DEF AskConnectors, Called, Touring
<1>. HIDE DEF up
<1>2. now'.all \subseteq Conditions /\ Conditions \subseteq now'.some
  BY <1>1, CallMoves
<1>3. /\ \A m, l : Has(samples, m, l) <=> m = "connect_up" /\ l = "none"
      /\ \A m, l, v : Says(samples, m, l, v) <=>
            m = "connect_up" /\ l = "none" /\ v = up
  BY DEF Sample, Has, Says
<1>4. "connect" \in Targets
  BY DEF Targets
<1>5. Causes(now', samples) /\ CountsNaturally(samples)
  <2>1. up = 0 => now'.some \cap {<<"connect", "refuses">>, <<"connect", "hangs">>} # {}
    <3>1. up = 0 => ~Answers("connect")
      BY DEF up, Bit
    <3>2. ~Answers("connect") =>
            now'.some \cap {<<"connect", "refuses">>, <<"connect", "hangs">>} # {}
      BY <1>2, <1>4, AnswersAsNoted
    <3>. QED  BY <3>1, <3>2
  <2>. QED  BY <1>3, <2>1 DEF Causes, CountsNaturally
<1>. HIDE DEF samples
<1>6. /\ Causes(now', body') /\ CountsNaturally(body')
      /\ \A m, l : Has(body', m, l) <=> Has(body, m, l) \/ Has(samples, m, l)
  BY <1>1, <1>5, BodyGrows
<1>7. Unasked'
  BY <1>1, <1>3, <1>6 DEF BodyOK, Unasked
<1>8. Says(body', "connect_up", "none", up)
  BY <1>1, <1>3, JoinedHas DEF BodyOK, Unasked
<1>9. Has(body', "connect_up", "none") /\ ConnectTold(now', body')
  BY <1>2, <1>4, <1>8, AnswersAsNoted DEF ConnectTold, Bit, Says, up
<1>10. ASSUME NEW i \in DOMAIN ConnectorNames \ todo'
       PROVE  ConnectorTold(now', body', ConnectorNames[i])
  <2>1. CASE ~Answers("connect")
    BY <1>2, <1>4, <2>1, AnswersAsNoted DEF ConnectorTold
  <2>2. CASE Answers("connect")
    <3>1. ConnectorNames[i] \in Connectors /\ states[ConnectorNames[i]] = "REMOVED"
      BY <1>1, <1>10, <2>2 DEF Listed, Connectors
    <3>2. <<ConnectorNames[i], "REMOVED">> \in now'.some
      BY <1>2, <3>1, ConditionsAre DEF ConnectorStates
    <3>. QED  BY <3>1, <3>2 DEF ConnectorTold
  <2>. QED  BY <2>1, <2>2
<1>11. pc' = "status" => <<"connect", "answers">> \in now'.some
  BY <1>1, <1>2, <1>4, AnswersAsNoted
<1>12. Asked'
  BY <1>1, <1>9, <1>10, <1>11 DEF Asked
<1>. QED  BY <1>6, <1>7, <1>12 DEF BodyOK

LEMMA ConnectorPlaces ==
    /\ IsFiniteSet(DOMAIN ConnectorNames) /\ DOMAIN ConnectorNames \subseteq Int
    /\ \A i, j \in DOMAIN ConnectorNames : ConnectorNames[i] = ConnectorNames[j] => i = j
    /\ \A i \in DOMAIN ConnectorNames : ConnectorNames[i] \in Connectors
    /\ \A c \in Connectors : \E i \in DOMAIN ConnectorNames : c = ConnectorNames[i]
<1>1. ConnectorNames \in Seq(Range(ConnectorNames)) /\ IsInjective(ConnectorNames)
  BY ExporterAssumption DEF ExporterAssumption
<1>2. DOMAIN ConnectorNames = 1 .. Len(ConnectorNames) /\ Len(ConnectorNames) \in Nat
  BY <1>1
<1>3. IsFiniteSet(DOMAIN ConnectorNames) /\ DOMAIN ConnectorNames \subseteq Int
  BY <1>2, FS_Interval
<1>. QED  BY <1>1, <1>3 DEF IsInjective, Connectors

LEMMA StatusSamples ==
    ASSUME TypeOK, NEW c \in Connectors, states[c] # "REMOVED"
    PROVE  LET samples == ConnectorMetrics(c) IN
           /\ \A m, l : Has(samples, m, l) => m \in {"connector_running", "task_running"} /\ l = c
           /\ Says(samples, "connector_running", c, 0) <=> states[c] = "STOPPED"
           /\ Says(samples, "task_running", c, 0) <=> states[c] = "TASK_FAILED"
<1> DEFINE runs == Bit(states[c] \in {"RUNNING", "TASK_FAILED"})
           task == Bit(states[c] = "RUNNING")
           first == Sample("connector_running", c, runs)
           second == IF states[c] = "STOPPED" THEN <<>> ELSE Sample("task_running", c, task)
<1>1. ConnectorMetrics(c) = first ++ second
  BY DEF ConnectorMetrics
<1>2. states[c] \in {"RUNNING", "TASK_FAILED", "STOPPED"}
  BY DEF TypeOK, ConnectorStates
<1>3. /\ runs = 0 <=> states[c] = "STOPPED"
      /\ states[c] # "STOPPED" => (task = 0 <=> states[c] = "TASK_FAILED")
  BY <1>2 DEF Bit
<1>. HIDE DEF runs, task
<1>4. /\ \A m, l : Has(first, m, l) <=> m = "connector_running" /\ l = c
      /\ \A m, l, v : Says(first, m, l, v) <=> m = "connector_running" /\ l = c /\ v = runs
  BY DEF Sample, Has, Says
<1>5. /\ \A m, l : Has(second, m, l) <=> m = "task_running" /\ l = c /\ states[c] # "STOPPED"
      /\ \A m, l, v : Says(second, m, l, v) <=>
            m = "task_running" /\ l = c /\ states[c] # "STOPPED" /\ v = task
  BY DEF Sample, Has, Says
<1>. HIDE DEF first, second
<1>. QED  BY <1>1, <1>3, <1>4, <1>5, JoinedHas

LEMMA AskStatusStep ==
    ASSUME TypeOK, NowOK, BodyOK, MCNext, AskStatus PROVE BodyOK'
<1> DEFINE i == Min(todo)
           c == ConnectorNames[i]
           known == Answers("connect") /\ states[c] # "REMOVED"
           samples == IF known THEN ConnectorMetrics(c) ELSE Sample("connect_up", "none", 0)
<1>1. /\ pc = "status" /\ body' = body ++ samples /\ UNCHANGED world
      /\ todo' = (IF known THEN todo \ {i} ELSE {})
      /\ pc' \in {"jolokia", "status"} /\ (pc' = "status" <=> todo' # {})
  BY DEF AskStatus, Called, Touring
<1>2. i \in todo
  <2>1. IsFiniteSet(todo) /\ todo \subseteq Int /\ todo # {}
    BY <1>1, ConnectorPlaces, FS_Subset DEF TypeOK
  <2>. QED  BY <2>1, MinIsIn
<1>. HIDE DEF i
<1>3. i \in DOMAIN ConnectorNames /\ c \in Connectors
  BY <1>2, ConnectorPlaces DEF TypeOK
<1>4. now'.all \subseteq Conditions /\ Conditions \subseteq now'.some
  BY <1>1, CallMoves
<1>5. "connect" \in Targets
  BY DEF Targets
<1>6. ASSUME ~known
      PROVE  /\ samples = Sample("connect_up", "none", 0)
             /\ \A m, l : Has(samples, m, l) <=> m = "connect_up" /\ l = "none"
             /\ \A m, l, v : Says(samples, m, l, v) => m = "connect_up" /\ l = "none"
  BY <1>6 DEF Sample, Has, Says
<1>. HIDE DEF c
<1>7. ASSUME known
      PROVE  /\ \A m, l : Has(samples, m, l) =>
                   m \in {"connector_running", "task_running"} /\ l = c
             /\ Says(samples, "connector_running", c, 0) <=> states[c] = "STOPPED"
             /\ Says(samples, "task_running", c, 0) <=> states[c] = "TASK_FAILED"
  BY <1>3, <1>7, StatusSamples
<1>. HIDE DEF samples
<1>8. \A m, l, v : Says(samples, m, l, v) => Has(samples, m, l)
  BY DEF Says
<1>9. CountsNaturally(samples)
  BY <1>6, <1>7 DEF CountsNaturally
<1>10. \/ Causes(now', samples)
       \/ samples = Sample("connect_up", "none", 0) /\ Has(body, "connect_up", "none")
  <2>1. CASE known
    <3>1. /\ states[c] = "STOPPED" => <<c, "STOPPED">> \in now'.some
          /\ states[c] = "TASK_FAILED" => <<c, "TASK_FAILED">> \in now'.some
      BY <1>3, <1>4, ConditionsAre DEF ConnectorStates
    <3>. QED  BY <1>7, <1>8, <2>1, <3>1 DEF Causes
  <2>2. CASE ~known
    BY <1>1, <1>6, <2>2 DEF BodyOK, Asked
  <2>. QED  BY <2>1, <2>2
<1>11. /\ Causes(now', body') /\ CountsNaturally(body')
       /\ ConnectTold(now, body) => ConnectTold(now', body')
       /\ \A d : ConnectorTold(now, body, d) => ConnectorTold(now', body', d)
       /\ \A m, l : Has(body', m, l) <=> Has(body, m, l) \/ Has(samples, m, l)
  BY <1>1, <1>9, <1>10, BodyGrows
<1>12. Unasked'
  <2>1. ASSUME NEW j \in DOMAIN ConnectorNames, j \in todo'
        PROVE  /\ ~Has(body', "connector_running", ConnectorNames[j])
               /\ ~Has(body', "task_running", ConnectorNames[j])
    <3>1. known /\ j \in todo /\ j # i
      BY <1>1, <2>1
    <3>2. ConnectorNames[j] # c
      BY <1>3, <3>1, ConnectorPlaces DEF c
    <3>. QED  BY <1>7, <1>11, <3>1, <3>2 DEF BodyOK, Unasked
  <2>2. \A m : m \in {"quality_dlq", "dashboard_up", "overall_status"} =>
           \A l : ~Has(samples, m, l)
    BY <1>6, <1>7
  <2>. QED  BY <1>1, <1>11, <2>1, <2>2 DEF BodyOK, Unasked
<1>13. /\ Has(body', "connect_up", "none") /\ ConnectTold(now', body')
       /\ <<"connect", "answers">> \in now'.some
  BY <1>1, <1>11, CallMoves DEF BodyOK, Asked, Grows
<1>14. ASSUME NEW j \in DOMAIN ConnectorNames \ todo'
       PROVE  ConnectorTold(now', body', ConnectorNames[j])
  <2>1. CASE j \notin todo
    BY <1>1, <1>11, <1>14, <2>1 DEF BodyOK, Asked
  <2>2. CASE ~known
    <3>1. CASE ~Answers("connect")
      BY <1>4, <1>5, <3>1, AnswersAsNoted DEF ConnectorTold
    <3>2. CASE states[c] = "REMOVED"
      <4>1. <<c, "REMOVED">> \in now'.some
        BY <1>3, <1>4, <3>2, ConditionsAre DEF ConnectorStates
      <4>. QED  BY <1>3, <4>1 DEF ConnectorTold
    <3>. QED  BY <2>2, <3>1, <3>2
  <2>3. CASE known /\ j = i
    <3>1. ConnectorNames[j] = c
      BY <2>3 DEF c
    <3>2. /\ <<c, "STOPPED">> \in now'.all => states[c] = "STOPPED"
          /\ <<c, "TASK_FAILED">> \in now'.all => states[c] = "TASK_FAILED"
      BY <1>3, <1>4, ConditionsAre DEF ConnectorStates
    <3>3. /\ ~Has(body, "connector_running", c) /\ ~Has(body, "task_running", c)
      BY <1>1, <1>2, <1>3, <2>3, <3>1 DEF BodyOK, Unasked
    <3>4. \A v : /\ Says(body', "connector_running", c, v) <=> Says(samples, "connector_running", c, v)
                 /\ Says(body', "task_running", c, v) <=> Says(samples, "task_running", c, v)
      BY <1>1, <1>8, <3>3, JoinedHas DEF Says
    <3>. QED  BY <1>7, <2>3, <3>1, <3>2, <3>4 DEF ConnectorTold
  <2>. QED  BY <1>1, <1>14, <2>1, <2>2, <2>3
<1>15. Asked'
  BY <1>1, <1>13, <1>14 DEF Asked
<1>. QED  BY <1>11, <1>12, <1>15 DEF BodyOK

LEMMA AskJolokiaStep ==
    ASSUME TypeOK, NowOK, BodyOK, MCNext, AskJolokia PROVE BodyOK'
<1>1. PICK samples :
        /\ body' = body ++ samples
        /\ \A m, l : Has(samples, m, l) => m \in {"jmx_up", "source_lag"}
        /\ \A m, l, v : Says(samples, m, l, v) => Has(samples, m, l)
  <2>1. CASE JolokiaConfigured
    <3> DEFINE second == IF Answers("jolokia") THEN JolokiaMetrics ELSE Sample("jmx_up", "none", 0)
               samples == Sample("jmx_up", "none", 1) ++ second
    <3>1. body' = body ++ samples
      BY <2>1 DEF AskJolokia, Called
    <3>2. \A m, l : Has(second, m, l) => m \in {"jmx_up", "source_lag"}
      BY DEF JolokiaMetrics, Sample, Has
    <3>. HIDE DEF second
    <3>3. \A m, l : Has(Sample("jmx_up", "none", 1), m, l) => m = "jmx_up"
      BY DEF Sample, Has
    <3>4. \A m, l : Has(samples, m, l) => m \in {"jmx_up", "source_lag"}
      BY <3>2, <3>3, JoinedHas
    <3>. HIDE DEF samples
    <3>. QED  BY <3>1, <3>4 DEF Says
  <2>2. CASE ~JolokiaConfigured
    <3>1. body' = body ++ Sample("jmx_up", "none", 0)
      BY <2>2 DEF AskJolokia
    <3>2. \A m, l : Has(Sample("jmx_up", "none", 0), m, l) => m = "jmx_up"
      BY DEF Sample, Has
    <3>. QED  BY <3>1, <3>2 DEF Says
  <2>. QED  BY <2>1, <2>2
<1>2. pc = "jolokia" /\ pc' = "transformer" /\ UNCHANGED world /\ todo' = todo /\ todo = {}
  BY DEF AskJolokia, Called, TypeOK
<1>3. Causes(now', samples) /\ CountsNaturally(samples)
  BY <1>1 DEF Causes, CountsNaturally
<1>4. /\ Causes(now', body') /\ CountsNaturally(body')
      /\ ConnectTold(now, body) => ConnectTold(now', body')
      /\ \A c : ConnectorTold(now, body, c) => ConnectorTold(now', body', c)
      /\ \A m, l : Has(body', m, l) <=> Has(body, m, l) \/ Has(samples, m, l)
  BY <1>1, <1>2, <1>3, BodyGrows
<1>5. Unasked'
  BY <1>1, <1>2, <1>4 DEF BodyOK, Unasked
<1>6. Asked'
  BY <1>2, <1>4 DEF BodyOK, Asked
<1>. QED  BY <1>4, <1>5, <1>6 DEF BodyOK

LEMMA AskTransformerStep ==
    ASSUME TypeOK, NowOK, BodyOK, MCNext, AskTransformer PROVE BodyOK'
<1> DEFINE value == IF Answers("transformer") THEN MetricSum(dlq) ELSE 0
           samples == Sample("quality_dlq", "none", value)
<1>1. /\ pc = "transformer" /\ pc' = "dashboard" /\ UNCHANGED world
      /\ todo' = todo /\ todo = {} /\ body' = body ++ samples
  BY DEF AskTransformer, Called, TypeOK
<1>2. /\ now'.all \subseteq Conditions /\ Conditions \subseteq now'.some /\ EntryOK(now')
      /\ now'.to = now.to /\ Lost' = Lost /\ Total \in Nat
  BY <1>1, CallMoves
<1>3. value \in Nat /\ (Answers("transformer") => value = Total)
  BY <1>2 DEF MetricSum, Total
<1>. HIDE DEF value
<1>4. /\ \A m, l : Has(samples, m, l) <=> m = "quality_dlq" /\ l = "none"
      /\ \A m, l, v : Says(samples, m, l, v) => m = "quality_dlq"
      /\ samples[<<"quality_dlq", "none">>] = value
  BY DEF Sample, Has, Says
<1>. HIDE DEF samples
<1>5. Causes(now', samples) /\ CountsNaturally(samples)
  BY <1>3, <1>4 DEF Causes, CountsNaturally
<1>6. /\ Causes(now', body') /\ CountsNaturally(body')
      /\ ConnectTold(now, body) => ConnectTold(now', body')
      /\ \A c : ConnectorTold(now, body, c) => ConnectorTold(now', body', c)
      /\ \A m, l : Has(body', m, l) <=> Has(body, m, l) \/ Has(samples, m, l)
  BY <1>1, <1>5, BodyGrows
<1>7. Unasked'
  BY <1>1, <1>4, <1>6 DEF BodyOK, Unasked
<1>8. Level(now', body', now'.restarts, Lost')
  <2>1. SUFFICES ASSUME <<"transformer", "answers">> \in now'.all
                 PROVE  /\ Has(body', "quality_dlq", "none")
                        /\ now'.from <= body'[<<"quality_dlq", "none">>] + Lost'
                        /\ body'[<<"quality_dlq", "none">>] + Lost' <= now'.to
    BY DEF Level
  <2>2. "transformer" \in Targets
    BY DEF Targets
  <2>3. value = Total
    BY <1>2, <1>3, <2>1, <2>2, AnswersAsNoted
  <2>4. Has(body', "quality_dlq", "none") /\ body'[<<"quality_dlq", "none">>] = Total
    BY <1>1, <1>4, <1>6, <2>3, JoinedHas DEF BodyOK, Unasked
  <2>5. Total + Lost' = now'.to
    BY <1>2 DEF Lost, EntryOK
  <2>. QED  BY <1>2, <2>4, <2>5 DEF EntryOK
<1>9. Asked'
  BY <1>1, <1>6, <1>8 DEF BodyOK, Asked
<1>. QED  BY <1>6, <1>7, <1>9 DEF BodyOK

LEMMA DashboardSamples ==
    ASSUME NEW samples,
           samples = Sample("dashboard_up", "none", 1) ++ Sample("generated_at", "none", 0) ++
                     Sample("order_lines", "none", 0) ++ DataQualityMetrics
    PROVE  /\ \A m, l : Has(samples, m, l) =>
                 m \in {"dashboard_up", "generated_at", "order_lines", "overall_status"}
           /\ ~Says(samples, "dashboard_up", "none", 0)
           /\ Says(samples, "overall_status", "fail", 1) <=> quality = "fail"
<1> DEFINE up == Sample("dashboard_up", "none", 1)
           at == Sample("generated_at", "none", 0)
           lines == Sample("order_lines", "none", 0)
           bit == [s \in {"pass", "warn", "fail"} |-> Bit(quality = s)]
           P == Sample("overall_status", "pass", bit["pass"])
           W == Sample("overall_status", "warn", bit["warn"])
           F == Sample("overall_status", "fail", bit["fail"])
<1>1. DataQualityMetrics = (P ++ W) ++ F
  BY DEF DataQualityMetrics
<1>2. bit["fail"] = 1 <=> quality = "fail"
  BY DEF Bit
<1>. HIDE DEF bit
<1>3. /\ \A m, l : Has(P, m, l) => m = "overall_status" /\ l = "pass"
      /\ \A m, l : Has(W, m, l) => m = "overall_status" /\ l = "warn"
      /\ \A m, l : Has(F, m, l) => m = "overall_status" /\ l = "fail"
      /\ \A v : Says(F, "overall_status", "fail", v) <=> v = bit["fail"]
  BY DEF Sample, Has, Says
<1>4. /\ \A m, l : Has(up, m, l) => m = "dashboard_up"
      /\ \A m, l : Has(at, m, l) => m = "generated_at"
      /\ \A m, l : Has(lines, m, l) => m = "order_lines"
      /\ Has(up, "dashboard_up", "none") /\ ~Says(up, "dashboard_up", "none", 0)
  BY DEF Sample, Has, Says
<1>. HIDE DEF P, W, F, up, at, lines
<1>5. \A f : \A m, l, v : Says(f, m, l, v) => Has(f, m, l)
  BY DEF Says
<1>6. /\ \A m, l : Has(P ++ W, m, l) => m = "overall_status" /\ l \in {"pass", "warn"}
      /\ \A m, l : Has((P ++ W) ++ F, m, l) => m = "overall_status"
      /\ Says((P ++ W) ++ F, "overall_status", "fail", 1) <=> quality = "fail"
  <2>1. \A m, l : Has(P ++ W, m, l) => m = "overall_status" /\ l \in {"pass", "warn"}
    BY <1>3, JoinedHas
  <2>2. \A m, l : Has((P ++ W) ++ F, m, l) => m = "overall_status"
    BY <1>3, <2>1, JoinedHas
  <2>3. ~Has(P ++ W, "overall_status", "fail")
    BY <2>1
  <2>. QED  BY <1>2, <1>3, <1>5, <2>1, <2>2, <2>3, JoinedHas
<1> DEFINE D == (P ++ W) ++ F
           head == (up ++ at) ++ lines
<1>7. samples = head ++ D
  BY <1>1 DEF up, at, lines
<1>8. /\ \A m, l : Has(head, m, l) => m \in {"dashboard_up", "generated_at", "order_lines"}
      /\ Has(head, "dashboard_up", "none") /\ ~Says(head, "dashboard_up", "none", 0)
  <2>1. /\ \A m, l : Has(up ++ at, m, l) => m \in {"dashboard_up", "generated_at"}
        /\ Has(up ++ at, "dashboard_up", "none") /\ ~Says(up ++ at, "dashboard_up", "none", 0)
    BY <1>4, JoinedHas
  <2>. QED  BY <1>4, <2>1, JoinedHas
<1>. HIDE DEF head, D
<1>9. /\ \A m, l : Has(D, m, l) => m = "overall_status"
      /\ Says(D, "overall_status", "fail", 1) <=> quality = "fail"
  BY <1>6 DEF D
<1>10. ~Has(head, "overall_status", "fail")
  BY <1>8
<1>. QED  BY <1>5, <1>7, <1>8, <1>9, <1>10, JoinedHas

LEMMA AskDashboardStep ==
    ASSUME TypeOK, NowOK, BodyOK, MCNext, AskDashboard PROVE BodyOK'
<1>1. PICK samples :
        /\ body' = body ++ samples
        /\ \A m, l : Has(samples, m, l) =>
              m \in {"dashboard_up", "generated_at", "order_lines", "overall_status"}
        /\ Says(samples, "dashboard_up", "none", 0) <=> ~Answers("dashboard")
        /\ Answers("dashboard") =>
              (Says(samples, "overall_status", "fail", 1) <=> quality = "fail")
        /\ ~Answers("dashboard") => ~Has(samples, "overall_status", "fail")
  <2>1. CASE Answers("dashboard")
    <3> DEFINE samples == Sample("dashboard_up", "none", 1) ++ Sample("generated_at", "none", 0)
                          ++ Sample("order_lines", "none", 0) ++ DataQualityMetrics
    <3>1. body' = body ++ samples
      BY <2>1 DEF AskDashboard, Called
    <3>2. /\ \A m, l : Has(samples, m, l) =>
               m \in {"dashboard_up", "generated_at", "order_lines", "overall_status"}
          /\ ~Says(samples, "dashboard_up", "none", 0)
          /\ Says(samples, "overall_status", "fail", 1) <=> quality = "fail"
      BY DashboardSamples
    <3>. HIDE DEF samples
    <3>. QED  BY <2>1, <3>1, <3>2
  <2>2. CASE ~Answers("dashboard")
    <3> DEFINE samples == Sample("dashboard_up", "none", 0)
    <3>1. body' = body ++ samples
      BY <2>2 DEF AskDashboard, Called
    <3>2. /\ \A m, l : Has(samples, m, l) => m = "dashboard_up"
          /\ Says(samples, "dashboard_up", "none", 0)
      BY DEF Sample, Has, Says
    <3>. HIDE DEF samples
    <3>. QED  BY <2>2, <3>1, <3>2
  <2>. QED  BY <2>1, <2>2
<1>2. pc = "dashboard" /\ pc' = "send" /\ UNCHANGED world /\ todo' = todo /\ todo = {}
  BY DEF AskDashboard, Called, TypeOK
<1>3. now'.all \subseteq Conditions /\ Conditions \subseteq now'.some
  BY <1>2, CallMoves
<1>4. "dashboard" \in Targets
  BY DEF Targets
<1>5. \A m, l, v : Says(samples, m, l, v) => Has(samples, m, l)
  BY DEF Says
<1>6. Causes(now', samples) /\ CountsNaturally(samples)
  <2>1. Says(samples, "dashboard_up", "none", 0) =>
          now'.some \cap {<<"dashboard", "refuses">>, <<"dashboard", "hangs">>} # {}
    BY <1>1, <1>3, <1>4, AnswersAsNoted
  <2>2. Says(samples, "overall_status", "fail", 1) => <<"quality", "fail">> \in now'.some
    BY <1>1, <1>3, <1>5, ConditionsAre
  <2>. QED  BY <1>1, <1>5, <2>1, <2>2 DEF Causes, CountsNaturally
<1>7. /\ Causes(now', body') /\ CountsNaturally(body')
      /\ ConnectTold(now, body) => ConnectTold(now', body')
      /\ \A c : ConnectorTold(now, body, c) => ConnectorTold(now', body', c)
      /\ Level(now, body, now.restarts, Lost) => Level(now', body', now'.restarts, Lost')
      /\ \A m, l : Has(body', m, l) <=> Has(body, m, l) \/ Has(samples, m, l)
  BY <1>1, <1>2, <1>6, BodyGrows
<1>8. DashboardTold(now', body')
  <2>1. ~Has(body, "dashboard_up", "none") /\ ~Has(body, "overall_status", "fail")
    BY <1>2 DEF BodyOK, Unasked
  <2>2. /\ Says(body', "dashboard_up", "none", 0) <=> Says(samples, "dashboard_up", "none", 0)
        /\ Says(body', "overall_status", "fail", 1) <=> Says(samples, "overall_status", "fail", 1)
    BY <1>1, <2>1, JoinedHas DEF Says
  <2>3. /\ <<"dashboard", "answers">> \notin now'.some => ~Answers("dashboard")
        /\ <<"dashboard", "answers">> \in now'.all => Answers("dashboard")
        /\ <<"quality", "fail">> \in now'.all => quality = "fail"
    BY <1>3, <1>4, AnswersAsNoted, ConditionsAre
  <2>. QED  BY <1>1, <2>2, <2>3 DEF DashboardTold
<1>9. Unasked'
  BY <1>2 DEF Unasked
<1>10. Asked'
  BY <1>2, <1>7, <1>8 DEF BodyOK, Asked
<1>. QED  BY <1>7, <1>9, <1>10 DEF BodyOK

LEMMA BodyStays ==
    ASSUME TypeOK, NowOK, BodyOK, MCNext PROVE BodyOK'
<1>1. CASE HealthChanges \/ ConnectorChanges \/ RecordDlq \/ TransformerRestarts \/ QualityChanges
  <2>1. pc' = pc /\ todo' = todo /\ body' = body
    BY <1>1 DEF HealthChanges, ConnectorChanges, RecordDlq, TransformerRestarts, QualityChanges,
       exporterVars
  <2>. QED  BY <2>1, WorldStep
<1>2. CASE Send
  BY <1>2 DEF Send, BodyOK, Unasked, Asked, TypeOK
<1>. QED  BY <1>1, <1>2, ScrapeStep, AskConnectorsStep, AskStatusStep, AskJolokiaStep,
          AskTransformerStep, AskDashboardStep DEF MCNext, Next

-----------------------------------------------------------------------------
(* The time of a scrape *)

LEMMA TargetsFinite == IsFiniteSet(Targets)
<1>1. Targets = {"connect", "jolokia", "transformer"} \cup {"dashboard"}
  BY DEF Targets
<1>. QED  BY <1>1, ThreesFinite, FS_Singleton, FS_Union

LEMMA OneMoreTarget ==
    ASSUME NEW A, NEW B, A \subseteq B, B \subseteq Targets, NEW t \in Targets, t \notin A, t \in B,
           NEW s \in Nat, s <= Cardinality(Hanging \cap A) * CallTimeout
    PROVE  /\ s <= Cardinality(Hanging \cap B) * CallTimeout
           /\ t \in Hanging => s + CallTimeout <= Cardinality(Hanging \cap B) * CallTimeout
<1>1. IsFiniteSet(Targets)
  BY TargetsFinite
<1> DEFINE HA == Hanging \cap A
           HB == Hanging \cap B
<1>2. IsFiniteSet(HB) /\ IsFiniteSet(HA) /\ HA \subseteq HB
  BY <1>1, FS_Subset
<1>3. Cardinality(HA) \in Nat /\ Cardinality(HB) \in Nat /\ Cardinality(HA) <= Cardinality(HB)
  BY <1>2, FS_CardinalityType, FS_Subset
<1>4. ASSUME t \in Hanging PROVE Cardinality(HA) + 1 <= Cardinality(HB)
  <2>1. IsFiniteSet(HA \cup {t}) /\ Cardinality(HA \cup {t}) = Cardinality(HA) + 1
    BY <1>2, FS_AddElement
  <2>2. HA \cup {t} \subseteq HB
    BY <1>4
  <2>. QED  BY <1>2, <2>1, <2>2, FS_Subset
<1>5. CallTimeout \in Nat
  BY ExporterAssumption DEF ExporterAssumption
<1>6. \A a, b, c \in Nat : a <= b => a * c <= b * c
  OBVIOUS
<1>7. \A a, c \in Nat : (a + 1) * c = a * c + c
  OBVIOUS
<1> DEFINE a == Cardinality(HA)
           b == Cardinality(HB)
<1>. HIDE DEF HA, HB
<1>8. a \in Nat /\ b \in Nat /\ a <= b /\ (t \in Hanging => a + 1 <= b)
  BY <1>3, <1>4
<1>9. s <= a * CallTimeout
  BY DEF HA
<1>. HIDE DEF a, b
<1>10. s <= b * CallTimeout
  <2>1. a * CallTimeout <= b * CallTimeout
    BY <1>5, <1>6, <1>8
  <2>2. a * CallTimeout \in Int /\ b * CallTimeout \in Int
    BY <1>5, <1>8
  <2>. QED  BY <1>9, <2>1, <2>2
<1>11. ASSUME t \in Hanging PROVE s + CallTimeout <= b * CallTimeout
  <2>1. (a + 1) * CallTimeout <= b * CallTimeout
    BY <1>5, <1>6, <1>8, <1>11
  <2>2. (a + 1) * CallTimeout = a * CallTimeout + CallTimeout
    BY <1>5, <1>7, <1>8
  <2>3. a * CallTimeout \in Int /\ b * CallTimeout \in Int
    BY <1>5, <1>8
  <2>. QED  BY <1>5, <1>9, <2>1, <2>2, <2>3
<1>. QED  BY <1>10, <1>11 DEF b, HB

LEMMA SpentStays ==
    ASSUME TypeOK, SpentOK, MCNext PROVE SpentOK'
<1> USE DEF SpentOK
<1>1. CallTimeout \in Nat
  BY ExporterAssumption DEF ExporterAssumption
<1>2. /\ AskedBefore["connect"] = {} /\ AskedBefore["status"] = {}
      /\ AskedBefore["jolokia"] = {"connect"}
      /\ AskedBefore["transformer"] = {"connect", "jolokia"}
      /\ AskedBefore["dashboard"] = {"connect", "jolokia", "transformer"}
      /\ AskedBefore["send"] = Targets
      /\ Targets = {"connect", "jolokia", "transformer", "dashboard"}
  BY DEF AskedBefore, Targets
<1>3. /\ spent \in Nat
      /\ pc # "idle" => spent <= Cardinality(Hanging \cap AskedBefore[pc]) * CallTimeout
  OBVIOUS
\* A call of t brings the scrape from A, the targets asked, to B.
<1>4. ASSUME NEW t \in Targets, pc # "idle", t \notin AskedBefore[pc],
             NEW B, AskedBefore[pc] \subseteq B, B \subseteq Targets, t \in B,
             spent' = spent + (IF health[t] = "hangs" THEN CallTimeout ELSE 0)
      PROVE  spent' \in Nat /\ spent' <= Cardinality(Hanging \cap B) * CallTimeout
  <2>1. /\ spent <= Cardinality(Hanging \cap B) * CallTimeout
        /\ t \in Hanging => spent + CallTimeout <= Cardinality(Hanging \cap B) * CallTimeout
    BY <1>3, <1>4, OneMoreTarget
  <2>2. health[t] = "hangs" => t \in Hanging
    BY DEF TypeOK
  <2>. QED  BY <1>1, <1>3, <1>4, <2>1, <2>2
<1>5. CASE HealthChanges \/ ConnectorChanges \/ RecordDlq \/ TransformerRestarts \/ QualityChanges
  <2>1. pc' = pc /\ spent' = spent
    BY <1>5 DEF HealthChanges, ConnectorChanges, RecordDlq, TransformerRestarts, QualityChanges,
       exporterVars
  <2>. QED  BY <1>3, <2>1
<1>6. CASE Scrape
  <2>1. pc' = "connect" /\ spent' = 0
    BY <1>6 DEF Scrape
  <2>2. Hanging \cap AskedBefore[pc'] = {}
    BY <1>2, <2>1
  <2>3. Cardinality(Hanging \cap AskedBefore[pc']) = 0
    BY <2>2, FS_EmptySet
  <2>4. 0 * CallTimeout = 0
    BY <1>1
  <2>. QED  BY <2>1, <2>3, <2>4
<1>7. CASE AskConnectors \/ AskStatus
  <2>1. /\ pc \in {"connect", "status"} /\ pc' \in {"status", "jolokia"}
        /\ spent' = spent + (IF health["connect"] = "hangs" THEN CallTimeout ELSE 0)
    BY <1>7 DEF AskConnectors, AskStatus, Called, Touring
  <2>2. CASE pc' = "jolokia"
    BY <1>2, <1>4, <2>1, <2>2
  <2>3. CASE pc' = "status"
    <3>1. health["connect"] = "answers"
      BY <1>7, <2>3 DEF AskConnectors, AskStatus, Called, Touring, Answers
    <3>2. spent' = spent
      BY <1>3, <2>1, <3>1
    <3>3. AskedBefore[pc'] = AskedBefore[pc]
      BY <1>2, <2>1, <2>3
    <3>. QED  BY <1>3, <2>1, <3>2, <3>3
  <2>. QED  BY <2>1, <2>2, <2>3
<1>8. CASE AskJolokia
  <2>1. pc = "jolokia" /\ pc' = "transformer"
    BY <1>8 DEF AskJolokia, Called
  <2>2. CASE JolokiaConfigured
    <3>1. spent' = spent + (IF health["jolokia"] = "hangs" THEN CallTimeout ELSE 0)
      BY <1>8, <2>2 DEF AskJolokia, Called
    <3>. QED  BY <1>2, <1>4, <2>1, <3>1
  <2>3. CASE ~JolokiaConfigured
    <3>1. spent' = spent
      BY <1>8, <2>3 DEF AskJolokia
    <3>2. spent <= Cardinality(Hanging \cap AskedBefore["transformer"]) * CallTimeout
      BY <1>2, <1>3, <2>1, OneMoreTarget
    <3>. QED  BY <1>3, <2>1, <3>1, <3>2
  <2>. QED  BY <2>2, <2>3
<1>9. CASE AskTransformer
  <2>1. /\ pc = "transformer" /\ pc' = "dashboard"
        /\ spent' = spent + (IF health["transformer"] = "hangs" THEN CallTimeout ELSE 0)
    BY <1>9 DEF AskTransformer, Called
  <2>. QED  BY <1>2, <1>4, <2>1
<1>10. CASE AskDashboard
  <2>1. /\ pc = "dashboard" /\ pc' = "send"
        /\ spent' = spent + (IF health["dashboard"] = "hangs" THEN CallTimeout ELSE 0)
    BY <1>10 DEF AskDashboard, Called
  <2>. QED  BY <1>2, <1>4, <2>1
<1>11. CASE Send
  BY <1>11 DEF Send
<1>. QED  BY <1>5, <1>6, <1>7, <1>8, <1>9, <1>10, <1>11 DEF MCNext, Next

LEMMA NothingIsLost ==
    ASSUME SpentOK, NoScrapeIsLost, pc = "send" PROVE Ingested = body
<1>1. CallTimeout \in Nat /\ ScrapeTimeout \in Nat /\ Hanging \subseteq Targets
  BY ExporterAssumption DEF ExporterAssumption
<1>2. Hanging \cap AskedBefore["send"] = Hanging
  BY <1>1 DEF AskedBefore
<1>3. spent \in Nat /\ spent <= Cardinality(Hanging) * CallTimeout
  BY <1>2 DEF SpentOK
<1>4. Cardinality(Hanging) \in Nat
  BY <1>1, TargetsFinite, FS_Subset, FS_CardinalityType
<1>5. Cardinality(Hanging) * CallTimeout \in Int
  BY <1>1, <1>4
<1>6. ~(spent > ScrapeTimeout)
  BY <1>1, <1>3, <1>5 DEF NoScrapeIsLost
<1>. QED  BY <1>6 DEF Ingested

-----------------------------------------------------------------------------
(* The scrapes in history *)

\* The scrape that is sent.
LEMMA SentIsSound ==
    ASSUME TypeOK, NowOK, BodyOK, SpentOK, pc = "send"
    PROVE  /\ EntryOK(now) /\ Causes(now, Ingested) /\ CountsNaturally(Ingested)
           /\ NoScrapeIsLost => /\ Complete(now, Ingested)
                                /\ Level(now, Ingested, now.restarts, Lost)
<1>1. Causes(now, Ingested) /\ CountsNaturally(Ingested)
  <2>1. CASE Ingested = body
    BY <2>1 DEF BodyOK
  <2>2. CASE Ingested = <<>>
    BY <2>2, NothingHas DEF Causes, CountsNaturally
  <2>. QED  BY <2>1, <2>2 DEF Ingested
<1>2. ASSUME NoScrapeIsLost
      PROVE  Complete(now, Ingested) /\ Level(now, Ingested, now.restarts, Lost)
  <2>1. Ingested = body
    BY <1>2, NothingIsLost
  <2>2. \A i \in DOMAIN ConnectorNames : ConnectorTold(now, body, ConnectorNames[i])
    BY DEF BodyOK, Asked, TypeOK
  <2>3. \A c \in Connectors : ConnectorTold(now, body, c)
    BY <2>2, ConnectorPlaces
  <2>. QED  BY <2>1, <2>3 DEF Complete, BodyOK, Asked
<1>. QED  BY <1>1, <1>2 DEF NowOK

\* What the window holds stays sound as time goes on.
LEMMA SoundStays ==
    ASSUME TypeOK, NowOK, MCNext, NEW entry, NEW samples,
           Sound(entry, samples, now.before, now.restarts, Lost)
    PROVE  Sound(entry, samples, now'.before, now'.restarts, Lost')
<1> USE DEF Sound
<1>1. now.restarts <= now'.restarts /\ RestartsTold
      /\ now.before \in Nat /\ now.restarts \in Nat /\ now'.restarts \in Nat
      /\ now.before <= now.restarts
  BY CountsMove DEF NowOK, EntryOK
<1>2. now'.before = now'.restarts \/ now'.before = now.before
  <2>1. now'.before = IF pc' = "idle" THEN now.restarts + Restarted ELSE now.before
    BY DEF MCNext
  <2>2. now'.restarts = now.restarts + Restarted
    BY DEF MCNext
  <2>. QED  BY <2>1, <2>2
<1>3. entry.restarts \in Nat /\ entry.before \in Nat /\ entry.before <= entry.restarts
  BY DEF EntryOK
<1>4. entry.restarts <= now'.before /\ entry.before <= now.restarts
  BY <1>1, <1>2, <1>3
<1>5. NoScrapeIsLost => Level(entry, samples, now'.restarts, Lost')
  BY <1>1, <1>3, <1>4, LevelStays
<1>. QED  BY <1>4, <1>5

LEMMA NewReadsMore ==
    ASSUME NEW first, NEW before, NEW second, NEW after, NEW restarts, NEW lost \in Int,
           EntryOK(before), EntryOK(after), CountsNaturally(first), CountsNaturally(second),
           before.restarts <= after.before, after.restarts = restarts,
           Level(before, first, restarts, lost), Level(after, second, restarts, lost)
    PROVE  ReadsMore(before, first, after, second)
<1> DEFINE f == first[<<"quality_dlq", "none">>]
           s == second[<<"quality_dlq", "none">>]
<1>1. SUFFICES ASSUME before.to < after.from, before.before = after.restarts,
                      <<"transformer", "answers">> \in before.all,
                      <<"transformer", "answers">> \in after.all
               PROVE  Has(first, "quality_dlq", "none") /\ Has(second, "quality_dlq", "none") /\ f < s
  BY DEF ReadsMore
<1>2. after.before = restarts
  BY <1>1 DEF EntryOK
<1>3. Has(first, "quality_dlq", "none") /\ f + lost <= before.to
  BY <1>1 DEF Level
<1>4. Has(second, "quality_dlq", "none") /\ after.from <= s + lost
  BY <1>1, <1>2 DEF Level
<1>5. f \in Nat /\ s \in Nat
  BY <1>3, <1>4 DEF CountsNaturally
<1>6. before.to \in Int /\ after.from \in Int
  BY DEF EntryOK
<1>. HIDE DEF f, s
<1>7. f < s
  BY <1>1, <1>3, <1>4, <1>5, <1>6
<1>. QED  BY <1>3, <1>4, <1>7

LEMMA HistoryStays ==
    ASSUME TypeOK, NowOK, BodyOK, SpentOK, HistoryOK, MCNext PROVE HistoryOK'
<1>1. \A i \in DOMAIN history : Sound(log[i], history[i], now'.before, now'.restarts, Lost')
  BY SoundStays DEF HistoryOK
<1>2. CASE ~Send
  <2>1. history' = history /\ log' = log
    <3>1. history' = history /\ ~(pc = "send" /\ pc' = "idle")
      BY <1>2 DEF MCNext, Next, HealthChanges, ConnectorChanges, RecordDlq, TransformerRestarts,
         QualityChanges, exporterVars, Scrape, AskConnectors, AskStatus, AskJolokia,
         AskTransformer, AskDashboard, Called, Touring
    <3>. QED  BY <3>1 DEF MCNext
  <2>. QED  BY <1>1, <2>1 DEF HistoryOK
<1>3. CASE Send
  <2>1. /\ pc = "send" /\ history' = Remember(history, Ingested) /\ log' = Remember(log, now)
    BY <1>3 DEF Send, MCNext
  <2> DEFINE gone == IF Len(history) < Window THEN 0 ELSE 1
             n == Len(history')
  <2>2. /\ IsSequence(history') /\ n = Len(history) + 1 - gone
        /\ history'[n] = Ingested
        /\ \A i \in 1 .. n - 1 :
              i + gone \in 1 .. Len(history) /\ history'[i] = history[i + gone]
    BY <2>1, Remembered DEF TypeOK
  <2>3. /\ log'[n] = now
        /\ \A i \in 1 .. n - 1 : log'[i] = log[i + gone]
    <3>1. Len(log) = Len(history) /\ IsSequence(log) /\ Len(log) <= Window
      BY DEF TypeOK
    <3>2. Len(log') = n
      BY <2>1, <2>2, <3>1, Remembered
    <3>. QED  BY <2>1, <2>2, <3>1, <3>2, Remembered
  <2>4. /\ DOMAIN history = 1 .. Len(history) /\ Len(history) \in Nat
        /\ DOMAIN history' = 1 .. n /\ n \in Nat
    BY <2>2 DEF TypeOK, IsSequence
  <2>5. gone \in {0, 1}
    OBVIOUS
  <2>. HIDE DEF gone, n
  <2>6. /\ EntryOK(now) /\ Causes(now, Ingested) /\ CountsNaturally(Ingested)
        /\ NoScrapeIsLost => /\ Complete(now, Ingested)
                             /\ Level(now, Ingested, now.restarts, Lost)
    BY <2>1, SentIsSound
  <2>7. Sound(now, Ingested, now'.before, now'.restarts, Lost')
    <3>1. now'.before = now'.restarts /\ now.restarts <= now'.restarts /\ RestartsTold
      <4>1. pc' = "idle"
        BY <1>3 DEF Send
      <4>. QED  BY <4>1, NowMoves, CountsMove DEF NowOK
    <3>2. now.before \in Nat /\ now.before <= now.restarts
      BY <2>6 DEF EntryOK
    <3>3. NoScrapeIsLost => Level(now, Ingested, now'.restarts, Lost')
      BY <2>6, <3>1, <3>2, LevelStays
    <3>. QED  BY <2>6, <3>1, <3>3 DEF Sound
  <2>8. \A i \in DOMAIN history' : Sound(log'[i], history'[i], now'.before, now'.restarts, Lost')
    BY <1>1, <2>2, <2>3, <2>4, <2>7
  <2>9. ASSUME NoScrapeIsLost, NEW i \in DOMAIN history', NEW j \in DOMAIN history', i < j
        PROVE  ReadsMore(log'[i], history'[i], log'[j], history'[j])
    <3>1. CASE j # n
      <4>1. i \in 1 .. n - 1 /\ j \in 1 .. n - 1 /\ i + gone < j + gone
        BY <2>4, <2>5, <2>9, <3>1
      <4>. QED  BY <2>2, <2>3, <2>4, <2>9, <4>1 DEF HistoryOK
    <3>2. CASE j = n
      <4>1. i \in 1 .. n - 1
        BY <2>4, <2>9, <3>2
      <4> DEFINE e == log[i + gone]
                 h == history[i + gone]
      <4>2. Sound(e, h, now.before, now.restarts, Lost)
        BY <2>2, <2>4, <4>1 DEF HistoryOK
      <4>3. /\ EntryOK(now) /\ CountsNaturally(Ingested)
            /\ Level(now, Ingested, now.restarts, Lost)
        BY <2>1, <2>9, SentIsSound
      <4>4. Lost \in Int
        BY CountsMove DEF RestartsTold
      <4>. HIDE DEF e, h
      <4>5. ReadsMore(e, h, now, Ingested)
        BY <2>9, <4>2, <4>3, <4>4, NewReadsMore DEF Sound
      <4>. QED  BY <2>2, <2>3, <3>2, <4>1, <4>5 DEF e, h
    <3>. QED  BY <3>1, <3>2
  <2>. QED  BY <2>8, <2>9 DEF HistoryOK
<1>. QED  BY <1>2, <1>3

-----------------------------------------------------------------------------
(* The theorems *)

LEMMA InitOK == ASSUME MCInit PROVE ExporterOK
<1> USE DEF MCInit, Init
<1>1. <<>> \in Seq(Range(<<>>)) /\ Len(<<>>) = 0 /\ DOMAIN <<>> = {}
  OBVIOUS
<1>2. Window \in Nat \ {0}
  BY ExporterAssumption DEF ExporterAssumption
<1>3. TypeOK
  BY <1>1, <1>2 DEF TypeOK, IsSequence, ConnectorStates
<1>4. NowOK
  BY DEF NowOK, EntryOK, Entry
<1>5. BodyOK
  BY DEF BodyOK, Unasked, Asked
<1>6. SpentOK
  BY DEF SpentOK
<1>7. HistoryOK
  BY <1>1 DEF HistoryOK
<1>. QED  BY <1>3, <1>4, <1>5, <1>6, <1>7 DEF ExporterOK

LEMMA AlwaysOK == MCSpec => []ExporterOK
<1>1. MCInit => ExporterOK
  BY InitOK
<1>2. ExporterOK /\ [MCNext]_mcVars => ExporterOK'
  <2> SUFFICES ASSUME ExporterOK, [MCNext]_mcVars PROVE ExporterOK'
    OBVIOUS
  <2>1. CASE MCNext
    <3>1. TypeOK'
      BY <2>1, TypesStay DEF MCNext, ExporterOK
    <3>2. NowOK'
      BY <2>1, NowMoves DEF ExporterOK
    <3>3. BodyOK'
      BY <2>1, BodyStays DEF ExporterOK
    <3>4. SpentOK'
      BY <2>1, SpentStays DEF ExporterOK
    <3>5. HistoryOK'
      BY <2>1, HistoryStays DEF ExporterOK
    <3>. QED  BY <3>1, <3>2, <3>3, <3>4, <3>5 DEF ExporterOK
  <2>2. CASE UNCHANGED mcVars
    <3>1. TypeOK' /\ NowOK' /\ SpentOK'
      BY <2>2 DEF ExporterOK, mcVars, vars, TypeOK, NowOK, SpentOK, Conditions
    <3>2. BodyOK'
      BY <2>2 DEF ExporterOK, mcVars, vars, BodyOK, Unasked, Asked, Lost, Total
    <3>3. HistoryOK'
      BY <2>2 DEF ExporterOK, mcVars, vars, HistoryOK, Lost, Total
    <3>. QED  BY <3>1, <3>2, <3>3 DEF ExporterOK
  <2>. QED  BY <2>1, <2>2
<1>. QED  BY <1>1, <1>2, PTL DEF MCSpec

LEMMA WindowIs ==
    ASSUME TypeOK
    PROVE  /\ DOMAIN history = 1 .. Len(history) /\ DOMAIN log = DOMAIN history
           /\ Len(history) \in Nat /\ Len(log) = Len(history)
BY DEF TypeOK, IsSequence

\* No alert fires without a cause in every scrape of its window, whatever fails and
\* recovers between the calls of a scrape, and however many scrapes are lost.
THEOREM AlertsAlwaysHaveCause == MCSpec => []AlertsHaveCause
<1>1. ExporterOK => AlertsHaveCause
  <2> SUFFICES ASSUME ExporterOK PROVE AlertsHaveCause
    OBVIOUS
  <2>1. DOMAIN log = DOMAIN history /\ \A i \in DOMAIN history : Causes(log[i], history[i])
    BY WindowIs DEF ExporterOK, HistoryOK, Sound
  <2>2. \A metric, label, value : Lasting(metric, label, value) =>
           \A i \in DOMAIN history : Says(history[i], metric, label, value)
    BY DEF Lasting, Says, Has
  <2>. QED  BY <2>1, <2>2 DEF AlertsHaveCause, KafkaConnectDown, DashboardApiDown,
             ConnectorNotRunning, ConnectorTaskNotRunning, DataQualityGateFailed, Causes, Sometime
<1>. QED  BY <1>1, AlwaysOK, PTL

\* If Prometheus waits long enough for all targets that may hang together, what lasts
\* through a window is reported by its alert, however the calls fall between the
\* failures of the rest.
THEOREM LastingTroubleAlwaysFires ==
    ASSUME NoScrapeIsLost PROVE MCSpec => []LastingTroubleFires
<1>1. ExporterOK => LastingTroubleFires
  <2> SUFFICES ASSUME ExporterOK PROVE LastingTroubleFires
    OBVIOUS
  <2>1. /\ DOMAIN log = DOMAIN history /\ Len(log) = Len(history)
        /\ \A i \in DOMAIN history : Complete(log[i], history[i])
    BY NoScrapeIsLost, WindowIs DEF ExporterOK, HistoryOK, Sound
  <2>2. ASSUME NEW metric, NEW label, NEW value, Len(log) = Window,
               \A i \in DOMAIN log : Says(history[i], metric, label, value)
        PROVE  Lasting(metric, label, value)
    BY <2>1, <2>2 DEF Lasting, Says, Has
  <2>3. Down("connect") => KafkaConnectDown
    BY <2>1, <2>2 DEF Down, KafkaConnectDown, Complete, ConnectTold
  <2>4. Down("dashboard") => DashboardApiDown
    BY <2>1, <2>2 DEF Down, DashboardApiDown, Complete, DashboardTold
  <2>5. ASSUME Throughout(<<"connect", "answers">>), ~SomeRemoved, NEW c \in Connectors
        PROVE  /\ Throughout(<<c, "STOPPED">>) => ConnectorNotRunning(c)
               /\ Throughout(<<c, "TASK_FAILED">>) => ConnectorTaskNotRunning(c)
    <3>1. Len(log) = Window /\ \A i \in DOMAIN log :
             /\ <<c, "STOPPED">> \in log[i].all => Says(history[i], "connector_running", c, 0)
             /\ <<c, "TASK_FAILED">> \in log[i].all => Says(history[i], "task_running", c, 0)
      BY <2>1, <2>5 DEF Throughout, SomeRemoved, Complete, ConnectorTold
    <3>2. ASSUME Throughout(<<c, "STOPPED">>) PROVE ConnectorNotRunning(c)
      BY <2>2, <3>1, <3>2 DEF Throughout, ConnectorNotRunning
    <3>3. ASSUME Throughout(<<c, "TASK_FAILED">>) PROVE ConnectorTaskNotRunning(c)
      BY <2>2, <3>1, <3>3 DEF Throughout, ConnectorTaskNotRunning
    <3>. QED  BY <3>2, <3>3
  <2>6. Throughout(<<"dashboard", "answers">>) /\ Throughout(<<"quality", "fail">>) =>
          DataQualityGateFailed
    BY <2>1, <2>2 DEF Throughout, DataQualityGateFailed, Complete, DashboardTold
  <2>. QED  BY <2>3, <2>4, <2>5, <2>6 DEF LastingTroubleFires
<1>. QED  BY <1>1, AlwaysOK, PTL

-----------------------------------------------------------------------------
(* The spike *)

\* A counter that was read higher later has risen from one reading to the next.
LEMMA RiseIsSeen ==
    ASSUME NEW R, IsFiniteSet(R), R \subseteq Nat, NEW v, \A k \in R : v[k] \in Nat,
           NEW i \in R, NEW j \in R, i < j, v[i] < v[j]
    PROVE  \E k \in R : LET later == {m \in R : m > k} IN
              later # {} /\ v[k] < v[Min(later)]
<1> DEFINE higher == {k \in R : k > i /\ v[k] > v[i]}
           m == Min(higher)
<1>1. higher \subseteq Int /\ IsFiniteSet(higher) /\ higher # {}
  <2>1. higher \subseteq R /\ j \in higher
    OBVIOUS
  <2>. HIDE DEF higher
  <2>2. IsFiniteSet(higher)
    BY <2>1, FS_Subset
  <2>. QED  BY <2>1, <2>2
<1>2. m \in higher /\ \A k \in higher : k >= m
  BY <1>1, MinIsIn
<1>. HIDE DEF m
<1> DEFINE lower == {k \in R : k >= i /\ k < m}
           p == Max(lower)
<1>3. lower \subseteq Int /\ IsFiniteSet(lower) /\ lower # {}
  <2>1. lower \subseteq R /\ i \in lower
    BY <1>2
  <2>. HIDE DEF lower
  <2>2. IsFiniteSet(lower)
    BY <2>1, FS_Subset
  <2>. QED  BY <2>1, <2>2
<1>4. p \in lower /\ \A k \in lower : k <= p
  BY <1>3, MaxIsIn
<1>. HIDE DEF p
<1>5. v[p] <= v[i]
  <2>1. CASE p = i
    BY <2>1
  <2>2. CASE p # i
    BY <1>2, <1>4, <2>2
  <2>. QED  BY <2>1, <2>2
<1>6. v[p] < v[m]
  BY <1>2, <1>4, <1>5
<1> DEFINE later == {k \in R : k > p}
<1>7. m \in later /\ \A k \in later : k >= m
  BY <1>2, <1>4
<1>8. Min(later) = m
  <2>1. later \subseteq R
    OBVIOUS
  <2>. HIDE DEF later
  <2>2. later \subseteq Int /\ IsFiniteSet(later) /\ later # {}
    <3>1. IsFiniteSet(later)
      BY <2>1, FS_Subset
    <3>. QED  BY <1>7, <2>1, <3>1
  <2>3. Min(later) \in later /\ \A k \in later : k >= Min(later)
    BY <2>2, MinIsIn
  <2>4. Min(later) \in Int /\ m \in Int /\ m >= Min(later) /\ Min(later) >= m
    BY <1>7, <2>2, <2>3
  <2>. QED  BY <2>4
<1>9. later # {} /\ v[p] < v[Min(later)]
  BY <1>6, <1>7, <1>8
<1>10. p \in R
  BY <1>4
<1>. HIDE DEF lower, higher
<1>. QED  BY <1>9, <1>10

LEMMA IncreaseIsPositive ==
    ASSUME TypeOK, \A k \in DOMAIN history : CountsNaturally(history[k]),
           NEW i \in DOMAIN history, NEW j \in DOMAIN history, i < j,
           Has(history[i], "quality_dlq", "none"), Has(history[j], "quality_dlq", "none"),
           history[i][<<"quality_dlq", "none">>] < history[j][<<"quality_dlq", "none">>]
    PROVE  DlqSpike
<1> DEFINE R == Readings("quality_dlq")
           v == [k \in R |-> history[k][<<"quality_dlq", "none">>]]
           L(k) == Later("quality_dlq", k)
           D == {k \in R : L(k) # {}}
           f == [k \in D |-> Rise("quality_dlq", k)]
<1>1. IsFiniteSet(R) /\ R \subseteq Nat
  <2>1. R \subseteq 1 .. Len(history) /\ Len(history) \in Nat
    BY WindowIs DEF Readings
  <2>. HIDE DEF R
  <2>2. IsFiniteSet(1 .. Len(history))
    BY <2>1, FS_Interval
  <2>3. IsFiniteSet(R)
    BY <2>1, <2>2, FS_Subset
  <2>. QED  BY <2>1, <2>3
<1>2. \A k \in R : v[k] \in Nat
  BY DEF Readings, CountsNaturally, Has
<1>3. i \in R /\ j \in R /\ v[i] < v[j]
  BY DEF Readings, Has
<1>4. \A k : L(k) = {m \in R : m > k}
  BY DEF Later
<1>5. PICK k \in R : L(k) # {} /\ v[k] < v[Min(L(k))]
  <2>. HIDE DEF R, v, L
  <2>. QED  BY <1>1, <1>2, <1>3, <1>4, RiseIsSeen
<1>6. ASSUME NEW m \in D
      PROVE  /\ Min(L(m)) \in R
             /\ f[m] = (IF v[Min(L(m))] < v[m] THEN v[Min(L(m))] ELSE v[Min(L(m))] - v[m])
  <2>1. L(m) # {} /\ L(m) \subseteq R
    BY <1>4
  <2>2. IsFiniteSet(L(m)) /\ L(m) \subseteq Int
    BY <1>1, <2>1, FS_Subset
  <2>. HIDE DEF L
  <2>3. Min(L(m)) \in R
    BY <2>1, <2>2, MinIsIn
  <2>. HIDE DEF R
  <2>. QED  BY <1>6, <2>3 DEF Rise, L
<1>7. k \in D
  BY <1>5
<1>8. DlqSpike <=> SumFunctionOnSet(f, D) > 0
  <2>1. DOMAIN f = D
    OBVIOUS
  <2>2. Increase("quality_dlq") = SumFunction(f)
    BY DEF Increase
  <2>. QED  BY <2>1, <2>2 DEF DlqSpike, SumFunction
<1>9. IsFiniteSet(D)
  BY <1>1, FS_Subset
<1>. HIDE DEF R, v, L, D, f
<1>10. \A m \in D : f[m] \in Nat
  BY <1>2, <1>6 DEF D
<1>11. f[k] > 0
  BY <1>2, <1>5, <1>6, <1>7
<1>. QED  BY <1>7, <1>8, <1>9, <1>10, <1>11, PositiveSum

\* Likewise, DLQ records counted between two scrapes that could read the counter are
\* seen as a spike, whatever is read in between.
THEOREM GrowthAlwaysFires ==
    ASSUME NoScrapeIsLost PROVE MCSpec => []DlqGrowthFires
<1>1. ExporterOK => DlqGrowthFires
  <2> SUFFICES ASSUME ExporterOK, NEW i \in DOMAIN log, NEW j \in DOMAIN log, i < j,
                      log[i].to < log[j].from, log[i].before = log[j].restarts,
                      \A k \in {i, j} : <<"transformer", "answers">> \in log[k].all
               PROVE  DlqSpike
    BY DEF DlqGrowthFires
  <2>1. DOMAIN log = DOMAIN history /\ TypeOK
    BY WindowIs DEF ExporterOK
  <2>2. \A k \in DOMAIN history : CountsNaturally(history[k])
    BY DEF ExporterOK, HistoryOK, Sound
  <2>3. ReadsMore(log[i], history[i], log[j], history[j])
    BY NoScrapeIsLost, <2>1 DEF ExporterOK, HistoryOK
  <2>4. /\ Has(history[i], "quality_dlq", "none") /\ Has(history[j], "quality_dlq", "none")
        /\ history[i][<<"quality_dlq", "none">>] < history[j][<<"quality_dlq", "none">>]
    BY <2>3 DEF ReadsMore
  <2>. QED  BY <2>1, <2>2, <2>4, IncreaseIsPositive
<1>. QED  BY <1>1, AlwaysOK, PTL
=============================================================================
