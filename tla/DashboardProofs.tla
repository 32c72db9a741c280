--------------------------- MODULE DashboardProofs ---------------------------
(***************************************************************************)
(* Proofs about Dashboard, for any rows, requests, thresholds and faults:  *)
(* what a snapshot is made of, and what it means that the gate passes.     *)
(***************************************************************************)
EXTENDS Dashboard, Sums

AllQueries == {Queries[i] : i \in 1 .. 5}

\* The result is that of the query, each table scanned at some moment since the
\* request started.
ResultOK(r, q) ==
    \/ results[r][q] = Failed
    \/ \E at \in [ScannedTables[q] -> startedAt[r].rows .. stored] :
          results[r][q] = QueryAt(q, at)

\* The answer is a report on the results, and knows the DLQ records there were
\* at the start if nothing failed.
AnswerOK(r) ==
    \E m \in [available : BOOLEAN, dlq : Nat, rejects : {0}] :
        /\ snapshot[r].generatedAt = generatedAt[r]
        /\ snapshot[r].report = Report(generatedAt[r], results[r], m, Config)
        /\ faults = 0 => m.available /\ m.dlq >= startedAt[r].dlq

RequestOK(r) ==
    /\ step[r] \in Steps
    /\ generatedAt[r] \in 0 .. now
    /\ startedAt[r].rows \in 0 .. stored /\ startedAt[r].dlq \in 0 .. telemetry.topic
    /\ seen[r].moment \in 0 .. stored
    /\ seen[r] = NothingSeen \/ seen[r].moment \in startedAt[r].rows .. stored
    /\ \A i \in 1 .. 5 :
        step[r] = Queries[i] => DOMAIN results[r] = {Queries[j] : j \in 1 .. (i - 1)}
    /\ step[r] \in {"probe", "answered"} => DOMAIN results[r] = AllQueries
    /\ \A q \in AllQueries \cap DOMAIN results[r] : ResultOK(r, q)
    /\ step[r] = "answered" => AnswerOK(r)

Accepted == IF AllowWarnings THEN {"pass", "warn"} ELSE {"pass"}

\* A gate that has passed holds on to the answer it has passed.
GateOK(g) ==
    /\ verdict[g] \in {"none", "pass", "fail"}
    /\ verdict[g] = "pass" =>
        /\ step[g] = "answered"
        /\ snapshot[g].report.overallStatus \in Accepted

EnvironmentOK ==
    /\ stream \in Streams
    /\ stored \in 0 .. Len(stream)
    /\ now \in 0 .. MaxTime
    /\ telemetry \in [counter : Nat, topic : 0 .. MaxDlq]
    /\ telemetry.counter <= telemetry.topic
    /\ faults \in 0 .. MaxFaults
    /\ faults = 0 => telemetry.counter = telemetry.topic

DomainsOK ==
    /\ DOMAIN step = Requests /\ DOMAIN generatedAt = Requests /\ DOMAIN seen = Requests
    /\ DOMAIN results = Requests /\ DOMAIN snapshot = Requests
    /\ DOMAIN startedAt = Requests
    /\ step = [r \in Requests |-> step[r]]
    /\ verdict \in [Gates -> {"none", "pass", "fail"}]
    /\ page.status \in {"Loading", "Live", "Unavailable"}
    /\ page = [status |-> page.status, chart |-> page.chart, panels |-> page.panels]

DashboardOK ==
    /\ EnvironmentOK /\ DomainsOK
    /\ \A r \in Requests : RequestOK(r)
    /\ \A g \in Gates : GateOK(g)

-----------------------------------------------------------------------------

LEMMA StreamFacts ==
    ASSUME stream \in Streams
    PROVE  /\ Len(stream) \in Nat
           /\ \A i \in 1 .. Len(stream) :
                /\ {"table", "order", "customer", "status", "amount", "day", "ts"}
                       \subseteq DOMAIN stream[i]
                /\ stream[i].table \in DOMAIN Mapping
                /\ stream[i].amount \in Int /\ stream[i].ts \in Int
                /\ stream[i].table = "payments" => stream[i].status # "refunded"
BY StreamsAssumption DEF StreamsAssumption

LEMMA StreamRecords ==
    ASSUME stream \in Streams, NEW i \in 1 .. Len(stream)
    PROVE  /\ stream[i] = [f \in DOMAIN stream[i] |-> stream[i][f]]
           /\ stream[i].table = "refunds" => stream[i].status = "none"
BY StreamsAssumption DEF StreamsAssumption

LEMMA QueryNames ==
    /\ Queries[1] = "revenue" /\ Queries[2] = "payments" /\ Queries[3] = "support"
    /\ Queries[4] = "orderCash" /\ Queries[5] = "findings" /\ Len(Queries) = 5
    /\ \A i \in 1 .. 5 : Queries[i] \notin {"idle", "probe", "answered", "broken"}
    /\ \A i, j \in 1 .. 5 : Queries[i] = Queries[j] => i = j
BY DEF Queries

LEMMA AskingAt ==
    ASSUME NEW r, Asking(r)
    PROVE  \E i \in 1 .. 5 : step[r] = Queries[i] /\ At(r) = i
<1>1. PICK i \in 1 .. 5 : step[r] = Queries[i]
  BY QueryNames DEF Asking
<1>2. At(r) = i
  BY <1>1, QueryNames DEF At
<1>. QED  BY <1>1, <1>2

LEMMA InitOK == ASSUME Init PROVE DashboardOK
<1>1. EnvironmentOK /\ DomainsOK
  BY StreamFacts, DashboardAssumption
     DEF Init, EnvironmentOK, DomainsOK, DashboardAssumption, NoPage
<1>2. ASSUME NEW r \in Requests PROVE RequestOK(r)
  BY <1>2, StreamFacts, QueryNames
     DEF Init, RequestOK, Steps, NoStart, NothingSeen, NoResults
<1>3. ASSUME NEW g \in Gates PROVE GateOK(g)
  BY <1>3 DEF Init, GateOK
<1>. QED  BY <1>1, <1>2, <1>3 DEF DashboardOK

-----------------------------------------------------------------------------
(* Steps *)

\* Time goes on, rows and records are added, failures are not forgotten.
WorldMoves ==
    /\ stream' = stream
    /\ stored' \in Int /\ stored <= stored'
    /\ now' \in Int /\ now <= now'
    /\ telemetry'.topic \in Int /\ telemetry.topic <= telemetry'.topic
    /\ faults' = 0 => faults = 0

LEMMA QuerySame ==
    ASSUME stream' = stream
    PROVE  \A q, at : QueryAt(q, at)' = QueryAt(q, at)
BY DEF QueryAt, RowsAt

LEMMA ResultKeeps ==
    ASSUME EnvironmentOK, WorldMoves, NEW r \in Requests, NEW q \in AllQueries,
           ResultOK(r, q), startedAt'[r] = startedAt[r], results'[r][q] = results[r][q]
    PROVE  ResultOK(r, q)'
<1>1. CASE results[r][q] = Failed
  BY <1>1 DEF ResultOK
<1>2. ASSUME NEW at \in [ScannedTables[q] -> startedAt[r].rows .. stored],
             results[r][q] = QueryAt(q, at)
      PROVE  ResultOK(r, q)'
  <2>1. at \in [ScannedTables[q] -> startedAt'[r].rows .. stored']
    BY DEF WorldMoves, EnvironmentOK
  <2>2. QueryAt(q, at)' = QueryAt(q, at)
    BY QuerySame DEF WorldMoves
  <2>3. results'[r][q] = QueryAt(q, at)'
    BY <1>2, <2>2
  <2>. QED  BY <2>1, <2>3 DEF ResultOK
<1>. QED  BY <1>1, <1>2 DEF ResultOK

\* What a request has is none of the others' business.
Same(r) ==
    /\ step'[r] = step[r] /\ generatedAt'[r] = generatedAt[r] /\ seen'[r] = seen[r]
    /\ results'[r] = results[r] /\ snapshot'[r] = snapshot[r] /\ startedAt'[r] = startedAt[r]

LEMMA AnswerKeeps ==
    ASSUME NEW r \in Requests, AnswerOK(r), generatedAt'[r] = generatedAt[r],
           results'[r] = results[r], snapshot'[r] = snapshot[r], startedAt'[r] = startedAt[r],
           faults' = 0 => faults = 0
    PROVE  AnswerOK(r)'
BY DEF AnswerOK

LEMMA RequestKeeps ==
    ASSUME EnvironmentOK, WorldMoves, NEW r \in Requests, RequestOK(r), Same(r)
    PROVE  RequestOK(r)'
<1>1. \A q \in AllQueries \cap DOMAIN results'[r] : ResultOK(r, q)'
  BY ResultKeeps DEF RequestOK, Same
<1>2. step'[r] = "answered" => AnswerOK(r)'
  BY AnswerKeeps DEF RequestOK, Same, WorldMoves
<1>3. /\ startedAt[r].rows \in Int /\ startedAt[r].dlq \in Int /\ seen[r].moment \in Int
      /\ generatedAt[r] \in Int
  BY DEF RequestOK
<1>4. stored \in Int /\ now \in Int /\ telemetry.topic \in Int
  BY StreamFacts DEF EnvironmentOK
<1>5. /\ generatedAt'[r] \in 0 .. now'
      /\ startedAt'[r].rows \in 0 .. stored' /\ startedAt'[r].dlq \in 0 .. telemetry'.topic
      /\ seen'[r].moment \in 0 .. stored'
      /\ seen'[r] = NothingSeen \/ seen'[r].moment \in startedAt'[r].rows .. stored'
  BY <1>3, <1>4 DEF RequestOK, Same, WorldMoves
<1>6. /\ step'[r] \in Steps
      /\ \A i \in 1 .. 5 :
           step'[r] = Queries[i] => DOMAIN results'[r] = {Queries[j] : j \in 1 .. (i - 1)}
      /\ step'[r] \in {"probe", "answered"} => DOMAIN results'[r] = AllQueries
  BY DEF RequestOK, Same
<1>. QED  BY <1>1, <1>2, <1>5, <1>6 DEF RequestOK

\* Verdicts and pages are touched by the gate and the page only.
LEMMA OwnStep ==
    ASSUME DashboardOK, EnvironmentOK', DomainsOK', WorldMoves, NEW r \in Requests,
           RequestOK(r)', \A o \in Requests \ {r} : Same(o),
           \A g \in Gates : verdict'[g] = "pass" =>
               /\ verdict[g] = "pass" \/ g = r
               /\ g = r => step'[g] = "answered" /\ snapshot'[g].report.overallStatus \in Accepted
    PROVE  DashboardOK'
<1>1. ASSUME NEW o \in Requests PROVE RequestOK(o)'
  BY <1>1, RequestKeeps DEF DashboardOK
<1>2. ASSUME NEW g \in Gates PROVE GateOK(g)'
  <2>1. g \in Requests
    BY <1>2 DEF Requests
  <2>2. verdict'[g] \in {"none", "pass", "fail"}
    BY DEF DomainsOK
  <2>3. g # r /\ verdict'[g] = "pass" =>
          step'[g] = "answered" /\ snapshot'[g].report.overallStatus \in Accepted
    BY <2>1 DEF DashboardOK, GateOK, Same
  <2>. QED  BY <2>2, <2>3 DEF GateOK
<1>. QED  BY <1>1, <1>2 DEF DashboardOK

LEMMA WorldStep ==
    ASSUME DashboardOK, WriteFact \/ Tick \/ PublishDlq \/ RestartTransformer
    PROVE  DashboardOK'
<1>1. EnvironmentOK' /\ WorldMoves
  <2>1. /\ Len(stream) \in Nat /\ MaxTime \in Nat /\ MaxDlq \in Nat /\ MaxFaults \in Nat
    BY StreamFacts, DashboardAssumption DEF DashboardOK, EnvironmentOK, DashboardAssumption
  <2>2. CASE WriteFact
    BY <2>1, <2>2 DEF WriteFact, DashboardOK, EnvironmentOK, WorldMoves
  <2>3. CASE Tick
    BY <2>1, <2>3 DEF Tick, DashboardOK, EnvironmentOK, WorldMoves
  <2>4. CASE PublishDlq
    BY <2>1, <2>4 DEF PublishDlq, DashboardOK, EnvironmentOK, WorldMoves
  <2>5. CASE RestartTransformer
    BY <2>1, <2>5 DEF RestartTransformer, Fault, DashboardOK, EnvironmentOK, WorldMoves
  <2>. QED  BY <2>2, <2>3, <2>4, <2>5
<1>2. UNCHANGED <<serverVars, page, verdict>>
  BY DEF WriteFact, Tick, PublishDlq, RestartTransformer
<1>3. DomainsOK' /\ \A g \in Gates : GateOK(g)'
  BY <1>2 DEF serverVars, DashboardOK, DomainsOK, GateOK
<1>4. ASSUME NEW r \in Requests PROVE RequestOK(r)'
  <2>1. Same(r)
    BY <1>2 DEF serverVars, Same
  <2>. QED  BY <1>1, <2>1, RequestKeeps DEF DashboardOK
<1>. QED  BY <1>1, <1>3, <1>4 DEF DashboardOK

LEMMA NothingHasNoName == \A q \in AllQueries : "none" \notin ScannedTables[q]
BY QueryNames DEF AllQueries, ScannedTables, Mapping

LEMMA ResultIsOfTheTime ==
    ASSUME EnvironmentOK, NEW r \in Requests, RequestOK(r), Asking(r)
    PROVE  \E at \in [ScannedTables[step[r]] -> startedAt[r].rows .. stored] :
              QueryResult(r) = QueryAt(step[r], at)
<1> DEFINE at == [t \in ScannedTables[step[r]] |-> Moment(r, t)]
<1>1. step[r] \in AllQueries
  BY AskingAt DEF AllQueries
<1>2. startedAt[r].rows \in 0 .. stored /\ stored \in Nat
  BY StreamFacts DEF RequestOK, EnvironmentOK
<1>3. ASSUME NEW t \in ScannedTables[step[r]]
      PROVE  Moment(r, t) \in startedAt[r].rows .. stored
  <2>1. CASE seen[r].table = t
    <3>1. seen[r] # NothingSeen
      BY <1>1, <1>3, <2>1, NothingHasNoName DEF NothingSeen
    <3>. QED  BY <2>1, <3>1 DEF RequestOK, Moment
  <2>2. CASE seen[r].table # t
    BY <1>2, <2>2 DEF Moment
  <2>. QED  BY <2>1, <2>2
<1>4. at \in [ScannedTables[step[r]] -> startedAt[r].rows .. stored]
  BY <1>3
<1>. QED  BY <1>4 DEF QueryResult

\* A request goes on to its next query with a result of this one.
LEMMA NextQueryStep ==
    ASSUME DashboardOK, EnvironmentOK', WorldMoves, NEW r \in Requests, NEW result,
           Asking(r), NextQuery(r, result),
           \/ result = Failed
           \/ \E at \in [ScannedTables[step[r]] -> startedAt[r].rows .. stored] :
                  result = QueryAt(step[r], at)
    PROVE  DashboardOK'
<1> USE DEF DashboardOK
<1>1. PICK i \in 1 .. 5 : step[r] = Queries[i] /\ At(r) = i
  BY AskingAt
<1> DEFINE names == {Queries[j] : j \in 1 .. (i - 1)}
           got == [q \in DOMAIN results[r] \cup {step[r]} |->
                      IF q = step[r] THEN result ELSE results[r][q]]
           next == IF i = 5 THEN "probe" ELSE Queries[i + 1]
<1>2. DOMAIN results[r] = names
  BY <1>1 DEF RequestOK
<1>3. /\ results' = [results EXCEPT ![r] = got] /\ step' = [step EXCEPT ![r] = next]
      /\ seen' = [seen EXCEPT ![r] = NothingSeen]
      /\ UNCHANGED <<stream, stored, now, telemetry, generatedAt, snapshot, startedAt,
                     page, verdict>>
  BY <1>1, QueryNames DEF NextQuery, envVars
<1>4. /\ results'[r] = got /\ step'[r] = next /\ seen'[r] = NothingSeen
      /\ generatedAt'[r] = generatedAt[r] /\ startedAt'[r] = startedAt[r]
      /\ \A o \in Requests \ {r} : Same(o)
  BY <1>3 DEF DomainsOK, Same
<1>5. DomainsOK'
  BY <1>3 DEF DomainsOK
<1>6. DOMAIN got = {Queries[j] : j \in 1 .. i}
  <2>1. names \cup {Queries[i]} = {Queries[j] : j \in 1 .. i}
    BY <1>1
  <2>. QED  BY <1>1, <1>2, <2>1
<1>7. ASSUME NEW q \in AllQueries \cap DOMAIN results'[r] PROVE ResultOK(r, q)'
  <2>1. CASE q = step[r]
    <3>1. results'[r][q] = result
      BY <1>4, <1>7, <2>1
    <3>2. CASE result = Failed
      BY <3>1, <3>2 DEF ResultOK
    <3>3. ASSUME NEW at \in [ScannedTables[step[r]] -> startedAt[r].rows .. stored],
                 result = QueryAt(step[r], at)
          PROVE  ResultOK(r, q)'
      <4>1. at \in [ScannedTables[q] -> startedAt'[r].rows .. stored']
        BY <1>3, <1>4, <2>1
      <4>2. QueryAt(q, at)' = QueryAt(q, at)
        BY QuerySame DEF WorldMoves
      <4>. QED  BY <2>1, <3>1, <3>3, <4>1, <4>2 DEF ResultOK
    <3>. QED  BY <3>2, <3>3
  <2>2. CASE q # step[r]
    <3>1. q \in DOMAIN results[r] /\ results'[r][q] = results[r][q]
      BY <1>4, <1>7, <2>2
    <3>2. ResultOK(r, q)
      BY <1>7, <3>1 DEF RequestOK
    <3>. QED  BY <1>4, <1>7, <3>1, <3>2, ResultKeeps
  <2>. QED  BY <2>1, <2>2
<1>8. RequestOK(r)'
  <2>1. next \in Steps
    BY QueryNames DEF Steps
  <2>2. next # "answered"
    BY QueryNames
  <2>3. \A k \in 1 .. 5 :
          next = Queries[k] => DOMAIN got = {Queries[j] : j \in 1 .. (k - 1)}
    <3>1. SUFFICES ASSUME NEW k \in 1 .. 5, next = Queries[k]
                   PROVE  DOMAIN got = {Queries[j] : j \in 1 .. (k - 1)}
      OBVIOUS
    <3>2. i # 5
      BY <3>1, QueryNames
    <3>3. k = i + 1
      <4>1. i + 1 \in 1 .. 5 /\ Queries[i + 1] = Queries[k]
        BY <3>1, <3>2
      <4>. QED  BY <4>1, QueryNames
    <3>. QED  BY <1>6, <3>3
  <2>4. next = "probe" => DOMAIN got = AllQueries
    <3>1. next = "probe" => i = 5
      BY QueryNames
    <3>. QED  BY <1>6, <3>1 DEF AllQueries
  <2>5. /\ generatedAt[r] \in 0 .. now
        /\ startedAt[r].rows \in 0 .. stored /\ startedAt[r].dlq \in 0 .. telemetry.topic
        /\ NothingSeen.moment \in 0 .. stored
    BY StreamFacts DEF RequestOK, NothingSeen, EnvironmentOK
  <2>. HIDE DEF got, next
  <2>. QED  BY <1>3, <1>4, <1>7, <2>1, <2>2, <2>3, <2>4, <2>5 DEF RequestOK
<1>9. ASSUME NEW g \in Gates, verdict'[g] = "pass"
      PROVE  verdict[g] = "pass" /\ g # r
  BY <1>1, <1>3, <1>9, QueryNames DEF GateOK
<1>10. \A o \in Requests \ {r} : Same(o)
  BY <1>4
<1>. QED  BY <1>5, <1>8, <1>9, <1>10, OwnStep

LEMMA WorldStands ==
    ASSUME EnvironmentOK, UNCHANGED envVars, UNCHANGED faults \/ Fault
    PROVE  EnvironmentOK' /\ WorldMoves
<1>1. /\ Len(stream) \in Nat /\ MaxTime \in Nat /\ MaxDlq \in Nat /\ MaxFaults \in Nat
  BY StreamFacts, DashboardAssumption DEF EnvironmentOK, DashboardAssumption
<1>. QED  BY <1>1 DEF EnvironmentOK, WorldMoves, envVars, Fault

LEMMA QuerySteps ==
    ASSUME DashboardOK, NEW r \in Requests,
           ScanFirst(r) \/ QueryReturns(r) \/ QueryFails(r) \/ QueryRaises(r)
    PROVE  DashboardOK'
<1> USE DEF DashboardOK
<1>1. Asking(r) /\ UNCHANGED envVars /\ (UNCHANGED faults \/ Fault)
  BY DEF ScanFirst, QueryReturns, QueryFails, QueryRaises, NextQuery
<1>2. EnvironmentOK' /\ WorldMoves
  BY <1>1, WorldStands
<1>3. PICK i \in 1 .. 5 : step[r] = Queries[i]
  BY <1>1, AskingAt
<1>4. ASSUME UNCHANGED verdict, NEW g \in Gates, verdict'[g] = "pass"
      PROVE  verdict[g] = "pass" /\ g # r
  BY <1>3, <1>4, QueryNames DEF GateOK
<1>5. CASE ScanFirst(r)
  <2>1. PICK t : seen' = [seen EXCEPT ![r] = [table |-> t, moment |-> stored]]
    BY <1>5 DEF ScanFirst
  <2>2. UNCHANGED <<step, generatedAt, results, snapshot, startedAt, page, verdict,
                    stream, stored, now, telemetry>>
    BY <1>5 DEF ScanFirst, envVars
  <2>3. seen'[r].moment = stored /\ \A o \in Requests \ {r} : Same(o)
    BY <2>1, <2>2 DEF DomainsOK, Same
  <2>4. DomainsOK'
    BY <2>1, <2>2 DEF DomainsOK
  <2>5. \A q \in AllQueries \cap DOMAIN results'[r] : ResultOK(r, q)'
    BY <1>2, <2>2, ResultKeeps DEF RequestOK
  <2>6. RequestOK(r)'
    <3>1. step'[r] # "answered"
      BY <1>3, <2>2, QueryNames
    <3>2. stored \in startedAt[r].rows .. stored /\ stored \in 0 .. stored
      BY StreamFacts DEF RequestOK, EnvironmentOK
    <3>. QED  BY <2>2, <2>3, <2>5, <3>1, <3>2 DEF RequestOK
  <2>. QED  BY <1>2, <1>4, <2>2, <2>3, <2>4, <2>6, OwnStep
<1>6. CASE QueryReturns(r)
  <2>1. NextQuery(r, QueryResult(r))
    BY <1>6 DEF QueryReturns
  <2>. QED  BY <1>1, <1>2, <2>1, ResultIsOfTheTime, NextQueryStep
<1>7. CASE QueryFails(r)
  <2>1. NextQuery(r, Failed)
    BY <1>7 DEF QueryFails
  <2>. QED  BY <1>1, <1>2, <2>1, NextQueryStep
<1>8. CASE QueryRaises(r)
  <2>1. /\ step' = [step EXCEPT ![r] = "broken"]
        /\ UNCHANGED <<seen, generatedAt, results, snapshot, startedAt, page, verdict,
                       stream, stored, now, telemetry>>
    BY <1>8 DEF QueryRaises, envVars
  <2>2. step'[r] = "broken" /\ \A o \in Requests \ {r} : Same(o)
    BY <2>1 DEF DomainsOK, Same
  <2>3. DomainsOK'
    BY <2>1 DEF DomainsOK
  <2>4. \A q \in AllQueries \cap DOMAIN results'[r] : ResultOK(r, q)'
    BY <1>2, <2>1, ResultKeeps DEF RequestOK
  <2>5. RequestOK(r)'
    BY <2>1, <2>2, <2>4, QueryNames DEF RequestOK, Steps
  <2>. QED  BY <1>2, <1>4, <2>1, <2>2, <2>3, <2>5, OwnStep
<1>. QED  BY <1>5, <1>6, <1>7, <1>8

LEMMA AnswerStep ==
    ASSUME DashboardOK, NEW r \in Requests, ProbeReturns(r) \/ ProbeFails(r)
    PROVE  DashboardOK'
<1> USE DEF DashboardOK
<1>1. UNCHANGED envVars /\ (UNCHANGED faults \/ Fault) /\ step[r] = "probe"
  BY DEF ProbeReturns, ProbeFails, AnswerWith
<1>2. EnvironmentOK' /\ WorldMoves
  BY <1>1, WorldStands
<1>3. PICK m \in [available : BOOLEAN, dlq : Nat, rejects : {0}] :
        AnswerWith(r, m) /\ (faults' = 0 => m.available /\ m.dlq >= startedAt[r].dlq)
  <2>1. CASE ProbeReturns(r)
    <3> DEFINE m == [available |-> TRUE, dlq |-> telemetry.counter, rejects |-> 0]
    <3>1. m \in [available : BOOLEAN, dlq : Nat, rejects : {0}]
      BY DEF EnvironmentOK
    <3>2. faults' = 0 => m.dlq >= startedAt[r].dlq
      BY <2>1 DEF ProbeReturns, EnvironmentOK, RequestOK
    <3>3. AnswerWith(r, m)
      BY <2>1 DEF ProbeReturns
    <3>. QED  BY <3>1, <3>2, <3>3
  <2>2. CASE ProbeFails(r)
    <3>1. faults' # 0
      BY <2>2 DEF ProbeFails, Fault, EnvironmentOK
    <3>2. AnswerWith(r, Unavailable)
      BY <2>2 DEF ProbeFails
    <3>. QED  BY <3>1, <3>2 DEF Unavailable
  <2>. QED  BY <2>1, <2>2
<1>4. /\ step' = [step EXCEPT ![r] = "answered"]
      /\ \E summary : snapshot' = [snapshot EXCEPT ![r] =
            [generatedAt |-> generatedAt[r], summary |-> summary,
             report |-> Report(generatedAt[r], results[r], m, Config)]]
      /\ UNCHANGED <<seen, generatedAt, results, startedAt, page, verdict,
                     stream, stored, now, telemetry>>
  BY <1>3 DEF AnswerWith, envVars
<1>5. /\ step'[r] = "answered" /\ \A o \in Requests \ {r} : Same(o)
      /\ snapshot'[r].generatedAt = generatedAt[r]
      /\ snapshot'[r].report = Report(generatedAt[r], results[r], m, Config)
  BY <1>4 DEF DomainsOK, Same
<1>6. DomainsOK'
  BY <1>4 DEF DomainsOK
<1>7. AnswerOK(r)'
  BY <1>3, <1>4, <1>5 DEF AnswerOK
<1>8. \A q \in AllQueries \cap DOMAIN results'[r] : ResultOK(r, q)'
  BY <1>2, <1>4, ResultKeeps DEF RequestOK
<1>9. RequestOK(r)'
  BY <1>1, <1>4, <1>5, <1>7, <1>8, QueryNames DEF RequestOK, Steps
<1>10. ASSUME NEW g \in Gates, verdict'[g] = "pass"
       PROVE  verdict[g] = "pass" /\ g # r
  BY <1>1, <1>4, <1>10 DEF GateOK
<1>. QED  BY <1>2, <1>5, <1>6, <1>9, <1>10, OwnStep

LEMMA StartStep ==
    ASSUME DashboardOK, NEW r \in Requests, LoadDashboard(r) \/ StartGate(r)
    PROVE  DashboardOK'
<1> USE DEF DashboardOK
<1>1. StartSnapshot(r) /\ UNCHANGED <<envVars, faults, snapshot, verdict>>
  BY DEF LoadDashboard, StartGate
<1>2. EnvironmentOK' /\ WorldMoves
  BY <1>1, WorldStands
<1>3. /\ step[r] = "idle" /\ step' = [step EXCEPT ![r] = Queries[1]]
      /\ generatedAt' = [generatedAt EXCEPT ![r] = now]
      /\ startedAt' = [startedAt EXCEPT ![r] = [rows |-> stored, dlq |-> telemetry.topic]]
      /\ results' = [results EXCEPT ![r] = NoResults]
      /\ seen' = [seen EXCEPT ![r] = NothingSeen]
      /\ UNCHANGED <<stream, stored, now, telemetry, faults, snapshot, verdict>>
  BY <1>1 DEF StartSnapshot, envVars
<1>4. /\ step'[r] = Queries[1] /\ generatedAt'[r] = now /\ startedAt'[r].rows = stored
      /\ startedAt'[r].dlq = telemetry.topic /\ DOMAIN results'[r] = {}
      /\ seen'[r] = NothingSeen
      /\ \A o \in Requests \ {r} : Same(o)
  BY <1>3 DEF DomainsOK, Same, NoResults
<1>5. page' = page \/ page' = [page EXCEPT !.status = "Loading"]
  BY DEF LoadDashboard, StartGate
<1>6. DomainsOK'
  BY <1>3, <1>5 DEF DomainsOK
<1>7. RequestOK(r)'
  <2>1. /\ stored \in Nat /\ now \in Nat /\ telemetry.topic \in Nat
    BY StreamFacts, DashboardAssumption DEF EnvironmentOK, DashboardAssumption
  <2>2. Queries[1] \in Steps /\ {Queries[j] : j \in 1 .. 0} = {}
    BY QueryNames DEF Steps
  <2>3. \A i \in 1 .. 5 :
          Queries[1] = Queries[i] => {} = {Queries[j] : j \in 1 .. (i - 1)}
    BY <2>2, QueryNames
  <2>4. Queries[1] # "probe" /\ Queries[1] # "answered"
    BY QueryNames
  <2>5. NothingSeen.moment = 0
    BY DEF NothingSeen
  <2>6. /\ generatedAt'[r] \in 0 .. now'
        /\ startedAt'[r].rows \in 0 .. stored' /\ startedAt'[r].dlq \in 0 .. telemetry'.topic
        /\ seen'[r].moment \in 0 .. stored'
    BY <1>3, <1>4, <2>1, <2>5
  <2>7. /\ step'[r] \in Steps /\ step'[r] \notin {"probe", "answered"}
        /\ \A i \in 1 .. 5 :
             step'[r] = Queries[i] => DOMAIN results'[r] = {Queries[j] : j \in 1 .. (i - 1)}
    BY <1>4, <2>2, <2>3, <2>4
  <2>. QED  BY <1>4, <2>6, <2>7 DEF RequestOK
<1>8. ASSUME NEW g \in Gates, verdict'[g] = "pass"
      PROVE  verdict[g] = "pass" /\ g # r
  BY <1>3, <1>8 DEF GateOK
<1>. QED  BY <1>2, <1>4, <1>6, <1>7, <1>8, OwnStep

LEMMA ReleaseStep ==
    ASSUME DashboardOK, NEW r \in Loads, Render(r) \/ RenderError(r)
    PROVE  DashboardOK'
<1> USE DEF DashboardOK
<1>1. Release(r) /\ UNCHANGED <<envVars, verdict>> /\ (UNCHANGED faults \/ Fault)
  BY DEF Render, RenderError
<1>2. EnvironmentOK' /\ WorldMoves
  BY <1>1, WorldStands
<1>3. r \in Requests /\ r \notin Gates
  BY DashboardAssumption DEF DashboardAssumption, Requests
<1>4. /\ step'[r] = "idle" /\ generatedAt'[r] = 0 /\ startedAt'[r] = NoStart
      /\ DOMAIN results'[r] = {} /\ seen'[r] = NothingSeen
      /\ \A o \in Requests \ {r} : Same(o)
  BY <1>1, <1>3 DEF Release, DomainsOK, Same, NoResults
<1>5. page'.status \in {"Live", "Unavailable"}
      /\ page' = [status |-> page'.status, chart |-> page'.chart, panels |-> page'.panels]
  <2>1. CASE Render(r)
    BY <2>1 DEF Render
  <2>2. CASE RenderError(r)
    <3>1. page' = [page EXCEPT !.status = "Unavailable", !.chart = NoAnswer]
      BY <2>2 DEF RenderError
    <3>. QED  BY <3>1 DEF DomainsOK
  <2>. QED  BY <2>1, <2>2
<1>6. DomainsOK'
  BY <1>1, <1>5 DEF Release, DomainsOK
<1>7. RequestOK(r)'
  <2>1. /\ stored' \in Nat /\ now' \in Nat /\ telemetry'.topic \in Nat
    BY <1>2, StreamFacts, DashboardAssumption
       DEF EnvironmentOK, DashboardAssumption, WorldMoves
  <2>2. "idle" \in Steps /\ \A i \in 1 .. 5 : Queries[i] # "idle"
    BY QueryNames DEF Steps
  <2>. QED  BY <1>4, <2>1, <2>2 DEF RequestOK, NothingSeen, NoStart
<1>8. ASSUME NEW g \in Gates, verdict'[g] = "pass"
      PROVE  verdict[g] = "pass" /\ g # r
  BY <1>1, <1>3, <1>8
<1>. QED  BY <1>2, <1>3, <1>4, <1>6, <1>7, <1>8, OwnStep

LEMMA EvaluateStep ==
    ASSUME DashboardOK, NEW g \in Gates, Evaluate(g)
    PROVE  DashboardOK'
<1> USE DEF DashboardOK
<1>1. /\ UNCHANGED <<envVars, generatedAt, seen, results, snapshot, startedAt, page>>
      /\ UNCHANGED faults \/ Fault
      /\ step' = [step EXCEPT ![g] = IF @ = "answered" THEN @ ELSE "broken"]
      /\ \E v \in {"pass", "fail"} : /\ verdict' = [verdict EXCEPT ![g] = v]
                                     /\ v = "pass" =>
                                          step[g] = "answered" /\ GatePasses(snapshot[g])
  BY DEF Evaluate
<1>2. EnvironmentOK' /\ WorldMoves
  BY <1>1, WorldStands
<1>3. g \in Requests
  BY DEF Requests
<1>4. \A o \in Requests \ {g} : Same(o)
  BY <1>1 DEF DomainsOK, Same
<1>5. DomainsOK'
  BY <1>1 DEF DomainsOK
<1>6. RequestOK(g)'
  <2>1. CASE step[g] = "answered"
    <3>1. Same(g)
      BY <1>1, <1>3, <2>1 DEF DomainsOK, Same
    <3>. QED  BY <1>2, <1>3, <3>1, RequestKeeps
  <2>2. CASE step[g] # "answered"
    <3>1. step'[g] = "broken"
      BY <1>1, <1>3, <2>2 DEF DomainsOK
    <3>2. \A q \in AllQueries \cap DOMAIN results'[g] : ResultOK(g, q)'
      BY <1>1, <1>2, <1>3, ResultKeeps DEF RequestOK
    <3>. QED  BY <1>1, <1>3, <3>1, <3>2, QueryNames DEF RequestOK, Steps, envVars
  <2>. QED  BY <2>1, <2>2
<1>7. ASSUME NEW h \in Gates, verdict'[h] = "pass"
      PROVE  /\ verdict[h] = "pass" \/ h = g
             /\ h = g => step'[h] = "answered" /\ snapshot'[h].report.overallStatus \in Accepted
  <2>1. CASE h # g
    BY <1>1, <1>7, <2>1 DEF DomainsOK
  <2>2. CASE h = g
    <3>1. step[g] = "answered" /\ GatePasses(snapshot[g])
      BY <1>1, <1>7, <2>2 DEF DomainsOK
    <3>. QED  BY <1>1, <1>3, <2>2, <3>1 DEF GatePasses, Accepted, DomainsOK
  <2>. QED  BY <2>1, <2>2
<1>. QED  BY <1>2, <1>3, <1>4, <1>5, <1>6, <1>7, OwnStep

LEMMA NextOK == ASSUME DashboardOK, [Next]_vars PROVE DashboardOK'
<1>1. CASE UNCHANGED vars
  <2>1. /\ UNCHANGED <<stream, stored, now, telemetry, faults, page, verdict>>
        /\ UNCHANGED <<step, generatedAt, seen, results, snapshot, startedAt>>
    BY <1>1 DEF vars, envVars, serverVars
  <2>2. EnvironmentOK' /\ WorldMoves
    BY <2>1, WorldStands DEF DashboardOK, envVars
  <2>3. ASSUME NEW r \in Requests PROVE RequestOK(r)'
    <3>1. Same(r)
      BY <2>1 DEF Same
    <3>. QED  BY <2>2, <3>1, RequestKeeps DEF DashboardOK
  <2>. QED  BY <2>1, <2>2, <2>3 DEF DashboardOK, DomainsOK, GateOK
<1>2. CASE WriteFact \/ Tick \/ PublishDlq \/ RestartTransformer
  BY <1>2, WorldStep
<1>3. ASSUME NEW r \in Requests,
             ScanFirst(r) \/ QueryReturns(r) \/ QueryFails(r) \/ QueryRaises(r)
      PROVE  DashboardOK'
  BY <1>3, QuerySteps
<1>4. ASSUME NEW r \in Requests, ProbeReturns(r) \/ ProbeFails(r) PROVE DashboardOK'
  BY <1>4, AnswerStep
<1>5. ASSUME NEW r \in Requests, LoadDashboard(r) \/ StartGate(r) PROVE DashboardOK'
  BY <1>5, StartStep
<1>6. ASSUME NEW r \in Loads, Render(r) \/ RenderError(r) PROVE DashboardOK'
  BY <1>6, ReleaseStep
<1>7. ASSUME NEW g \in Gates, Evaluate(g) PROVE DashboardOK'
  BY <1>7, EvaluateStep
<1>. QED  BY <1>1, <1>2, <1>3, <1>4, <1>5, <1>6, <1>7 DEF Next, Requests

LEMMA AlwaysOK == Spec => []DashboardOK
<1>. QED  BY InitOK, NextOK, PTL DEF Spec

\* Whatever is written, fails or restarts meanwhile, no request is answered before
\* it has a result for each of its five queries, and none of its figures is of a
\* time that has not come.
THEOREM TypesHold == Spec => []TypeOK
<1>1. DashboardOK => TypeOK
  <2> SUFFICES ASSUME DashboardOK PROVE TypeOK
    OBVIOUS
  <2> USE DEF DashboardOK
  <2>1. step \in [Requests -> Steps]
    BY DEF DomainsOK, RequestOK
  <2>2. stored \in Nat /\ now \in Nat /\ telemetry.topic \in 0 .. MaxDlq /\ MaxDlq \in Nat
    BY StreamFacts, DashboardAssumption DEF EnvironmentOK, DashboardAssumption
  <2>3. ASSUME NEW r \in Requests
        PROVE  /\ startedAt[r].rows <= stored /\ startedAt[r].dlq <= telemetry.topic
               /\ seen[r].moment <= stored /\ generatedAt[r] <= now
               /\ step[r] \in {"probe", "answered"} =>
                     DOMAIN results[r] = {Queries[i] : i \in 1 .. 5}
    BY <2>2, <2>3 DEF RequestOK, AllQueries
  <2>. QED  BY <2>1, <2>2, <2>3 DEF TypeOK, EnvironmentOK, DomainsOK
<1>. QED  BY <1>1, AlwaysOK, PTL

-----------------------------------------------------------------------------
(* What a report that passes tells *)

LEMMA PassedReport ==
    ASSUME NEW time, NEW got, NEW metrics, NEW config,
           Report(time, got, metrics, config).overallStatus = "pass"
    PROVE  /\ ~AnyQueryFailed(got)
           /\ ~BooksOff(got)
           /\ ~(FindingsIn(got, AmountFindings) > 0)
           /\ ~(FindingsIn(got, DimensionFindings) > 0)
           /\ ~(FindingsIn(got, EnumFindings) > 0)
           /\ ~OverThreshold(metrics, config)
           /\ Freshness(time, got, config) = "pass"
<1> DEFINE raw == RawChecks(time, got, metrics, config)
           checks == [c \in DOMAIN raw |-> Overridden(raw[c], c, config)]
<1>1. Overall(checks) = "pass"
  BY DEF Report
<1>2. \A c \in DOMAIN raw : checks[c] # "fail" /\ checks[c] # "warn"
  <2>. HIDE DEF raw
  <2>. QED  BY <1>1 DEF Overall
<1>3. \A c \in DOMAIN raw : raw[c] # "fail" /\ raw[c] # "warn"
  <2>. HIDE DEF raw
  <2>. QED  BY <1>2 DEF Overridden
<1>4. raw = RawChecks(time, got, metrics, config)
  OBVIOUS
<1>. HIDE DEF raw, checks
<1>5. /\ raw.dashboard_queries_ok # "fail" /\ raw.order_payment_reconciliation # "fail"
      /\ raw.serving_payment_amounts_valid # "fail"
      /\ raw.serving_required_dimensions_present # "fail"
      /\ raw.serving_enum_values_known # "fail" /\ raw.dlq_quarantine_thresholds # "fail"
      /\ raw.pipeline_event_freshness # "fail" /\ raw.pipeline_event_freshness # "warn"
  BY <1>3, <1>4 DEF RawChecks
<1>6. /\ FailIf(AnyQueryFailed(got)) # "fail" /\ FailIf(BooksOff(got)) # "fail"
      /\ FailIf(FindingsIn(got, AmountFindings) > 0) # "fail"
      /\ FailIf(FindingsIn(got, DimensionFindings) > 0) # "fail"
      /\ FailIf(FindingsIn(got, EnumFindings) > 0) # "fail"
      /\ FailIf(OverThreshold(metrics, config)) # "fail"
      /\ Freshness(time, got, config) \notin {"fail", "warn"}
  BY <1>4, <1>5 DEF RawChecks
<1>7. Freshness(time, got, config) \in {"warn", "fail", "pass"}
  BY DEF Freshness, FailIf
<1>. QED  BY <1>6, <1>7 DEF FailIf

-----------------------------------------------------------------------------
(* Defects *)

LEMMA RowsFinite ==
    ASSUME EnvironmentOK, NEW n \in 0 .. stored
    PROVE  IsFiniteSet(RowsAt(n))
<1> DEFINE X == {k \in Nat : IsFiniteSet(RowsAt(k))}
<1>1. 0 \in X
  BY FS_EmptySet DEF RowsAt
<1>2. ASSUME NEW k \in Nat, k \in X PROVE k + 1 \in X
  <2>1. RowsAt(k + 1) = RowsAt(k) \cup {stream[k + 1]}
    BY DEF RowsAt
  <2>. QED  BY <1>2, <2>1, FS_AddElement
<1>3. n \in Nat
  BY StreamFacts DEF EnvironmentOK
<1>. HIDE DEF X
<1>4. n \in X
  BY <1>1, <1>2, <1>3, CountingUp
<1>. QED  BY <1>4 DEF X

LEMMA RowFacts ==
    ASSUME EnvironmentOK, NEW n \in 0 .. stored, NEW row \in RowsAt(n)
    PROVE  /\ {"table", "order", "customer", "status", "amount", "day", "ts"} \subseteq DOMAIN row
           /\ row.table \in DOMAIN Mapping /\ row.amount \in Int /\ row.ts \in Int
           /\ row.table = "payments" => row.status # "refunded"
           /\ \E i \in 1 .. stored : row = stream[i]
           /\ \A m \in n .. stored : row \in RowsAt(m)
BY StreamFacts DEF EnvironmentOK, RowsAt

LEMMA Counted ==
    ASSUME NEW rows, IsFiniteSet(rows)
    PROVE  /\ Cardinality(rows) \in Nat
           /\ Cardinality(rows) > 0 <=> rows # {}
BY FS_CardinalityType, FS_EmptySet

FindingNames == AmountFindings \cup DimensionFindings \cup EnumFindings

LEMMA FindingsType ==
    ASSUME NEW rows, IsFiniteSet(rows)
    PROVE  /\ DOMAIN QualityFindings(rows) = FindingNames
           /\ \A f \in FindingNames : QualityFindings(rows)[f] \in Nat
<1>1. \A source, columns :
        /\ CountNull(RowsOf(rows, source), columns) \in Nat
        /\ CountUnknown(RowsOf(rows, source), columns) \in Nat
        /\ CountNegative(RowsOf(rows, source)) \in Nat
  BY Counted, FS_Subset DEF CountNull, CountUnknown, CountNegative, RowsOf
<1>. QED  BY <1>1 DEF QualityFindings, FindingNames, AmountFindings, DimensionFindings,
                     EnumFindings

LEMMA DefectIsFound ==
    ASSUME NEW rows, IsFiniteSet(rows), NEW row \in rows, Defective(row)
    PROVE  \E f \in FindingNames : QualityFindings(rows)[f] > 0
<1>1. IsFiniteSet({row})
  BY FS_Singleton
<1>2. PICK f \in FindingNames : QualityFindings({row})[f] > 0
  BY <1>1, FindingsType DEF Defective
<1>3. ASSUME NEW source, NEW columns
      PROVE  /\ CountNull(RowsOf({row}, source), columns) > 0
                    => CountNull(RowsOf(rows, source), columns) > 0
             /\ CountUnknown(RowsOf({row}, source), columns) > 0
                    => CountUnknown(RowsOf(rows, source), columns) > 0
             /\ CountNegative(RowsOf({row}, source)) > 0
                    => CountNegative(RowsOf(rows, source)) > 0
  <2> DEFINE null(s) == {r \in RowsOf(s, source) : \E c \in columns : IsNull(RowClass(r, c))}
             unknown(s) == {r \in RowsOf(s, source) : \E c \in columns :
                               \/ IsBlank(RowClass(r, c))
                               \/ Unlisted(RowClass(r, c), AuditedValues[c])}
             negative(s) == {r \in RowsOf(s, source) : RowClass(r, "amount_cents") = "negative"}
  <2>1. /\ null({row}) \subseteq null(rows) /\ unknown({row}) \subseteq unknown(rows)
        /\ negative({row}) \subseteq negative(rows)
    BY DEF RowsOf
  <2>2. /\ IsFiniteSet(null({row})) /\ IsFiniteSet(unknown({row})) /\ IsFiniteSet(negative({row}))
        /\ IsFiniteSet(null(rows)) /\ IsFiniteSet(unknown(rows)) /\ IsFiniteSet(negative(rows))
    BY <1>1, FS_Subset DEF RowsOf
  <2>3. /\ CountNull(RowsOf({row}, source), columns) = Cardinality(null({row}))
        /\ CountNull(RowsOf(rows, source), columns) = Cardinality(null(rows))
        /\ CountUnknown(RowsOf({row}, source), columns) = Cardinality(unknown({row}))
        /\ CountUnknown(RowsOf(rows, source), columns) = Cardinality(unknown(rows))
        /\ CountNegative(RowsOf({row}, source)) = Cardinality(negative({row}))
        /\ CountNegative(RowsOf(rows, source)) = Cardinality(negative(rows))
    BY DEF CountNull, CountUnknown, CountNegative
  <2>. HIDE DEF null, unknown, negative
  <2>. QED  BY <2>1, <2>2, <2>3, Counted
<1>4. QualityFindings(rows)[f] > 0
  BY <1>2, <1>3 DEF QualityFindings, FindingNames, AmountFindings, DimensionFindings,
                    EnumFindings
<1>. QED  BY <1>4

LEMMA NamesFinite ==
    /\ IsFiniteSet(AmountFindings) /\ IsFiniteSet(DimensionFindings) /\ IsFiniteSet(EnumFindings)
<1>1. \A x, y, z : IsFiniteSet({x, y, z})
  BY ThreesFinite
<1>2. \A u, v, w, x, y, z : IsFiniteSet({u, v, w} \cup {x, y, z})
  BY <1>1, FS_Union
<1>3. IsFiniteSet(DimensionFindings)
  <2>1. DimensionFindings =
           {"null_customer_dimensions", "null_product_dimensions", "null_order_dimensions"}
           \cup {"null_payment_dimensions", "null_support_dimensions",
                 "null_inventory_dimensions"}
    BY DEF DimensionFindings
  <2>. QED  BY <1>2, <2>1
<1>4. IsFiniteSet(EnumFindings)
  <2>1. EnumFindings =
           {"unknown_order_enums", "unknown_payment_enums", "unknown_refund_enums"}
           \cup {"unknown_support_enums", "unknown_inventory_enums", "unknown_order_enums"}
    BY DEF EnumFindings
  <2>. QED  BY <1>2, <2>1
<1>5. IsFiniteSet(AmountFindings)
  <2>1. AmountFindings = {"negative_payment_facts", "negative_refund_facts",
                          "negative_refund_facts"}
    BY DEF AmountFindings
  <2>. QED  BY <1>1, <2>1
<1>. QED  BY <1>3, <1>4, <1>5

\* What was there when the request started is there when the findings are counted.
LEMMA FindingsMissNothing ==
    ASSUME DashboardOK, NEW r \in Requests, step[r] = "answered",
           snapshot[r].report.overallStatus = "pass", NEW row \in RowsAt(startedAt[r].rows)
    PROVE  ~Defective(row)
<1> USE DEF DashboardOK
<1>1. SUFFICES ASSUME Defective(row) PROVE FALSE
  OBVIOUS
<1>2. PICK m : Report(generatedAt[r], results[r], m, Config).overallStatus = "pass"
  BY DEF RequestOK, AnswerOK
<1> DEFINE got == results[r]["findings"]
<1>3. "findings" \in AllQueries /\ AllQueries = DOMAIN results[r]
  BY QueryNames DEF RequestOK, AllQueries
<1>4. got # Failed
  BY <1>2, <1>3, PassedReport DEF AnyQueryFailed
<1>5. PICK at \in [ScannedTables["findings"] -> startedAt[r].rows .. stored] :
        got = QueryAt("findings", at)
  BY <1>3, <1>4 DEF RequestOK, ResultOK
<1> DEFINE rows == UNION {RowsOf(RowsAt(at[t]), t) : t \in DOMAIN Mapping}
<1>6. ScannedTables["findings"] = DOMAIN Mapping
  BY DEF ScannedTables
<1>7. got = QualityFindings(rows)
  BY <1>5, <1>6 DEF QueryAt
<1>8. startedAt[r].rows \in 0 .. stored /\ stored \in Nat
  BY StreamFacts DEF RequestOK, EnvironmentOK
<1>9. IsFiniteSet(rows)
  <2>1. rows \subseteq RowsAt(stored)
    <3>1. ASSUME NEW t \in DOMAIN Mapping PROVE RowsAt(at[t]) \subseteq RowsAt(stored)
      BY <1>6, <1>8, RowFacts
    <3>. QED  BY <3>1 DEF RowsOf
  <2>2. IsFiniteSet(RowsAt(stored))
    BY <1>8, RowsFinite
  <2>. QED  BY <2>1, <2>2, FS_Subset
<1>10. row \in rows
  <2>1. row.table \in DOMAIN Mapping /\ row \in RowsAt(at[row.table])
    BY <1>6, <1>8, RowFacts
  <2>. QED  BY <2>1 DEF RowsOf
<1>. HIDE DEF rows, got
<1>11. PICK f \in FindingNames : got[f] > 0
  BY <1>1, <1>7, <1>9, <1>10, DefectIsFound
<1>12. ASSUME NEW names, names \subseteq FindingNames, IsFiniteSet(names), f \in names
       PROVE  FindingsIn(results[r], names) > 0
  <2>1. \A n \in names : got[n] \in Nat
    BY <1>7, <1>9, <1>12, FindingsType
  <2>2. SumFunctionOnSet(got, names) > 0
    BY <1>11, <1>12, <2>1, PositiveSum
  <2>. QED  BY <1>4, <2>2 DEF FindingsIn, got
<1>. QED  BY <1>2, <1>11, <1>12, NamesFinite, PassedReport DEF FindingNames

\* With warnings not allowed, a gate that has passed proves that no row the audit
\* objects to was stored when it asked, and, if nothing failed, that the DLQ records
\* of that moment were within the threshold, whatever thresholds and overrides are
\* configured.
THEOREM DefectsStopTheGate ==
    ASSUME ~AllowWarnings PROVE Spec => []KnownDefectsStopTheGate
<1>1. DashboardOK => KnownDefectsStopTheGate
  <2> SUFFICES ASSUME DashboardOK, NEW g \in Gates, verdict[g] = "pass"
               PROVE  /\ \A row \in RowsAt(startedAt[g].rows) : ~Defective(row)
                      /\ faults = 0 => startedAt[g].dlq <= Config.dlqMax
    BY DEF KnownDefectsStopTheGate
  <2> USE DEF DashboardOK
  <2>1. /\ g \in Requests /\ step[g] = "answered"
        /\ snapshot[g].report.overallStatus = "pass"
    BY DEF GateOK, Accepted, Requests
  <2>2. \A row \in RowsAt(startedAt[g].rows) : ~Defective(row)
    BY <2>1, FindingsMissNothing
  <2>3. ASSUME faults = 0 PROVE startedAt[g].dlq <= Config.dlqMax
    <3>1. PICK m \in [available : BOOLEAN, dlq : Nat, rejects : {0}] :
            /\ Report(generatedAt[g], results[g], m, Config).overallStatus = "pass"
            /\ m.available /\ m.dlq >= startedAt[g].dlq
      BY <2>1, <2>3 DEF RequestOK, AnswerOK
    <3>2. ~(m.dlq > Config.dlqMax)
      BY <3>1, PassedReport DEF OverThreshold
    <3>3. startedAt[g].dlq \in Int /\ m.dlq \in Int
      BY <2>1, StreamFacts, DashboardAssumption DEF RequestOK, EnvironmentOK, DashboardAssumption
    <3>4. Config.dlqMax \in Int
      BY DashboardAssumption DEF Config, DashboardAssumption
    <3>. QED  BY <3>1, <3>2, <3>3, <3>4
  <2>. QED  BY <2>2, <2>3
<1>. QED  BY <1>1, AlwaysOK, PTL

-----------------------------------------------------------------------------
(* Freshness *)

StoredTimes == {stream[i].ts : i \in 1 .. stored}

LEMMA TimesFinite ==
    ASSUME EnvironmentOK PROVE IsFiniteSet(StoredTimes) /\ StoredTimes \subseteq Int
<1>1. stored \in Nat /\ StoredTimes \subseteq Int
  BY StreamFacts DEF EnvironmentOK, StoredTimes
<1> DEFINE f == [i \in 1 .. stored |-> stream[i].ts]
<1>2. f \in Surjection(1 .. stored, StoredTimes)
  BY DEF Surjection, StoredTimes
<1>3. IsFiniteSet(1 .. stored)
  BY <1>1, FS_Interval
<1>. HIDE DEF f
<1>. QED  BY <1>1, <1>2, <1>3, FS_Surjection

LEMMA LastIsOfARow ==
    ASSUME EnvironmentOK, NEW rows, rows # {}, \A r \in rows : r.ts \in StoredTimes
    PROVE  LastTs(rows) \in StoredTimes
<1>1. {r.ts : r \in rows} \subseteq StoredTimes /\ {r.ts : r \in rows} # {}
  OBVIOUS
<1>2. IsFiniteSet({r.ts : r \in rows}) /\ {r.ts : r \in rows} \subseteq Int
  BY <1>1, TimesFinite, FS_Subset
<1>. QED  BY <1>1, <1>2, MaxIsIn DEF LastTs

LEMMA CashRows ==
    ASSUME NEW lines, NEW payments, NEW row \in OrderToCash(lines, payments)
    PROVE  \E k \in {<<r.order, r.customer>> : r \in lines} :
             \E p \in Payers(payments, k[1]) :
               row = CashRow(k, p, OfOrder(lines, k[1], k[2]), OfOrder(payments, k[1], p))
<1> DEFINE J(k) == {CashRow(k, p, OfOrder(lines, k[1], k[2]), OfOrder(payments, k[1], p)) :
                         p \in Payers(payments, k[1])}
           K == {<<r.order, r.customer>> : r \in lines}
<1>1. OrderToCash(lines, payments) = UNION {J(k) : k \in K}
  BY DEF OrderToCash
<1>2. PICK k \in K : row \in J(k)
  <2>. HIDE DEF J, K
  <2>. QED  BY <1>1
<1>3. \E p \in Payers(payments, k[1]) :
        row = CashRow(k, p, OfOrder(lines, k[1], k[2]), OfOrder(payments, k[1], p))
  BY <1>2
<1>. QED  BY <1>2, <1>3

TimedQueries == {"revenue", "payments", "support", "orderCash"}

LEMMA ResultsAreOfRows ==
    ASSUME EnvironmentOK, NEW n \in 0 .. stored, NEW q \in TimedQueries,
           NEW at \in [ScannedTables[q] -> n .. stored], NEW row \in QueryAt(q, at)
    PROVE  row.last \in StoredTimes
<1> DEFINE From(t) == RowsOf(RowsAt(at[t]), t)
           rows == UNION {From(t) : t \in ScannedTables[q]}
<1>1. stored \in Nat
  BY StreamFacts DEF EnvironmentOK
<1>2. \A t \in ScannedTables[q] : \A r \in From(t) : r.ts \in StoredTimes /\ r.table = t
                                                   /\ "ts" \in DOMAIN r
  <2> SUFFICES ASSUME NEW t \in ScannedTables[q], NEW r \in From(t)
               PROVE  r.ts \in StoredTimes /\ r.table = t /\ "ts" \in DOMAIN r
    OBVIOUS
  <2>1. at[t] \in 0 .. stored /\ r \in RowsAt(at[t])
    BY <1>1 DEF RowsOf
  <2>. QED  BY <2>1, RowFacts DEF RowsOf, StoredTimes
<1>3. \A r \in rows : r.ts \in StoredTimes /\ "ts" \in DOMAIN r
  BY <1>2
<1>. HIDE DEF rows
<1>4. CASE q = "revenue"
  <2> DEFINE lines == RowsOf(rows, "order_items")
  <2>1. row \in RevenueByDay(rows)
    BY <1>4 DEF QueryAt, rows
  <2>2. PICK d \in {r.day : r \in lines} :
          row = [day |-> d, lines |-> Cardinality(OfDay(lines, d)),
                 units |-> Units(OfDay(lines, d)),
                 gross |-> InTenths(Cents(OfDay(lines, d))), last |-> LastTs(OfDay(lines, d))]
    BY <2>1 DEF RevenueByDay
  <2>3. row.last = LastTs(OfDay(lines, d))
    BY <2>2
  <2>4. OfDay(lines, d) # {} /\ \A r \in OfDay(lines, d) : r.ts \in StoredTimes
    BY <1>3 DEF RowsOf, OfDay
  <2>. QED  BY <2>3, <2>4, LastIsOfARow
<1>5. CASE q = "payments"
  <2> DEFINE all == PaymentActivity(rows)
  <2>1. PICK k \in DaysAndStatuses(all) : row.last = LastTs(OfDayAndStatus(all, k))
    BY <1>5 DEF QueryAt, rows, PaymentHealth
  <2>2. \A r \in all : r.ts \in StoredTimes
    BY <1>3 DEF RowsOf, PaymentActivity
  <2>. HIDE DEF all
  <2>3. OfDayAndStatus(all, k) # {} /\ \A r \in OfDayAndStatus(all, k) : r.ts \in StoredTimes
    BY <2>2 DEF OfDayAndStatus, DaysAndStatuses
  <2>. QED  BY <2>1, <2>3, LastIsOfARow
<1>6. CASE q = "support"
  <2> DEFINE tickets == RowsOf(rows, "support_tickets")
  <2>1. row \in SupportRisk(rows)
    BY <1>6 DEF QueryAt, rows
  <2>2. PICK k \in DaysAndStatuses(tickets) : row.last = LastTs(OfDayAndStatus(tickets, k))
    BY <2>1 DEF SupportRisk
  <2>3. /\ OfDayAndStatus(tickets, k) # {}
        /\ \A r \in OfDayAndStatus(tickets, k) : r.ts \in StoredTimes
    BY <1>3 DEF RowsOf, OfDayAndStatus, DaysAndStatuses
  <2>. QED  BY <2>2, <2>3, LastIsOfARow
<1>7. CASE q = "orderCash"
  <2> DEFINE lines == From("order_items")
             payments == From("payments")
  <2>1. row \in OrderToCash(lines, payments)
    BY <1>7 DEF QueryAt
  <2>2. \A r \in lines \cup payments : r.ts \in StoredTimes
    BY <1>2, <1>7 DEF ScannedTables
  <2>. HIDE DEF lines, payments
  <2>3. PICK k \in {<<r.order, r.customer>> : r \in lines} :
          \E p \in Payers(payments, k[1]) :
             row = CashRow(k, p, OfOrder(lines, k[1], k[2]), OfOrder(payments, k[1], p))
    BY <2>1, CashRows
  <2>4. PICK p : row = CashRow(k, p, OfOrder(lines, k[1], k[2]), OfOrder(payments, k[1], p))
    BY <2>3
  <2> DEFINE own == OfOrder(lines, k[1], k[2]) \cup OfOrder(payments, k[1], p)
  <2>5. own # {} /\ \A r \in own : r.ts \in StoredTimes
    BY <2>2 DEF OfOrder
  <2>6. row.last = LastTs(own)
    BY <2>4 DEF CashRow
  <2>. QED  BY <2>5, <2>6, LastIsOfARow
<1>. QED  BY <1>4, <1>5, <1>6, <1>7 DEF TimedQueries

LEMMA FreshnessFound ==
    ASSUME DashboardOK, NEW r \in Requests, step[r] = "answered",
           snapshot[r].report.overallStatus = "pass"
    PROVE  \E i \in 1 .. stored : generatedAt[r] - stream[i].ts <= Config.maxAge
<1> USE DEF DashboardOK
<1> DEFINE got == results[r]
           times == EventTimes(got)
<1>1. PICK m : Report(generatedAt[r], got, m, Config).overallStatus = "pass"
  BY DEF RequestOK, AnswerOK
<1>2. ~AnyQueryFailed(got) /\ Freshness(generatedAt[r], got, Config) = "pass"
  BY <1>1, PassedReport
<1>3. times # {} /\ ~(generatedAt[r] - Max(times) > Config.maxAge)
  BY <1>2 DEF Freshness, FailIf
<1>4. times \subseteq StoredTimes
  <2> SUFFICES ASSUME NEW q \in TimedQueries, NEW row \in ValidRows(got[q])
               PROVE  row.last \in StoredTimes
    BY DEF EventTimes, TimedQueries
  <2>1. q \in AllQueries /\ AllQueries = DOMAIN got
    BY QueryNames DEF RequestOK, AllQueries, TimedQueries
  <2>2. got[q] # Failed
    BY <1>2, <2>1 DEF AnyQueryFailed
  <2>3. PICK at \in [ScannedTables[q] -> startedAt[r].rows .. stored] : got[q] = QueryAt(q, at)
    BY <2>1, <2>2 DEF RequestOK, ResultOK
  <2>4. row \in QueryAt(q, at) /\ startedAt[r].rows \in 0 .. stored
    BY <2>2, <2>3 DEF ValidRows, RequestOK
  <2>. QED  BY <2>3, <2>4, ResultsAreOfRows
<1>. HIDE DEF times
<1>5. IsFiniteSet(times) /\ times \subseteq Int
  BY <1>4, TimesFinite, FS_Subset
<1>6. Max(times) \in StoredTimes /\ Max(times) \in Int
  BY <1>3, <1>4, <1>5, MaxIsIn
<1>7. generatedAt[r] \in Int /\ Config.maxAge \in Int
  BY DashboardAssumption
     DEF RequestOK, EnvironmentOK, DashboardAssumption, Config, DefaultMaxEventAge
<1>8. generatedAt[r] - Max(times) <= Config.maxAge
  BY <1>3, <1>6, <1>7
<1>. QED  BY <1>6, <1>8 DEF StoredTimes

\* With warnings not allowed, whenever a gate passes some stored event is no older
\* than the freshness window and the permitted age of a snapshot together, although
\* the snapshot was begun, and its datasets were read, at other moments.
THEOREM PassesAreFresh ==
    ASSUME ~AllowWarnings PROVE Spec => PassMeansFresh
<1> DEFINE Fresh == \A g \in Gates : verdict[g] # verdict'[g] /\ verdict'[g] = "pass" =>
               \E i \in 1 .. stored : now - stream[i].ts <= Config.maxAge + MaxSnapshotAge
<1>1. DashboardOK /\ [Next]_vars => [Fresh]_vars
  <2> SUFFICES ASSUME DashboardOK, Next, NEW g \in Gates,
                      verdict[g] # verdict'[g], verdict'[g] = "pass"
               PROVE  \E i \in 1 .. stored :
                         now - stream[i].ts <= Config.maxAge + MaxSnapshotAge
    OBVIOUS
  <2> USE DEF DashboardOK
  <2>1. PICK h \in Gates : Evaluate(h)
    BY DEF Next, WriteFact, Tick, PublishDlq, RestartTransformer, ScanFirst, QueryReturns,
           QueryFails, QueryRaises, NextQuery, ProbeReturns, ProbeFails, AnswerWith,
           LoadDashboard, Render, RenderError, StartGate
  <2>2. step[g] = "answered" /\ GatePasses(snapshot[g])
    BY <2>1 DEF Evaluate, DomainsOK
  <2>3. g \in Requests
    BY DEF Requests
  <2>4. /\ snapshot[g].report.overallStatus = "pass"
        /\ now - generatedAt[g] <= MaxSnapshotAge
    BY <2>2, <2>3 DEF GatePasses, RequestOK, AnswerOK
  <2>5. PICK i \in 1 .. stored : generatedAt[g] - stream[i].ts <= Config.maxAge
    BY <2>2, <2>3, <2>4, FreshnessFound
  <2>6. /\ generatedAt[g] \in Int /\ now \in Int /\ Config.maxAge \in Int
        /\ MaxSnapshotAge \in Int /\ stream[i].ts \in Int
    BY <2>3, StreamFacts, DashboardAssumption
       DEF RequestOK, EnvironmentOK, DashboardAssumption, Config, DefaultMaxEventAge
  <2>7. now - stream[i].ts <= Config.maxAge + MaxSnapshotAge
    BY <2>4, <2>5, <2>6
  <2>. QED  BY <2>7
<1>. QED  BY <1>1, AlwaysOK, PTL DEF Spec, PassMeansFresh

-----------------------------------------------------------------------------
(* The books of an order *)

LEMMA RowsOfOneCustomer ==
    ASSUME OneCustomerPerOrder, EnvironmentOK, NEW n \in 0 .. stored,
           NEW x \in RowsAt(n), NEW y \in RowsAt(stored),
           x.table \in {"order_items", "payments"}, y.table \in {"order_items", "payments"},
           x.order = y.order
    PROVE  x.customer = y.customer
<1>1. stored \in 0 .. Len(stream) /\ Len(stream) \in Nat /\ stream \in Streams
  BY StreamFacts DEF EnvironmentOK
<1>2. PICK i \in 1 .. n : x = stream[i]
  BY DEF RowsAt
<1>3. PICK j \in 1 .. stored : y = stream[j]
  BY DEF RowsAt
<1>4. i \in 1 .. Len(stream) /\ j \in 1 .. Len(stream)
  BY <1>1, <1>2, <1>3
<1>. QED  BY <1>1, <1>2, <1>3, <1>4 DEF OneCustomerPerOrder

LEMMA CentsType ==
    ASSUME NEW rows, IsFiniteSet(rows), \A x \in rows : x.amount \in Int
    PROVE  Cents(rows) \in Int /\ Captured(rows) \in Int
<1>1. \A s : IsFiniteSet(s) /\ (\A x \in s : x.amount \in Int) => Cents(s) \in Int
  <2> TAKE s
  <2> HAVE IsFiniteSet(s) /\ \A x \in s : x.amount \in Int
  <2> DEFINE f == [x \in s |-> x.amount]
  <2>1. \A x \in s : f[x] \in Int
    OBVIOUS
  <2>2. DOMAIN f = s
    OBVIOUS
  <2>. HIDE DEF f
  <2>3. SumFunctionOnSet(f, s) \in Int
    BY <2>1, SumType
  <2>. QED  BY <2>2, <2>3 DEF f, Cents, SumFunction
<1>2. IsFiniteSet(WithStatus(rows, "captured"))
  BY FS_Subset DEF WithStatus
<1>. QED  BY <1>1, <1>2 DEF Captured, WithStatus

LEMMA CashRowIsThere ==
    ASSUME NEW lines, NEW payments, NEW x \in lines, NEW p \in Payers(payments, x.order)
    PROVE  CashRow(<<x.order, x.customer>>, p, OfOrder(lines, x.order, x.customer),
                   OfOrder(payments, x.order, p)) \in OrderToCash(lines, payments)
<1> DEFINE J(k) == {CashRow(k, q, OfOrder(lines, k[1], k[2]), OfOrder(payments, k[1], q)) :
                       q \in Payers(payments, k[1])}
           K == {<<r.order, r.customer>> : r \in lines}
           k == <<x.order, x.customer>>
<1>1. OrderToCash(lines, payments) = UNION {J(j) : j \in K}
  BY DEF OrderToCash
<1>2. k \in K /\ k[1] = x.order /\ k[2] = x.customer
  OBVIOUS
<1>3. CashRow(k, p, OfOrder(lines, k[1], k[2]), OfOrder(payments, k[1], p)) \in J(k)
  BY <1>2
<1>. HIDE DEF J, K, k
<1>4. CashRow(k, p, OfOrder(lines, k[1], k[2]), OfOrder(payments, k[1], p))
        \in OrderToCash(lines, payments)
  BY <1>1, <1>2, <1>3
<1>. QED  BY <1>2, <1>4 DEF k

\* While an order is not touched every query sees it as it is now.
LEMMA OrderStands ==
    ASSUME EnvironmentOK, NEW n \in 0 .. stored, NEW m \in n .. stored, NEW o,
           OrderRows(o, RowsAt(n)) = OrderRows(o, RowsAt(stored))
    PROVE  OrderRows(o, RowsAt(m)) = OrderRows(o, RowsAt(n))
<1>1. stored \in Nat
  BY StreamFacts DEF EnvironmentOK
<1>2. RowsAt(n) \subseteq RowsAt(m) /\ RowsAt(m) \subseteq RowsAt(stored)
  BY <1>1 DEF RowsAt
<1>. QED  BY <1>2 DEF OrderRows

LEMMA OverpaidRow ==
    ASSUME OneCustomerPerOrder, EnvironmentOK, NEW n \in 0 .. stored,
           NEW at \in [ScannedTables["orderCash"] -> n .. stored], NEW o,
           OrderRows(o, RowsAt(n)) = OrderRows(o, RowsAt(stored)),
           Overpayment(o, RowsAt(n)) >= 5
    PROVE  \E row \in QueryAt("orderCash", at) : row.open < 0
<1> DEFINE lines == RowsOf(RowsAt(at["order_items"]), "order_items")
           payments == RowsOf(RowsAt(at["payments"]), "payments")
           own == OrderRows(o, RowsAt(n))
           ordered == RowsOf(own, "order_items")
           paid == RowsOf(own, "payments")
<1>1. QueryAt("orderCash", at) = OrderToCash(lines, payments)
  BY DEF QueryAt
<1>2. at["order_items"] \in n .. stored /\ at["payments"] \in n .. stored /\ stored \in Nat
  BY StreamFacts DEF ScannedTables, EnvironmentOK
<1>3. /\ {x \in lines : x.order = o} = ordered
      /\ {x \in payments : x.order = o} = paid
  <2>1. OrderRows(o, RowsAt(at["order_items"])) = own
    BY <1>2, OrderStands
  <2>2. OrderRows(o, RowsAt(at["payments"])) = own
    BY <1>2, OrderStands
  <2>. QED  BY <2>1, <2>2 DEF OrderRows, RowsOf
<1>4. ordered # {} /\ Captured(paid) - Cents(ordered) >= 5
  BY DEF Overpayment
<1>5. PICK x \in ordered : TRUE
  BY <1>4
<1>6. \A y \in ordered \cup paid : y.order = o /\ y.customer = x.customer
  <2>1. \A y \in ordered \cup paid :
          /\ y \in RowsAt(n) /\ y \in RowsAt(stored) /\ y.order = o
          /\ y.table \in {"order_items", "payments"}
    BY <1>2, RowFacts DEF RowsOf, OrderRows
  <2>. QED  BY <1>5, <2>1, RowsOfOneCustomer
<1>. HIDE DEF own
<1>7. x \in lines /\ x.order = o
  BY <1>3, <1>5
<1>. HIDE DEF ordered, paid, lines, payments
<1>8. OfOrder(lines, o, x.customer) = ordered
  BY <1>3, <1>6 DEF OfOrder
<1>9. PICK p \in Payers(payments, o) : OfOrder(payments, o, p) = paid
  <2>1. CASE paid = {}
    BY <1>3, <2>1 DEF Payers, OfOrder
  <2>2. CASE paid # {}
    <3>1. Payers(payments, o) = {x.customer}
      BY <1>3, <1>6, <2>2 DEF Payers
    <3>2. OfOrder(payments, o, x.customer) = paid
      BY <1>3, <1>6 DEF OfOrder
    <3>. QED  BY <3>1, <3>2
  <2>. QED  BY <2>1, <2>2
<1> DEFINE row == CashRow(<<o, x.customer>>, p, ordered, paid)
<1>10. row \in QueryAt("orderCash", at)
  BY <1>1, <1>7, <1>8, <1>9, CashRowIsThere
<1>11. Cents(ordered) \in Int /\ Captured(paid) \in Int
  <2>1. ordered \subseteq RowsAt(n) /\ paid \subseteq RowsAt(n)
    BY DEF ordered, paid, own, RowsOf, OrderRows
  <2>2. IsFiniteSet(ordered) /\ IsFiniteSet(paid)
    BY <2>1, RowsFinite, FS_Subset
  <2>3. \A y \in ordered \cup paid : y.amount \in Int
    BY <2>1, RowFacts
  <2>. QED  BY <2>2, <2>3, CentsType
<1>12. row.open = InTenths(Cents(ordered) - Captured(paid))
  BY DEF CashRow
<1>13. row.open < 0
  BY <1>4, <1>11, <1>12 DEF InTenths
<1>. QED  BY <1>10, <1>13

\* If an order and its payments name the same customer, an order overpaid by five
\* cents or more before a snapshot begins is in its report, whatever else is written
\* between the scans, whichever query fails and whatever is overridden, unless the
\* order itself changes meanwhile.
THEOREM OverpaymentsAreReported ==
    ASSUME OneCustomerPerOrder PROVE Spec => []OverpaidOrdersReported
<1>1. DashboardOK => OverpaidOrdersReported
  <2> SUFFICES ASSUME DashboardOK, NEW r \in Requests, step[r] = "answered",
                      NEW o \in Orders, Untouched(o, r),
                      Overpayment(o, RowsAt(startedAt[r].rows)) >= 5,
                      snapshot[r].report.overallStatus = "pass"
               PROVE  FALSE
    BY DEF OverpaidOrdersReported
  <2> USE DEF DashboardOK
  <2>1. PICK m : Report(generatedAt[r], results[r], m, Config).overallStatus = "pass"
    BY DEF RequestOK, AnswerOK
  <2>2. ~AnyQueryFailed(results[r]) /\ ~BooksOff(results[r])
    BY <2>1, PassedReport
  <2>3. "orderCash" \in AllQueries /\ AllQueries = DOMAIN results[r]
    BY QueryNames DEF RequestOK, AllQueries
  <2>4. results[r]["orderCash"] # Failed
    BY <2>2, <2>3 DEF AnyQueryFailed
  <2>5. PICK at \in [ScannedTables["orderCash"] -> startedAt[r].rows .. stored] :
          results[r]["orderCash"] = QueryAt("orderCash", at)
    BY <2>3, <2>4 DEF RequestOK, ResultOK
  <2>6. \E row \in QueryAt("orderCash", at) : row.open < 0
    BY OverpaidRow DEF RequestOK, Untouched
  <2>. QED  BY <2>2, <2>4, <2>5, <2>6 DEF BooksOff, ValidRows
<1>. QED  BY <1>1, AlwaysOK, PTL

-----------------------------------------------------------------------------
(* Sums of cents and of rounded tenths *)

LEMMA ImageFinite ==
    ASSUME NEW g, NEW S, IsFiniteSet(S) PROVE IsFiniteSet({g[x] : x \in S})
<1> DEFINE f == [x \in S |-> g[x]]
<1>1. f \in Surjection(S, {g[x] : x \in S})
  BY DEF Surjection
<1>. HIDE DEF f
<1>. QED  BY <1>1, FS_Surjection

\* The cents of rows, as a sum over a larger set's amounts.
LEMMA CentsWithin ==
    ASSUME NEW S, NEW rows \in SUBSET S, IsFiniteSet(rows)
    PROVE  Cents(rows) = SumFunctionOnSet([r \in S |-> r.amount], rows)
<1> DEFINE f == [r \in rows |-> r.amount]
           g == [r \in S |-> r.amount]
<1>1. DOMAIN f = rows /\ \A r \in rows : f[r] = g[r]
  OBVIOUS
<1>2. Cents(rows) = SumFunction(f)
  BY DEF Cents
<1>. HIDE DEF f, g
<1>3. SumFunctionOnSet(f, rows) = SumFunctionOnSet(g, rows)
  BY <1>1, SumOfEqual
<1>4. Cents(rows) = SumFunctionOnSet(g, rows)
  BY <1>1, <1>2, <1>3 DEF SumFunction
<1>. QED  BY <1>4 DEF g

WholeTenths(rows) ==
    IsFiniteSet(rows) /\ \A r \in rows : r.amount \in Int /\ r.amount % 10 = 0

TenthsIn(rows) == SumFunctionOnSet([r \in rows |-> r.amount \div 10], rows)

LEMMA TenthsAreExact ==
    ASSUME NEW rows, WholeTenths(rows)
    PROVE  /\ TenthsIn(rows) \in Int
           /\ Cents(rows) = 10 * TenthsIn(rows)
           /\ InTenths(Cents(rows)) = TenthsIn(rows)
<1> DEFINE f == [r \in rows |-> r.amount]
           g == [r \in rows |-> r.amount \div 10]
<1>1. \A r \in rows : g[r] \in Int /\ f[r] = 10 * g[r]
  <2> TAKE r \in rows
  <2>1. r.amount \in Int /\ r.amount % 10 = 0
    BY DEF WholeTenths
  <2>. QED  BY <2>1
<1>2. IsFiniteSet(rows)
  BY DEF WholeTenths
<1>3. Cents(rows) = SumFunctionOnSet(f, rows)
  BY <1>2, CentsWithin
<1>4. TenthsIn(rows) = SumFunctionOnSet(g, rows)
  BY DEF TenthsIn
<1>. HIDE DEF f, g
<1>5. SumFunctionOnSet(f, rows) = 10 * SumFunctionOnSet(g, rows)
  <2>1. 10 \in Int
    OBVIOUS
  <2>. QED  BY <1>1, <1>2, <2>1, SumOfMultiples
<1>6. SumFunctionOnSet(g, rows) \in Int
  BY <1>1, <1>2, SumType
<1>7. ASSUME NEW n \in Int PROVE InTenths(10 * n) = n
  BY DEF InTenths
<1>. QED  BY <1>3, <1>4, <1>5, <1>6, <1>7

\* A result has one line per group of rows, with the group's cents in tenths as
\* its h.
Groups(rows, key, K, group, line, found, h) ==
    /\ WholeTenths(rows) /\ IsFiniteSet(K)
    /\ \A x \in rows : key[x] \in K
    /\ \A k \in K : group[k] = {x \in rows : key[x] = k}
    /\ found = {line[k] : k \in K}
    /\ \A j, k \in K : line[j] = line[k] => j = k
    /\ \A k \in K : h[line[k]] = InTenths(Cents(group[k]))

\* Such a result loses no cent.
LEMMA GroupsAddUp ==
    ASSUME NEW rows, NEW key, NEW K, NEW group, NEW line, NEW found, NEW h,
           Groups(rows, key, K, group, line, found, h)
    PROVE  /\ SumFunctionOnSet(h, found) \in Int
           /\ 10 * SumFunctionOnSet(h, found) = Cents(rows)
<1>. USE DEF Groups
<1> DEFINE g == [r \in rows |-> r.amount \div 10]
           Group(k) == {x \in rows : key[x] = k}
           sums == [k \in K |-> SumFunctionOnSet(g, {x \in rows : key[x] = k})]
           parts == [k \in K |-> h[line[k]]]
<1>1. IsFiniteSet(rows) /\ \A r \in rows : g[r] \in Int
  BY DEF WholeTenths
<1>2. ASSUME NEW k \in K PROVE parts[k] = sums[k] /\ sums[k] \in Int
  <2>1. Group(k) \subseteq rows /\ WholeTenths(Group(k)) /\ group[k] = Group(k)
    BY FS_Subset DEF WholeTenths
  <2>2. parts[k] = InTenths(Cents(Group(k))) /\ sums[k] = SumFunctionOnSet(g, Group(k))
    OBVIOUS
  <2> DEFINE own == [r \in Group(k) |-> r.amount \div 10]
  <2>3. \A r \in Group(k) : own[r] = g[r]
    OBVIOUS
  <2>4. TenthsIn(Group(k)) = SumFunctionOnSet(own, Group(k))
    BY DEF TenthsIn
  <2>. HIDE DEF Group, g, own, parts, sums
  <2>5. SumFunctionOnSet(own, Group(k)) = SumFunctionOnSet(g, Group(k))
    BY <2>1, <2>3, SumOfEqual DEF WholeTenths
  <2>. QED  BY <2>1, <2>2, <2>4, <2>5, TenthsAreExact
<1>3. \A k \in K : parts[k] = h[line[k]] /\ h[line[k]] \in Int
  BY <1>2
<1>4. SumFunctionOnSet(h, {line[k] : k \in K}) = SumFunctionOnSet(parts, K)
  <2>. HIDE DEF parts, sums
  <2>1. \A k \in K : h[line[k]] \in Int
    BY <1>3
  <2>2. SumFunctionOnSet(h, {line[k] : k \in K})
          = SumFunctionOnSet([k \in K |-> h[line[k]]], K)
    BY <2>1, SumOverImage
  <2>. QED  BY <2>2 DEF parts
<1>5. SumFunctionOnSet(parts, K) = SumFunctionOnSet(sums, K)
  <2>. HIDE DEF parts, sums
  <2>. QED  BY <1>2, SumOfEqual
<1>6. SumFunctionOnSet(sums, K) = SumFunctionOnSet(g, rows)
  <2>. HIDE DEF g
  <2>. QED  BY <1>1, SumByGroups
<1>7. TenthsIn(rows) = SumFunctionOnSet(g, rows)
  BY DEF TenthsIn
<1>. HIDE DEF g, sums, parts
<1>. QED  BY <1>4, <1>5, <1>6, <1>7, TenthsAreExact

-----------------------------------------------------------------------------
(* Sound books *)

\* A failed query's one row is [{"error": ...}], which no dataset has a row like.
FailedIsNoResult == \E row \in Failed : "last" \notin DOMAIN row

LEMMA RevenueAddsUp ==
    ASSUME NEW lines, WholeTenths(lines), RowsOf(lines, "order_items") = lines
    PROVE  /\ SumFunction([r \in RevenueByDay(lines) |-> r.gross]) \in Int
           /\ 10 * SumFunction([r \in RevenueByDay(lines) |-> r.gross]) = Cents(lines)
           /\ \A r \in RevenueByDay(lines) : "last" \in DOMAIN r
<1> DEFINE key == [r \in lines |-> r.day]
           K == {r.day : r \in lines}
           group == [d \in K |-> OfDay(lines, d)]
           line == [d \in K |->
                      [day |-> d, lines |-> Cardinality(OfDay(lines, d)),
                       units |-> Units(OfDay(lines, d)),
                       gross |-> InTenths(Cents(OfDay(lines, d))),
                       last |-> LastTs(OfDay(lines, d))]]
           revenue == {line[d] : d \in K}
           h == [r \in revenue |-> r.gross]
<1>1. RevenueByDay(lines) = revenue
  BY DEF RevenueByDay
<1>2. K = {key[r] : r \in lines} /\ \A r \in lines : key[r] \in K
  OBVIOUS
<1>3. IsFiniteSet(K)
  <2>. HIDE DEF K, key
  <2>. QED  BY <1>2, ImageFinite DEF WholeTenths
<1>4. \A d \in K : group[d] = OfDay(lines, d)
  OBVIOUS
<1>13. \A d \in K : group[d] = {x \in lines : key[x] = d}
  BY DEF OfDay
<1>5. \A d \in K : line[d].gross = InTenths(Cents(OfDay(lines, d))) /\ line[d].day = d
                   /\ "last" \in DOMAIN line[d]
  OBVIOUS
<1>6. \A d \in K : h[line[d]] = line[d].gross
  OBVIOUS
<1>7. DOMAIN h = revenue /\ [r \in RevenueByDay(lines) |-> r.gross] = h
  BY <1>1
<1>14. revenue = {line[d] : d \in K}
  OBVIOUS
<1>. HIDE DEF K, key, line, group, h, revenue
<1>8. \A d \in K : h[line[d]] = InTenths(Cents(group[d]))
  BY <1>4, <1>5, <1>6
<1>9. \A c, d \in K : line[c] = line[d] => c = d
  BY <1>5
<1>10. SumFunctionOnSet(h, revenue) \in Int /\ 10 * SumFunctionOnSet(h, revenue) = Cents(lines)
  <2>1. Groups(lines, key, K, group, line, revenue, h)
    BY <1>2, <1>3, <1>8, <1>9, <1>13, <1>14 DEF Groups
  <2>. QED  BY <2>1, GroupsAddUp
<1>11. \A r \in revenue : "last" \in DOMAIN r
  BY <1>5, <1>14
<1>12. SumFunction(h) = SumFunctionOnSet(h, revenue)
  BY <1>7 DEF SumFunction
<1>. QED  BY <1>1, <1>7, <1>10, <1>11, <1>12

HealthRow(activity, k) ==
    [day |-> k[1], status |-> k[2], count |-> Cardinality(OfDayAndStatus(activity, k)),
     amount |-> InTenths(Cents(OfDayAndStatus(activity, k))),
     last |-> LastTs(OfDayAndStatus(activity, k))]

LEMMA PaymentsAddUp ==
    ASSUME NEW rows, WholeTenths(PaymentActivity(rows)), NEW s
    PROVE  LET found == WithStatus(PaymentHealth(rows), s)
           IN  /\ SumFunction([r \in found |-> r.amount]) \in Int
               /\ 10 * SumFunction([r \in found |-> r.amount])
                    = Cents(WithStatus(PaymentActivity(rows), s))
<1> DEFINE activity == PaymentActivity(rows)
           own == WithStatus(activity, s)
           key == [r \in own |-> <<r.day, r.status>>]
           K == {<<r.day, r.status>> : r \in own}
           group == [k \in K |-> OfDayAndStatus(activity, k)]
           line == [k \in K |-> HealthRow(activity, k)]
           found == WithStatus(PaymentHealth(rows), s)
           h == [r \in found |-> r.amount]
<1>1. PaymentHealth(rows) = {HealthRow(activity, k) : k \in DaysAndStatuses(activity)}
  BY DEF PaymentHealth, HealthRow
<1>2. \A k : HealthRow(activity, k).status = k[2] /\ HealthRow(activity, k).day = k[1]
             /\ HealthRow(activity, k).amount = InTenths(Cents(OfDayAndStatus(activity, k)))
  BY DEF HealthRow
<1>. HIDE DEF activity
<1>3. K = {k \in DaysAndStatuses(activity) : k[2] = s}
  BY DEF WithStatus, DaysAndStatuses
<1>4. found = {line[k] : k \in K}
  <2>. HIDE DEF K
  <2>1. \A k \in K : line[k] = HealthRow(activity, k)
    OBVIOUS
  <2>. HIDE DEF line
  <2>. QED  BY <1>1, <1>2, <1>3, <2>1 DEF WithStatus
<1>5. K = {key[r] : r \in own} /\ \A r \in own : key[r] \in K
  OBVIOUS
<1>6. WholeTenths(own)
  BY FS_Subset DEF WholeTenths, WithStatus, activity
<1>7. IsFiniteSet(K)
  <2>. HIDE DEF K, key, own
  <2>. QED  BY <1>5, <1>6, ImageFinite DEF WholeTenths
<1>8. \A k \in K : group[k] = {x \in own : key[x] = k}
  BY DEF OfDayAndStatus, WithStatus
<1>9. \A k \in K : /\ line[k].amount = InTenths(Cents(group[k]))
                   /\ line[k].day = k[1] /\ line[k].status = k[2] /\ k = <<k[1], k[2]>>
  BY <1>2
<1>10. \A k \in K : h[line[k]] = line[k].amount
  <2>. HIDE DEF K, line, found
  <2>. QED  BY <1>4
<1>11. DOMAIN h = found
  OBVIOUS
<1>. HIDE DEF K, key, line, group, h, own, found
<1>12. \A k \in K : h[line[k]] = InTenths(Cents(group[k]))
  BY <1>9, <1>10
<1>13. \A j, k \in K : line[j] = line[k] => j = k
  BY <1>9
<1>14. SumFunctionOnSet(h, found) \in Int /\ 10 * SumFunctionOnSet(h, found) = Cents(own)
  <2>1. Groups(own, key, K, group, line, found, h)
    BY <1>4, <1>5, <1>6, <1>7, <1>8, <1>12, <1>13 DEF Groups
  <2>. QED  BY <2>1, GroupsAddUp
<1>15. SumFunction(h) = SumFunctionOnSet(h, found)
  BY <1>11 DEF SumFunction
<1>16. SumFunction(h) \in Int /\ 10 * SumFunction(h) = Cents(own)
  BY <1>14, <1>15
<1>. QED  BY <1>16 DEF h, found, own, activity

Positive(rows) == IsFiniteSet(rows) /\ \A x \in rows : x.amount \in Nat

LEMMA PositiveParts ==
    ASSUME NEW rows, Positive(rows), NEW part \in SUBSET rows
    PROVE  Positive(part) /\ Cents(part) \in Nat /\ Cents(part) <= Cents(rows)
<1> DEFINE f == [r \in rows |-> r.amount]
           none == [r \in rows |-> 0]
<1>1. IsFiniteSet(rows) /\ IsFiniteSet(part) /\ \A x \in rows : f[x] \in Nat
  BY FS_Subset DEF Positive
<1>2. Cents(part) = SumFunctionOnSet(f, part) /\ Cents(rows) = SumFunctionOnSet(f, rows)
  BY <1>1, CentsWithin
<1>3. \A x \in rows : none[x] = 0 /\ none[x] \in Int
  OBVIOUS
<1>. HIDE DEF f, none
<1>4. SumFunctionOnSet(f, part) <= SumFunctionOnSet(f, rows)
  BY <1>1, SumOfPart
<1>5. SumFunctionOnSet(none, part) = 0
  BY <1>1, <1>3, SumOfZeros
<1>6. SumFunctionOnSet(none, part) <= SumFunctionOnSet(f, part)
  BY <1>1, <1>3, SumOfAtMost
<1>7. SumFunctionOnSet(f, part) \in Int
  BY <1>1, SumType
<1>8. SumFunctionOnSet(f, part) \in Nat
  BY <1>5, <1>6, <1>7
<1>. QED  BY <1>1, <1>2, <1>4, <1>8 DEF Positive

\* What was paid for orders adds up to what is captured, and what was ordered in
\* them to no more than all that was ordered.
LEMMA NoOrderOverpaid ==
    ASSUME NEW lines, Positive(lines), NEW payments, Positive(payments),
           \A p \in payments : Captured({r \in payments : r.order = p.order})
                                  <= Cents({r \in lines : r.order = p.order})
    PROVE  Captured(payments) <= Cents(lines)
<1> DEFINE K == {p.order : p \in payments}
           paid == WithStatus(payments, "captured")
           ordered == {r \in lines : r.order \in K}
           f == [r \in lines \cup payments |-> r.amount]
           key == [r \in lines \cup payments |-> r.order]
           paidFor == [o \in K |-> SumFunctionOnSet(f, {r \in paid : key[r] = o})]
           orderedFor == [o \in K |-> SumFunctionOnSet(f, {r \in ordered : key[r] = o})]
<1>1. /\ paid \subseteq payments /\ ordered \subseteq lines
      /\ IsFiniteSet(paid) /\ IsFiniteSet(ordered)
      /\ \A r \in lines \cup payments : f[r] \in Nat
  BY FS_Subset DEF WithStatus, Positive
<1>2. IsFiniteSet(K)
  <2> DEFINE g == [p \in payments |-> p.order]
  <2>1. K = {g[p] : p \in payments}
    OBVIOUS
  <2>. HIDE DEF K, g
  <2>. QED  BY <2>1, ImageFinite DEF Positive
<1>3. ASSUME NEW o \in K
      PROVE  paidFor[o] \in Int /\ orderedFor[o] \in Int /\ paidFor[o] <= orderedFor[o]
  <2>1. PICK p \in payments : p.order = o
    OBVIOUS
  <2> DEFINE own == {r \in paid : key[r] = o}
             ofOrder == {r \in ordered : key[r] = o}
  <2>2. own = WithStatus({r \in payments : r.order = o}, "captured")
    BY DEF WithStatus
  <2>3. ofOrder = {r \in lines : r.order = o}
    OBVIOUS
  <2>4. paidFor[o] = SumFunctionOnSet(f, own) /\ orderedFor[o] = SumFunctionOnSet(f, ofOrder)
    OBVIOUS
  <2>5. own \in SUBSET payments /\ ofOrder \in SUBSET lines
    BY <1>1
  <2>. HIDE DEF paid, ordered, key, paidFor, orderedFor, own, ofOrder
  <2>6. Cents(own) \in Nat /\ Cents(ofOrder) \in Nat /\ IsFiniteSet(own) /\ IsFiniteSet(ofOrder)
    BY <2>5, PositiveParts DEF Positive
  <2>7. own \in SUBSET (lines \cup payments) /\ ofOrder \in SUBSET (lines \cup payments)
    BY <2>5
  <2>8. Cents(own) = SumFunctionOnSet(f, own) /\ Cents(ofOrder) = SumFunctionOnSet(f, ofOrder)
    BY <2>6, <2>7, CentsWithin
  <2>9. Cents(own) <= Cents(ofOrder)
    BY <2>1, <2>2, <2>3 DEF Captured
  <2>. QED  BY <2>4, <2>6, <2>8, <2>9
<1>4. (\A r \in paid : key[r] \in K) /\ (\A r \in ordered : key[r] \in K)
  BY DEF WithStatus
<1>5. \A r \in lines \cup payments : f[r] \in Int
  <2>. HIDE DEF f
  <2>. QED  BY <1>1
<1>6. Captured(payments) = SumFunctionOnSet(f, paid)
  <2>1. paid \in SUBSET (lines \cup payments)
    BY <1>1
  <2>. QED  BY <1>1, <2>1, CentsWithin DEF Captured
<1>7. Cents(ordered) = SumFunctionOnSet(f, ordered) /\ Cents(ordered) <= Cents(lines)
  <2>1. ordered \in SUBSET (lines \cup payments)
    BY <1>1
  <2>2. Cents(ordered) = SumFunctionOnSet(f, ordered)
    BY <1>1, <2>1, CentsWithin
  <2>. HIDE DEF ordered
  <2>. QED  BY <1>1, <2>2, PositiveParts
<1>. HIDE DEF K, f, key, paid, ordered
<1>8. SumFunctionOnSet(paidFor, K) = SumFunctionOnSet(f, paid)
  BY <1>1, <1>2, <1>4, <1>5, SumByGroups
<1>9. SumFunctionOnSet(orderedFor, K) = SumFunctionOnSet(f, ordered)
  BY <1>1, <1>2, <1>4, <1>5, SumByGroups
<1>. HIDE DEF paidFor, orderedFor
<1>10. SumFunctionOnSet(paidFor, K) <= SumFunctionOnSet(orderedFor, K)
  BY <1>2, <1>3, SumOfAtMost
<1>11. Captured(payments) \in Int /\ Cents(ordered) \in Int /\ Cents(lines) \in Int
  BY <1>1, PositiveParts DEF Captured, paid
<1>. QED  BY <1>6, <1>7, <1>8, <1>9, <1>10, <1>11

LEMMA SoundRows ==
    ASSUME EnvironmentOK, SoundBooks(RowsAt(stored)), NEW rows \in SUBSET RowsAt(stored)
    PROVE  Positive(rows) /\ WholeTenths(rows)
<1>1. stored \in 0 .. stored
  BY StreamFacts DEF EnvironmentOK
<1>2. IsFiniteSet(rows)
  BY <1>1, RowsFinite, FS_Subset
<1>3. \A x \in rows : x.amount \in Int
  BY <1>1, RowFacts
<1>4. \A x \in rows : x.amount >= 0 /\ x.amount % 10 = 0
  BY DEF SoundBooks
<1>. QED  BY <1>2, <1>3, <1>4 DEF Positive, WholeTenths

Lines == RowsOf(RowsAt(stored), "order_items")
Payments == RowsOf(RowsAt(stored), "payments")
Refunds == RowsOf(RowsAt(stored), "refunds")

\* The rest of the definition, by name.
LEMMA SoundOrders ==
    ASSUME SoundBooks(RowsAt(stored))
    PROVE  /\ \A p \in Payments : Captured({r \in Payments : r.order = p.order})
                                    <= Cents({r \in Lines : r.order = p.order})
           /\ Cents(Refunds) <= Captured(Payments)
BY DEF SoundBooks, Lines, Payments, Refunds

LEMMA NothingOpenBelowZero ==
    ASSUME OneCustomerPerOrder, EnvironmentOK, SoundBooks(RowsAt(stored)),
           NEW row \in OrderToCash(Lines, Payments)
    PROVE  row.open \in Nat
<1>1. PICK k \in {<<r.order, r.customer>> : r \in Lines} :
        \E p \in Payers(Payments, k[1]) :
          row = CashRow(k, p, OfOrder(Lines, k[1], k[2]), OfOrder(Payments, k[1], p))
  BY CashRows
<1>2. PICK p \in Payers(Payments, k[1]) :
        row = CashRow(k, p, OfOrder(Lines, k[1], k[2]), OfOrder(Payments, k[1], p))
  BY <1>1
<1>3. PICK x \in Lines : k[1] = x.order /\ k[2] = x.customer
  BY <1>1
<1>4. stored \in 0 .. stored
  BY StreamFacts DEF EnvironmentOK
<1>5. \A y \in Lines \cup Payments :
        /\ y \in RowsAt(stored) /\ y.table \in {"order_items", "payments"}
        /\ y.order = x.order => y.customer = x.customer
  <2>1. \A y \in Lines \cup Payments :
          y \in RowsAt(stored) /\ y.table \in {"order_items", "payments"}
    BY DEF Lines, Payments, RowsOf
  <2>. QED  BY <1>4, <2>1, RowsOfOneCustomer
<1> DEFINE ordered == OfOrder(Lines, k[1], k[2])
           paid == OfOrder(Payments, k[1], p)
<1>6. ordered = {r \in Lines : r.order = x.order}
  BY <1>3, <1>5 DEF OfOrder
<1>7. ordered \subseteq RowsAt(stored) /\ paid \subseteq RowsAt(stored)
      /\ WithStatus(paid, "captured") \subseteq RowsAt(stored)
  BY <1>5 DEF OfOrder, WithStatus
<1>8. row.open = InTenths(Cents(ordered) - Captured(paid))
  BY <1>2 DEF CashRow
<1>. HIDE DEF ordered
<1>9. Cents(ordered) \in Nat /\ Captured(paid) \in Nat
  BY <1>7, SoundRows, PositiveParts DEF Captured
<1>10. Captured(paid) <= Cents(ordered)
  <2>1. CASE \E q \in Payments : q.order = x.order
    <3>1. PICK q \in Payments : q.order = x.order
      BY <2>1
    <3>2. paid = {r \in Payments : r.order = q.order}
      BY <1>2, <1>3, <1>5, <3>1 DEF Payers, OfOrder
    <3>. HIDE DEF paid
    <3>. QED  BY <1>6, <3>1, <3>2, SoundOrders
  <2>2. CASE ~\E q \in Payments : q.order = x.order
    <3>1. WithStatus(paid, "captured") = {}
      BY <1>3, <2>2 DEF OfOrder, WithStatus
    <3>2. {} \in SUBSET {} /\ IsFiniteSet({})
      BY FS_EmptySet
    <3>3. Cents({}) = 0
      BY <3>2, CentsWithin, SumOfNothing
    <3>. QED  BY <1>9, <3>1, <3>3 DEF Captured
  <2>. QED  BY <2>1, <2>2
<1>11. InTenths(Cents(ordered) - Captured(paid)) \in Nat
  <2>. HIDE DEF paid
  <2>. QED  BY <1>9, <1>10 DEF InTenths
<1>. QED  BY <1>8, <1>11

\* A refund counts with its amount taken away, and is told from other refunds.
LEMMA RefundsAsActivity ==
    ASSUME EnvironmentOK, SoundBooks(RowsAt(stored))
    PROVE  LET activity == PaymentActivity(RowsAt(stored))
           IN  /\ WholeTenths(activity)
               /\ Cents(WithStatus(activity, "captured")) = Captured(Payments)
               /\ Cents(WithStatus(activity, "refunded")) = -Cents(Refunds)
<1> DEFINE activity == PaymentActivity(RowsAt(stored))
           taken == [r \in Refunds |-> [r EXCEPT !.status = "refunded", !.amount = -r.amount]]
           back == {taken[r] : r \in Refunds}
           h == [r \in back |-> r.amount]
           f == [r \in Refunds |-> r.amount]
           g == [r \in Refunds |-> h[taken[r]]]
<1>1. stored \in 0 .. stored
  BY StreamFacts DEF EnvironmentOK
<1>2. /\ Payments \subseteq RowsAt(stored) /\ Refunds \subseteq RowsAt(stored)
      /\ \A r \in Payments : r.status # "refunded"
      /\ \A r \in Refunds : /\ r.status = "none" /\ r = [c \in DOMAIN r |-> r[c]]
                            /\ {"status", "amount"} \subseteq DOMAIN r
                            /\ r.amount \in Nat /\ r.amount % 10 = 0
  <2>1. Payments \subseteq RowsAt(stored) /\ Refunds \subseteq RowsAt(stored)
    BY DEF Payments, Refunds, RowsOf
  <2>2. Positive(Refunds) /\ WholeTenths(Refunds)
    BY <2>1, SoundRows
  <2>3. \A r \in RowsAt(stored) :
          /\ r = [c \in DOMAIN r |-> r[c]]
          /\ r.table = "refunds" => r.status = "none"
    <3> TAKE r \in RowsAt(stored)
    <3>2. PICK i \in 1 .. stored : r = stream[i]
      BY DEF RowsAt
    <3>3. i \in 1 .. Len(stream) /\ stream \in Streams
      BY <3>2, StreamFacts DEF EnvironmentOK
    <3>4. /\ stream[i] = [c \in DOMAIN stream[i] |-> stream[i][c]]
          /\ stream[i].table = "refunds" => stream[i].status = "none"
      BY <3>3, StreamRecords
    <3>. QED  BY <3>2, <3>4
  <2>. QED  BY <1>1, <2>1, <2>2, <2>3, RowFacts
            DEF Payments, Refunds, RowsOf, Positive, WholeTenths
<1>3. activity = Payments \cup back
  BY DEF PaymentActivity, Payments, Refunds
<1>4. \A r \in Refunds : /\ taken[r].status = "refunded" /\ taken[r].amount = -r.amount
                         /\ DOMAIN taken[r] = DOMAIN r
                         /\ \A c \in DOMAIN r \ {"status", "amount"} : taken[r][c] = r[c]
  BY <1>2
<1>5. \A r, s \in Refunds : taken[r] = taken[s] => r = s
  <2> SUFFICES ASSUME NEW r \in Refunds, NEW s \in Refunds, taken[r] = taken[s]
               PROVE  r = s
    OBVIOUS
  <2>. HIDE DEF taken
  <2>1. DOMAIN r = DOMAIN s
    BY <1>4
  <2>2. r.amount = s.amount
    BY <1>2, <1>4
  <2>3. \A c \in DOMAIN r : r[c] = s[c]
    BY <1>2, <1>4, <2>1, <2>2
  <2>. QED  BY <1>2, <2>1, <2>3
<1>6. \A r \in Refunds : g[r] = -r.amount /\ h[taken[r]] = -r.amount /\ f[r] = r.amount
  <2>. HIDE DEF taken
  <2>. QED  BY <1>4
<1>7. \A r \in back : /\ r.status = "refunded" /\ r.amount \in Int /\ r.amount % 10 = 0
                      /\ h[r] = r.amount
  <2>. HIDE DEF taken
  <2>. QED  BY <1>2, <1>4
<1>8. IsFiniteSet(Payments) /\ IsFiniteSet(Refunds)
  BY <1>2, SoundRows DEF Positive
<1>. HIDE DEF taken
<1>9. IsFiniteSet(back)
  BY <1>8, ImageFinite
<1>10. SumFunctionOnSet(h, back) = SumFunctionOnSet(g, Refunds)
  <2>1. \A r \in Refunds : h[taken[r]] \in Int
    BY <1>2, <1>6
  <2>. HIDE DEF h
  <2>. QED  BY <1>5, <1>8, <2>1, SumOverImage
<1>11. Cents(Refunds) = SumFunctionOnSet(f, Refunds)
  BY <1>8, CentsWithin
<1>12. Cents(back) = SumFunctionOnSet(h, back)
  <2>. HIDE DEF back
  <2>. QED  BY <1>9, CentsWithin
<1>13. SumFunctionOnSet(g, Refunds) = (-1) * SumFunctionOnSet(f, Refunds)
  <2>. HIDE DEF g, f
  <2>1. \A r \in Refunds : f[r] \in Int /\ g[r] = (-1) * f[r]
    <3>1. \A n \in Nat : n \in Int /\ -n = (-1) * n
      OBVIOUS
    <3>. QED  BY <1>2, <1>6, <3>1
  <2>2. -1 \in Int
    OBVIOUS
  <2>. QED  BY <1>8, <2>1, <2>2, SumOfMultiples
<1>14. Cents(Refunds) \in Nat
  BY <1>2, SoundRows, PositiveParts
<1>. HIDE DEF h, f, g, back
<1>15. Cents(back) = -Cents(Refunds)
  BY <1>10, <1>11, <1>12, <1>13, <1>14
<1>16. WholeTenths(activity)
  <2>1. IsFiniteSet(activity)
    BY <1>3, <1>8, <1>9, FS_Union
  <2>2. WholeTenths(Payments)
    BY <1>2, SoundRows
  <2>. QED  BY <1>3, <1>7, <2>1, <2>2 DEF WholeTenths
<1>17. /\ WithStatus(activity, "captured") = WithStatus(Payments, "captured")
       /\ WithStatus(activity, "refunded") = back
  BY <1>2, <1>3, <1>7 DEF WithStatus
<1>. QED  BY <1>15, <1>16, <1>17 DEF Captured

\* If orders and their payments name the same customer, the report on books that are
\* sound, in whole tenths, finds nothing wrong with them: no cent is lost between
\* the rows, the groups the queries sum up and the totals the report compares.
THEOREM SoundBooksAlwaysPass ==
    ASSUME OneCustomerPerOrder, FailedIsNoResult PROVE Spec => []SoundBooksPass
<1>1. ASSUME EnvironmentOK, SoundBooks(RowsAt(stored))
      PROVE  ~BooksOff(ResultsAt(stored))
  <2> DEFINE got == ResultsAt(stored)
             all == RowsAt(stored)
  <2>1. /\ got["revenue"] = RevenueByDay(Lines) /\ got["payments"] = PaymentHealth(all)
        /\ got["orderCash"] = OrderToCash(Lines, Payments)
    <3>1. /\ {"revenue", "payments", "orderCash"} \subseteq {Queries[i] : i \in 1 .. 5}
          /\ \A q \in {Queries[i] : i \in 1 .. 5} :
               got[q] = QueryAt(q, [t \in ScannedTables[q] |-> stored])
      BY QueryNames DEF ResultsAt
    <3>2. QueryAt("revenue", [t \in ScannedTables["revenue"] |-> stored])
             = RevenueByDay(Lines)
      BY DEF QueryAt, ScannedTables, Lines
    <3>3. QueryAt("payments", [t \in ScannedTables["payments"] |-> stored])
             = PaymentHealth(Payments \cup Refunds)
      BY DEF QueryAt, ScannedTables, Payments, Refunds
    <3>4. PaymentHealth(Payments \cup Refunds) = PaymentHealth(all)
      BY DEF PaymentHealth, PaymentActivity, RowsOf, Payments, Refunds
    <3>5. QueryAt("orderCash", [t \in ScannedTables["orderCash"] |-> stored])
             = OrderToCash(Lines, Payments)
      BY DEF QueryAt, ScannedTables, Lines, Payments
    <3>. QED  BY <3>1, <3>2, <3>3, <3>4, <3>5
  <2>2. /\ Lines \subseteq all /\ Payments \subseteq all /\ Refunds \subseteq all
        /\ RowsOf(Lines, "order_items") = Lines
    BY DEF Lines, Payments, Refunds, RowsOf
  <2>3. /\ Positive(Lines) /\ Positive(Payments) /\ Positive(Refunds)
        /\ WholeTenths(Lines)
    BY <1>1, <2>2, SoundRows
  <2>4. /\ Captured(Payments) \in Int /\ Captured(Payments) <= Cents(Lines)
        /\ Cents(Refunds) \in Nat /\ Cents(Refunds) <= Captured(Payments)
    <3>1. Captured(Payments) <= Cents(Lines) /\ Cents(Refunds) <= Captured(Payments)
      BY <1>1, <2>3, SoundOrders, NoOrderOverpaid
    <3>2. WithStatus(Payments, "captured") \in SUBSET Payments /\ Refunds \in SUBSET Refunds
      BY DEF WithStatus
    <3>. QED  BY <2>3, <3>1, <3>2, PositiveParts DEF Captured
  <2> DEFINE gross == SumFunction([r \in RevenueByDay(Lines) |-> r.gross])
             Amount(s) == SumFunction([r \in WithStatus(PaymentHealth(all), s) |-> r.amount])
  <2>5. /\ gross \in Int /\ 10 * gross = Cents(Lines)
        /\ \A r \in RevenueByDay(Lines) : "last" \in DOMAIN r
    BY <2>2, <2>3, RevenueAddsUp
  <2>6. /\ Amount("captured") \in Int /\ 10 * Amount("captured") = Captured(Payments)
        /\ Amount("refunded") \in Int /\ 10 * Amount("refunded") = -Cents(Refunds)
    BY <1>1, RefundsAsActivity, PaymentsAddUp
  <2>7. ValidRows(got["revenue"]) = RevenueByDay(Lines)
    BY <2>1, <2>5 DEF ValidRows, FailedIsNoResult
  <2>8. ValidRows(got["payments"]) = PaymentHealth(all)
    <3>1. \A r \in PaymentHealth(all) : "last" \in DOMAIN r
      BY DEF PaymentHealth
    <3>. QED  BY <2>1, <3>1 DEF ValidRows, FailedIsNoResult
  <2>9. \A r \in ValidRows(got["orderCash"]) : r.open \in Nat
    BY <1>1, <2>1, NothingOpenBelowZero DEF ValidRows
  <2>10. /\ SumOf(got.revenue, "gross") = gross
         /\ AmountOf(got, "captured") = Amount("captured")
         /\ AmountOf(got, "refunded") = Amount("refunded")
    BY <2>7, <2>8 DEF SumOf, AmountOf
  <2>. HIDE DEF gross, Amount, got
  <2>11. NetCaptured(got) = Amount("captured") + Amount("refunded")
    BY <2>4, <2>6, <2>10 DEF NetCaptured, Magnitude
  <2>12. gross >= 0 /\ NetCaptured(got) >= 0 /\ NetCaptured(got) <= gross
    BY <2>4, <2>5, <2>6, <2>11
  <2>. QED  BY <2>5, <2>6, <2>9, <2>10, <2>11, <2>12 DEF BooksOff, got
<1>2. DashboardOK => SoundBooksPass
  BY <1>1 DEF DashboardOK, SoundBooksPass
<1>. QED  BY <1>2, AlwaysOK, PTL
=============================================================================
