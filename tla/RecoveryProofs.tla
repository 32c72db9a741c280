--------------------------- MODULE RecoveryProofs ---------------------------
(***************************************************************************)
(* What a recovery run that ends with 0 is worth, for any facts, command   *)
(* lines, failing commands and writes of the transformer in between.       *)
(***************************************************************************)
EXTENDS Recovery, FiniteSetTheorems, SequenceTheorems, TLAPS

Reported == report \in Reports /\ report.new /\ report.status = "passed"

\* Up to the second listing there is no snapshot, and the gate is at its default.
Untouched ==
    pc \in {"args", "capture", "list", "relist"} => snapshot = "none" /\ gate = "skipped"

\* A clean snapshot was taken of what the second listing began with, and more.
SnapshotFits ==
    /\ relisted \subseteq stored
    /\ snapshot = "clean" => relisted \cap BadFacts = {}

\* The gate's status is about the snapshot, and "skipped" only when it was.
GateFits ==
    /\ gate = "passed" => snapshot = "clean"
    /\ pc \in {"report", "exit"} => (gate = "skipped" <=> options.skipDashboard)
    /\ gate \in {"skipped", "unavailable", "passed", "failed"}

\* What is counted can be counted.
Countable == IsFiniteSet(stored) /\ IsFiniteSet(before) /\ IsFiniteSet(after)

\* The report of this run is the last thing but the status.
ReportFits ==
    /\ report \in Reports \cup {None}
    /\ pc \notin {"exit", "done"} => report \in {None, EarlierReport}
    /\ pc = "exit" => /\ report \in Reports /\ report.new
                      /\ (report.status = "passed" <=> after = {} /\ gate \in {"passed", "skipped"})

\* What the end says of what was before it.
EndFits ==
    /\ pc # "done" => exit = None
    /\ pc = "done" /\ ~options.dryRun =>
        /\ exit = 0 <=> Reported
        /\ exit = 0 /\ ~options.skipDashboard => gate = "passed"

IInv == Untouched /\ SnapshotFits /\ GateFits /\ Countable /\ ReportFits /\ EndFits

LEMMA EarlierIsOld == EarlierReport \in Reports /\ ~EarlierReport.new
BY DEF EarlierReport, Reports

\* A query lists finitely many lines.
LEMMA LinesFinite ==
    ASSUME IsFiniteSet(stored), NEW q
    PROVE  IsFiniteSet(Lines(q))
<1>1. ASSUME NEW t, NEW rows PROVE IsFiniteSet(Frame(t, rows))
  <2> DEFINE Line(l) == [table |-> t, line |-> l]
             Count == [table |-> t, line |-> "count", rows |-> Cardinality(rows)]
  <2>1. {Line(l) : l \in {"names", "ruler"}} = {Line("names")} \cup {Line("ruler")}
    OBVIOUS
  <2>2. IsFiniteSet({Line("names")} \cup {Line("ruler")})
    <3> HIDE DEF Line
    <3>1. IsFiniteSet({Line("names")})
      BY FS_Singleton
    <3>. QED  BY <3>1, FS_AddElement
  <2>3. IsFiniteSet({Line(l) : l \in {"names", "ruler"}} \cup {Count})
    <3> HIDE DEF Line, Count
    <3>. QED  BY <2>1, <2>2, FS_AddElement
  <2>. QED  BY <2>3 DEF Frame
<1>2. ASSUME NEW t, NEW p PROVE IsFiniteSet(PrefixLines(t, p))
  <2> DEFINE rows == {f \in stored : f.table = t}
             lines == {f \in rows : p \in f.prefixes}
             frame == {l \in Frame(t, rows) : l.line = "names" /\ p \in NamePrefixes}
  <2>1. IsFiniteSet(lines)
    BY FS_Subset
  <2>2. IsFiniteSet(frame)
    BY <1>1, FS_Subset
  <2>3. IsFiniteSet(lines \cup frame)
    BY <2>1, <2>2, FS_Union
  <2>. QED  BY <2>3 DEF PrefixLines
<1>3. ASSUME NEW t, NEW p PROVE IsFiniteSet(PositionLines(t, p))
  <2> DEFINE rows == {f \in stored : f.table = t /\ f.position = p}
             frame == {l \in Frame(t, rows) :
                          /\ t \in {"fact_inventory_movement_by_product",
                                    "fact_support_case_by_customer"}
                          /\ l.line \in {"ruler", "count"}}
  <2>1. IsFiniteSet(rows)
    BY FS_Subset
  <2>2. IsFiniteSet(frame)
    BY <1>1, FS_Subset
  <2>3. IsFiniteSet(rows \cup frame)
    BY <2>1, <2>2, FS_Union
  <2>. QED  BY <2>3 DEF PositionLines
<1>4. IsFiniteSet({})
  BY FS_EmptySet
<1>. QED  BY <1>2, <1>3, <1>4 DEF Lines

\* A command that fails ends the run without a report of its own.
LEMMA DyingKeeps ==
    ASSUME IInv, pc \notin {"exit", "done"}, Dies, UNCHANGED options
    PROVE  IInv'
<1>1. ~Reported'
  BY RecoveryAssumption, EarlierIsOld DEF IInv, ReportFits, Dies, Reported
<1>2. pc' = "done" /\ exit' = 1
  BY DEF Dies, Ends
<1>3. EndFits'
  BY <1>1, <1>2 DEF EndFits, Reported
<1>4. Untouched' /\ SnapshotFits' /\ GateFits' /\ ReportFits'
  BY <1>2 DEF IInv, Untouched, SnapshotFits, GateFits, ReportFits, Dies
<1>5. Countable'
  BY DEF IInv, Countable, Dies
<1>. QED  BY <1>3, <1>4, <1>5 DEF IInv

LEMMA InitHolds == Init => IInv
<1> SUFFICES ASSUME Init PROVE IInv
  OBVIOUS
<1>1. Countable
  BY RecoveryAssumption, FS_Subset, FS_EmptySet DEF Init, Countable
<1>. QED
  BY <1>1, EarlierIsOld DEF Init, IInv, Untouched, SnapshotFits, GateFits, ReportFits, EndFits

\* Listing again starts from what is stored.
LEMMA RelistingKeeps ==
    ASSUME IInv, pc = "list", ListAgain, stored' \subseteq stored, UNCHANGED options
    PROVE  IInv'
<1>1. Countable'
  BY FS_Subset DEF ListAgain, IInv, Countable
<1>. QED
  BY <1>1 DEF ListAgain, IInv, Untouched, SnapshotFits, GateFits, ReportFits, EndFits

LEMMA StepHolds == IInv /\ [Next]_vars => IInv'
<1> SUFFICES ASSUME IInv, [Next]_vars PROVE IInv'
  OBVIOUS
<1>. USE DEF IInv, Countable, Untouched, SnapshotFits, GateFits, ReportFits, EndFits
<1>1. CASE UNCHANGED vars
  BY <1>1 DEF vars, scriptVars, Reported
<1>2. CASE Write
  BY <1>2, FS_AddElement DEF Write, scriptVars, Reported
<1>3. CASE CheckArguments /\ UNCHANGED options
  <2>1. CASE Ends(2) \/ (options.dryRun /\ Ends(0))
    BY <1>3, <2>1, RecoveryAssumption, EarlierIsOld DEF CheckArguments, Ends, Reported
  <2>2. CASE pc' = "capture" /\ UNCHANGED exit
    BY <1>3, <2>2 DEF CheckArguments, Reported
  <2>. QED  BY <1>3, <2>1, <2>2 DEF CheckArguments
<1>4. CASE CaptureBefore /\ UNCHANGED options
  BY <1>4, DyingKeeps DEF CaptureBefore, Reported
<1>5. CASE ListBefore /\ UNCHANGED options
  <2>1. CASE Dies
    BY <1>5, <2>1, DyingKeeps DEF ListBefore
  <2>2. CASE ~Dies
    <3>1. before' = before \cup Lines(Head(todo))
      BY <1>5, <2>2 DEF ListBefore, QueryFails
    <3>2. IsFiniteSet(Lines(Head(todo)))
      BY LinesFinite
    <3>3. IsFiniteSet(before')
      BY <3>1, <3>2, FS_Union
    <3>. QED  BY <1>5, <2>2, <3>3 DEF ListBefore, QueryFails, Reported
  <2>. QED  BY <2>1, <2>2
<1>6. CASE SkipDelete /\ UNCHANGED options
  BY <1>6, RelistingKeeps DEF SkipDelete
<1>7. CASE DeleteFacts /\ UNCHANGED options
  BY <1>7, RelistingKeeps, DyingKeeps DEF DeleteFacts
<1>8. CASE ListAfter /\ UNCHANGED options
  <2>1. CASE Dies
    BY <1>8, <2>1, DyingKeeps DEF ListAfter
  <2>2. CASE ~Dies
    <3>1. after' = after \cup Lines(Head(todo))
      BY <1>8, <2>2 DEF ListAfter, QueryFails
    <3>2. IsFiniteSet(Lines(Head(todo)))
      BY LinesFinite
    <3>3. IsFiniteSet(after')
      BY <3>1, <3>2, FS_Union
    <3>. QED  BY <1>8, <2>2, <3>3 DEF ListAfter, QueryFails, Reported
  <2>. QED  BY <2>1, <2>2
<1>9. CASE CaptureAfter /\ UNCHANGED options
  <2>1. CASE Dies
    BY <1>9, <2>1, DyingKeeps DEF CaptureAfter
  <2>2. CASE ~Dies
    BY <1>9, <2>2 DEF CaptureAfter, Reported
  <2>. QED  BY <2>1, <2>2
<1>10. CASE JudgeSnapshot /\ UNCHANGED options
  BY <1>10 DEF JudgeSnapshot, GateStatus, Reported
<1>11. CASE WriteReport /\ UNCHANGED options
  <2> DEFINE b == Cardinality(before)
             a == Cardinality(after)
  <2>1. b \in Nat /\ a \in Nat
    BY FS_CardinalityType
  <2>2. (IF b > a THEN b - a ELSE 0) \in Nat
    BY <2>1
  <2>3. report' \in Reports /\ report'.new
        /\ (report'.status = "passed" <=> Passed)
    BY <1>11, <2>1, <2>2 DEF WriteReport, Reports
  <2>. QED  BY <1>11, <2>3 DEF WriteReport, Passed, Reported
<1>12. CASE Finish /\ UNCHANGED options
  BY <1>12 DEF Finish, Ends, Reported
<1>. QED
  BY <1>1, <1>2, <1>3, <1>4, <1>5, <1>6, <1>7, <1>8, <1>9, <1>10, <1>11, <1>12
  DEF Next, Script

LEMMA InvHolds == Spec => []IInv
BY InitHolds, StepHolds, PTL DEF Spec

\* Unless the dashboard is skipped, a recovery that ends with 0 has passed the
\* gate on a snapshot of a keyspace without bad facts.
THEOREM RecoveredMeansClean == Spec => []QualityRestored
<1>1. IInv => QualityRestored
  BY RecoveryAssumption
  DEF IInv, EndFits, GateFits, SnapshotFits, QualityRestored, Succeeded
<1>. QED  BY <1>1, InvHolds, PTL

\* The report and the status of the script tell the same story.
THEOREM ReportTellsTheStatus == Spec => []ReportAgreesWithExit
<1>1. IInv => ReportAgreesWithExit
  <2> SUFFICES ASSUME IInv, exit # None, ~options.dryRun
               PROVE  exit = 0 <=> report # None /\ report.new /\ report.status = "passed"
    BY DEF ReportAgreesWithExit
  <2>1. pc = "done"
    BY DEF IInv, EndFits
  <2>2. exit = 0 <=> Reported
    BY <2>1 DEF IInv, EndFits
  <2>3. report \in Reports \cup {None} /\ None \notin Reports
    BY RecoveryAssumption DEF IInv, ReportFits
  <2>. QED  BY <2>2, <2>3 DEF Reported
<1>. QED  BY <1>1, InvHolds, PTL

-----------------------------------------------------------------------------
(* What the second listing has gone through *)

\* What query q asks for.
Matches(f, q) ==
    /\ f.table = q[1]
    /\ IF q[2] = 0 THEN options.prefix[q[1]] \in f.prefixes
       ELSE f.position = PositionsOf(options)[q[2]]

\* The queries left are the last of the plan.
Rest ==
    LET plan == Plan(options)
    IN  /\ todo \in Seq(Tables \X Nat)
        /\ Len(todo) <= Len(plan)
        /\ \A i \in 1 .. Len(todo) : todo[i] = plan[Len(plan) - Len(todo) + i]

\* Nothing that was there when the listing began matches a query before them.
Cleared ==
    LET plan == Plan(options)
    IN  \A i \in 1 .. Len(plan) - Len(todo) : \A f \in relisted : ~Matches(f, plan[i])

Listed ==
    /\ options \in CommandLines /\ stored \subseteq Facts /\ relisted \subseteq stored
    /\ pc = "relist" => Rest
    /\ pc = "relist" /\ after = {} => Cleared
    /\ pc \in {"gate", "report", "exit"} /\ after = {} => \A f \in relisted : ~InScope(f)
    /\ exit # None => pc = "done"
    /\ pc = "done" => ScopeCleared

LEMMA PlanType ==
    ASSUME options \in CommandLines
    PROVE  /\ Plan(options) \in Seq(Tables \X Nat)
           /\ Len(Plan(options)) = 5 * (Len(options.positions) + 1)
           /\ \A i \in 1 .. Len(Plan(options)) :
                 Plan(options)[i] = <<FactTables[((i - 1) % 5) + 1], (i - 1) \div 5>>
<1> DEFINE n == 5 * (Len(options.positions) + 1)
<1>1. Len(FactTables) = 5 /\ DOMAIN FactTables = 1 .. 5
  BY DEF FactTables
<1>2. Len(options.positions) \in Nat
  BY RecoveryAssumption, LenProperties
<1>3. Plan(options) = [i \in 1 .. n |-> <<FactTables[((i - 1) % 5) + 1], (i - 1) \div 5>>]
  BY <1>1 DEF Plan, PositionsOf
<1>4. n \in Nat
  BY <1>2
<1> HIDE DEF n
<1>5. ASSUME NEW i \in 1 .. n
      PROVE  <<FactTables[((i - 1) % 5) + 1], (i - 1) \div 5>> \in Tables \X Nat
  <2>1. ((i - 1) % 5) + 1 \in 1 .. 5 /\ (i - 1) \div 5 \in Nat
    BY <1>4, Z3
  <2>. QED  BY <2>1, <1>1 DEF Tables
<1>6. Plan(options) \in Seq(Tables \X Nat) /\ Len(Plan(options)) = n
  <2> DEFINE e(i) == <<FactTables[((i - 1) % 5) + 1], (i - 1) \div 5>>
  <2>1. \A i \in 1 .. n : e(i) \in Tables \X Nat
    BY <1>5
  <2>2. Plan(options) = [i \in 1 .. n |-> e(i)]
    BY <1>3
  <2> HIDE DEF e
  <2>3. [i \in 1 .. n |-> e(i)] \in Seq(Tables \X Nat)
    BY <1>4, <2>1
  <2>. QED  BY <1>4, <2>2, <2>3
<1>. QED  BY <1>3, <1>6 DEF n

\* What is in scope, some query of the plan asks for.
LEMMA PlanCovers ==
    ASSUME options \in CommandLines, NEW f \in Facts, InScope(f)
    PROVE  \E i \in 1 .. Len(Plan(options)) : Matches(f, Plan(options)[i])
<1>1. PICK k \in 1 .. 5 : f.table = FactTables[k]
  <2>1. f.table \in Tables
    BY RecoveryAssumption
  <2>. QED  BY <2>1 DEF Tables, FactTables
<1>2. Len(options.positions) \in Nat /\ DOMAIN options.positions = 1 .. Len(options.positions)
  BY RecoveryAssumption, LenProperties
<1>3. CASE options.prefix[f.table] \in f.prefixes
  <2>1. k \in 1 .. Len(Plan(options))
    BY <1>2, PlanType
  <2>2. ((k - 1) % 5) + 1 = k /\ (k - 1) \div 5 = 0
    OBVIOUS
  <2>3. Plan(options)[k] = <<f.table, 0>>
    BY <1>1, <2>1, <2>2, PlanType
  <2>. QED  BY <1>3, <2>1, <2>3 DEF Matches
<1>4. CASE \E n \in DOMAIN options.positions : f.position = options.positions[n]
  <2>1. PICK n \in 1 .. Len(options.positions) : f.position = options.positions[n]
    BY <1>2, <1>4
  <2> DEFINE i == 5 * n + k
  <2>2. i \in 1 .. Len(Plan(options))
    BY <1>2, PlanType
  <2>3. ((i - 1) % 5) + 1 = k /\ (i - 1) \div 5 = n
    BY <1>2, Z3
  <2> HIDE DEF i
  <2>4. Plan(options)[i] = <<f.table, n>>
    BY <1>1, <2>2, <2>3, PlanType
  <2>5. n # 0
    BY <1>2
  <2>. QED  BY <2>1, <2>2, <2>4, <2>5 DEF Matches, PositionsOf
<1>. QED  BY <1>3, <1>4 DEF InScope

\* A query lists every stored fact it asks for.
LEMMA QueryLists ==
    ASSUME NEW f \in stored, stored \subseteq Facts, NEW q, Matches(f, q)
    PROVE  f \in Lines(q)
<1>1. CASE q[2] = 0
  <2>1. options.prefix[q[1]] # None
    BY <1>1, RecoveryAssumption DEF Matches
  <2>. QED  BY <1>1, <2>1 DEF Matches, Lines, Asked, PrefixLines
<1>2. CASE q[2] # 0
  BY <1>2 DEF Matches, Lines, Asked, PositionLines
<1>. QED  BY <1>1, <1>2

\* One query on.
LEMMA RestOfTail ==
    ASSUME options \in CommandLines, Rest, todo # <<>>, todo' = Tail(todo), UNCHANGED options
    PROVE  /\ Rest' /\ Len(todo') = Len(todo) - 1
           /\ Head(todo) = Plan(options)[Len(Plan(options)) - Len(todo)']
<1>1. Len(Plan(options)) \in Nat
  BY PlanType, LenProperties
<1>2. /\ todo \in Seq(Tables \X Nat) /\ Tail(todo) \in Seq(Tables \X Nat)
      /\ Len(todo) \in Nat \ {0} /\ Len(Tail(todo)) = Len(todo) - 1
      /\ Head(todo) = todo[1]
      /\ \A i \in 1 .. Len(Tail(todo)) : Tail(todo)[i] = todo[i + 1]
  BY HeadTailProperties, LenProperties, EmptySeq DEF Rest
<1>3. Plan(options)' = Plan(options)
  BY DEF Plan
<1>4. ASSUME NEW i \in 1 .. Len(Tail(todo))
      PROVE  Tail(todo)[i] = Plan(options)[Len(Plan(options)) - Len(Tail(todo)) + i]
  <2>1. i + 1 \in 1 .. Len(todo)
    BY <1>2
  <2>2. todo[i + 1] = Plan(options)[Len(Plan(options)) - Len(todo) + (i + 1)]
    BY <2>1 DEF Rest
  <2>3. Len(Plan(options)) - Len(todo) + (i + 1) = Len(Plan(options)) - Len(Tail(todo)) + i
    BY <1>1, <1>2
  <2>. QED  BY <1>2, <2>2, <2>3
<1>5. Rest'
  BY <1>1, <1>2, <1>3, <1>4 DEF Rest
<1>6. Head(todo) = Plan(options)[Len(Plan(options)) - Len(Tail(todo))]
  <2>1. todo[1] = Plan(options)[Len(Plan(options)) - Len(todo) + 1]
    BY <1>2 DEF Rest
  <2>2. Len(Plan(options)) - Len(todo) + 1 = Len(Plan(options)) - Len(Tail(todo))
    BY <1>1, <1>2
  <2>. QED  BY <1>2, <2>1, <2>2
<1>. QED  BY <1>2, <1>5, <1>6

LEMMA ListedAtFirst == Init => Listed
BY RecoveryAssumption DEF Init, Listed, ScopeCleared, Succeeded

\* A command that fails ends the run with 1.
LEMMA DyingClears ==
    ASSUME Listed, Dies, UNCHANGED options
    PROVE  Listed'
<1>1. pc' = "done" /\ exit' = 1
  BY DEF Dies, Ends
<1>2. ScopeCleared'
  BY <1>1 DEF ScopeCleared, Succeeded
<1>. QED  BY <1>1, <1>2 DEF Listed, Dies

\* The second listing begins with the whole plan before it.
LEMMA RelistingClears ==
    ASSUME Listed, pc = "list", ListAgain, stored' \subseteq stored, UNCHANGED options
    PROVE  Listed'
<1>1. Plan(options) \in Seq(Tables \X Nat) /\ Len(Plan(options)) \in Nat
  BY PlanType, LenProperties DEF Listed
<1>2. pc' = "relist" /\ todo' = Plan(options) /\ Plan(options)' = Plan(options)
  BY DEF ListAgain, Plan
<1>3. Rest'
  BY <1>1, <1>2 DEF Rest
<1>4. Cleared'
  BY <1>1, <1>2 DEF Cleared
<1>5. relisted' = stored' /\ UNCHANGED exit
  BY DEF ListAgain
<1>. QED  BY <1>2, <1>3, <1>4, <1>5 DEF Listed

\* A query that lists nothing was asked for nothing that is stored.
LEMMA ListingClears ==
    ASSUME Listed, ListAfter, ~Dies, UNCHANGED options
    PROVE  Listed'
<1>1. /\ pc = "relist" /\ todo # <<>> /\ Rest
      /\ after' = after \cup Lines(Head(todo)) /\ todo' = Tail(todo)
      /\ UNCHANGED <<stored, pc, exit, relisted>>
  BY DEF Listed, ListAfter, QueryFails
<1>2. /\ Rest' /\ Len(todo') = Len(todo) - 1
      /\ Head(todo) = Plan(options)[Len(Plan(options)) - Len(todo)']
  BY <1>1, RestOfTail DEF Listed
<1>3. ASSUME after' = {} PROVE Cleared'
  <2> DEFINE plan == Plan(options)
             last == Len(plan) - Len(todo)'
  <2>1. Cleared /\ Lines(Head(todo)) = {}
    BY <1>1, <1>3 DEF Listed
  <2>2. \A f \in relisted : ~Matches(f, plan[last])
    BY <1>2, <2>1, QueryLists DEF Listed
  <2>3. Len(plan) \in Nat /\ Len(todo) \in Nat
    BY <1>1, PlanType, LenProperties DEF Listed, Rest
  <2>4. ASSUME NEW i \in 1 .. last, NEW f \in relisted
        PROVE  ~Matches(f, plan[i])
    <3>1. CASE i = last
      BY <2>2, <3>1
    <3>2. CASE i # last
      <4>1. i \in 1 .. Len(plan) - Len(todo)
        BY <1>2, <2>3, <3>2
      <4>. QED  BY <2>1, <4>1 DEF Cleared
    <3>. QED  BY <3>1, <3>2
  <2>5. relisted' = relisted /\ Plan(options)' = plan
    BY <1>1 DEF Plan
  <2>6. ASSUME NEW i \in 1 .. last, NEW f \in relisted
        PROVE  ~Matches(f, plan[i])'
    BY <2>4, <2>5 DEF Matches, PositionsOf
  <2>. QED  BY <2>5, <2>6 DEF Cleared, Matches, PositionsOf
<1>. QED  BY <1>1, <1>2, <1>3 DEF Listed

\* With no query left, nothing the listing began with is in scope.
LEMMA ListedAll ==
    ASSUME Listed, pc = "relist", todo = <<>>, after = {}
    PROVE  \A f \in relisted : ~InScope(f)
<1> SUFFICES ASSUME NEW f \in relisted, InScope(f) PROVE FALSE
  OBVIOUS
<1>1. PICK i \in 1 .. Len(Plan(options)) : Matches(f, Plan(options)[i])
  BY PlanCovers DEF Listed
<1>2. Len(todo) = 0 /\ Len(Plan(options)) \in Nat
  BY PlanType, LenProperties DEF Listed
<1>3. i \in 1 .. Len(Plan(options)) - Len(todo)
  BY <1>2
<1>. QED  BY <1>1, <1>3 DEF Listed, Cleared

\* What the listing has gone through does not depend on what is stored.
LEMMA ListingStays ==
    ASSUME Listed, UNCHANGED <<options, pc, todo, after, exit, relisted>>,
           stored \subseteq stored', stored' \subseteq Facts
    PROVE  Listed'
<1>1. Plan(options)' = Plan(options)
  BY DEF Plan
<1>2. ASSUME Rest PROVE Rest'
  BY <1>1, <1>2 DEF Rest
<1>3. ASSUME Cleared PROVE Cleared'
  BY <1>1, <1>3 DEF Cleared, Matches, PositionsOf
<1>4. ASSUME ScopeCleared PROVE ScopeCleared'
  BY <1>4 DEF ScopeCleared, Succeeded, InScope
<1>. QED  BY <1>2, <1>3, <1>4 DEF Listed, InScope

LEMMA ListedStays == Listed /\ [Next]_vars => Listed'
<1> SUFFICES ASSUME Listed, [Next]_vars PROVE Listed'
  OBVIOUS
<1>1. CASE UNCHANGED vars
  BY <1>1, ListingStays DEF vars, scriptVars, Listed
<1>2. CASE Write
  BY <1>2, ListingStays DEF Write, scriptVars, Listed
<1>3. CASE CheckArguments /\ UNCHANGED options
  <2>1. CASE Refused(options)
    BY <1>3, <2>1 DEF CheckArguments, Ends, Listed, ScopeCleared, Succeeded
  <2>2. CASE ~Refused(options) /\ options.dryRun
    BY <1>3, <2>2 DEF CheckArguments, Ends, Listed, ScopeCleared, Succeeded
  <2>3. CASE ~Refused(options) /\ ~options.dryRun
    BY <1>3, <2>3 DEF CheckArguments, Listed
  <2>. QED  BY <2>1, <2>2, <2>3
<1>4. CASE CaptureBefore /\ UNCHANGED options
  BY <1>4, DyingClears DEF CaptureBefore, Listed
<1>5. CASE ListBefore /\ UNCHANGED options
  BY <1>5, DyingClears DEF ListBefore, QueryFails, Listed
<1>6. CASE SkipDelete /\ UNCHANGED options
  BY <1>6, RelistingClears DEF SkipDelete
<1>7. CASE DeleteFacts /\ UNCHANGED options
  BY <1>7, RelistingClears, DyingClears DEF DeleteFacts
<1>8. CASE ListAfter /\ UNCHANGED options
  BY <1>8, DyingClears, ListingClears
<1>9. CASE CaptureAfter /\ UNCHANGED options
  <2>1. CASE Dies
    BY <1>9, <2>1, DyingClears
  <2>2. CASE ~Dies
    BY <1>9, <2>2, ListedAll DEF CaptureAfter, Listed, InScope
  <2>. QED  BY <2>1, <2>2
<1>10. CASE JudgeSnapshot /\ UNCHANGED options
  BY <1>10 DEF JudgeSnapshot, Listed, InScope
<1>11. CASE WriteReport /\ UNCHANGED options
  BY <1>11 DEF WriteReport, Listed, InScope
<1>12. CASE Finish /\ UNCHANGED options
  BY <1>12 DEF Finish, Ends, Listed, ScopeCleared, Succeeded, InScope
<1>. QED
  BY <1>1, <1>2, <1>3, <1>4, <1>5, <1>6, <1>7, <1>8, <1>9, <1>10, <1>11, <1>12
  DEF Next, Script

\* A recovery that ends with 0 has left nothing in scope of what was stored when
\* it began to list again, whatever the prefixes and positions it was given.
THEOREM ScopeIsCleared == Spec => []ScopeCleared
<1>1. Listed => ScopeCleared
  BY RecoveryAssumption DEF Listed, ScopeCleared, Succeeded
<1>. QED  BY <1>1, ListedAtFirst, ListedStays, PTL DEF Spec

-----------------------------------------------------------------------------
(* What a run that was not let go on has touched *)

\* Past its arguments a run was confirmed, and before them nothing was listed.
Confirmed ==
    /\ pc \notin {"args", "done"} => ~options.dryRun /\ options.yes
    /\ pc = "args" => before = {}

\* A command that fails neither lists nor reports.
LEMMA DyingIsTyped ==
    ASSUME IInv, TypeOK, Confirmed, pc \notin {"args", "exit", "done"}, Dies,
           UNCHANGED <<options, writes>>
    PROVE  (TypeOK /\ Confirmed)'
BY RecoveryAssumption DEF IInv, TypeOK, Confirmed, Dies, Ends

LEMMA TypedStays == IInv /\ IInv' /\ TypeOK /\ Confirmed /\ [Next]_vars => (TypeOK /\ Confirmed)'
<1> SUFFICES ASSUME IInv, IInv', TypeOK, Confirmed, [Next]_vars
             PROVE  (TypeOK /\ Confirmed)'
  OBVIOUS
<1>. USE RecoveryAssumption
<1>1. CASE UNCHANGED vars
  BY <1>1 DEF vars, scriptVars, TypeOK, Confirmed
<1>2. CASE Write
  BY <1>2 DEF Write, scriptVars, TypeOK, Confirmed
<1>3. CASE CheckArguments /\ UNCHANGED <<options, writes>>
  <2>1. CASE Refused(options)
    BY <1>3, <2>1 DEF CheckArguments, Ends, TypeOK, Confirmed, IInv, ReportFits
  <2>2. CASE ~Refused(options) /\ options.dryRun
    BY <1>3, <2>2 DEF CheckArguments, Ends, TypeOK, Confirmed, IInv, ReportFits
  <2>3. CASE ~Refused(options) /\ ~options.dryRun
    BY <1>3, <2>3 DEF CheckArguments, Refused, TypeOK, Confirmed
  <2>. QED  BY <2>1, <2>2, <2>3
<1>4. CASE CaptureBefore /\ UNCHANGED <<options, writes>>
  BY <1>4, DyingIsTyped DEF CaptureBefore, TypeOK, Confirmed
<1>5. CASE ListBefore /\ UNCHANGED <<options, writes>>
  BY <1>5, DyingIsTyped DEF ListBefore, QueryFails, TypeOK, Confirmed
<1>6. CASE SkipDelete /\ UNCHANGED <<options, writes>>
  BY <1>6 DEF SkipDelete, ListAgain, TypeOK, Confirmed
<1>7. CASE DeleteFacts /\ UNCHANGED <<options, writes>>
  BY <1>7, DyingIsTyped DEF DeleteFacts, ListAgain, TypeOK, Confirmed
<1>8. CASE ListAfter /\ UNCHANGED <<options, writes>>
  BY <1>8, DyingIsTyped DEF ListAfter, QueryFails, TypeOK, Confirmed
<1>9. CASE CaptureAfter /\ UNCHANGED <<options, writes>>
  <2>1. CASE Dies
    BY <1>9, <2>1, DyingIsTyped DEF CaptureAfter
  <2>2. CASE ~Dies
    BY <1>9, <2>2 DEF CaptureAfter, TypeOK, Confirmed
  <2>. QED  BY <2>1, <2>2
<1>10. CASE JudgeSnapshot /\ UNCHANGED <<options, writes>>
  BY <1>10 DEF JudgeSnapshot, TypeOK, Confirmed, IInv, GateFits
<1>11. CASE WriteReport /\ UNCHANGED <<options, writes>>
  BY <1>11 DEF WriteReport, TypeOK, Confirmed, IInv, ReportFits
<1>12. CASE Finish /\ UNCHANGED <<options, writes>>
  BY <1>12 DEF Finish, Ends, TypeOK, Confirmed
<1>. QED
  BY <1>1, <1>2, <1>3, <1>4, <1>5, <1>6, <1>7, <1>8, <1>9, <1>10, <1>11, <1>12
  DEF Next, Script

\* The state is of its type, and a usage error, a dry run or a run that nobody
\* confirmed has listed nothing and left the report file as it was.
THEOREM AskedLeavesNothing == Spec => []TypeOK
<1>1. Init => TypeOK /\ Confirmed
  BY RecoveryAssumption, EarlierIsOld DEF Init, TypeOK, Confirmed
<1>. QED  BY <1>1, InvHolds, TypedStays, PTL DEF Spec
=============================================================================
