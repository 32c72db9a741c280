------------------------------ MODULE Recovery ------------------------------
(***************************************************************************)
(* scripts/recover-bad-facts.sh: list the facts in scope, delete them,     *)
(* list again, put the dashboard through the quality gate and report.      *)
(* The transformer goes on writing facts meanwhile.                        *)
(*                                                                         *)
(* A fact is a record with its table, its position, and the prefixes its   *)
(* business id starts with.  A statement of a listing is the fact whose    *)
(* primary key it names, or a line of cqlsh's output taken for one.        *)
(***************************************************************************)
EXTENDS Integers, FiniteSets, Sequences

CONSTANTS
    Facts,              \* facts the transformer may have written
    BadFacts,           \* facts the quality gate fails on
    IdPrefixes,         \* prefixes of business ids
    ShortPrefixes,      \* of fewer than six characters
    NamePrefixes,       \* prefixes the name of the id column starts with, too
    Positions,
    CommandLines,       \* what the script may be called with
    MaxWrites,          \* facts written during the run
    None

FactTables ==
    <<"fact_order_line_by_day", "fact_payment_by_day", "fact_refund_by_day",
      "fact_inventory_movement_by_product", "fact_support_case_by_customer">>

Tables == {FactTables[i] : i \in DOMAIN FactTables}

Reports ==
    [new : BOOLEAN, status : {"passed", "failed"}, before : Nat, after : Nat, deleted : Nat]

ASSUME RecoveryAssumption ==
    /\ IsFiniteSet(Facts) /\ IsFiniteSet(Positions)
    /\ \A f \in Facts : /\ f.table \in Tables /\ f.position \in Positions
                        /\ f.prefixes \subseteq IdPrefixes
    /\ BadFacts \subseteq Facts /\ ShortPrefixes \cup NamePrefixes \subseteq IdPrefixes
    /\ CommandLines \subseteq
        [prefix : [Tables -> IdPrefixes \cup {None}], positions : Seq(Positions),
         dryRun : BOOLEAN, yes : BOOLEAN, skipDashboard : BOOLEAN]
    /\ MaxWrites \in Nat
    /\ None \notin IdPrefixes /\ None \notin Reports /\ None \notin {0, 1, 2}

VARIABLES
    stored,     \* the facts in Cassandra
    writes,     \* how many the transformer has written since the start
    options,    \* of the command line
    pc,         \* what the script does next
    todo,       \* queries left of the listing
    before,     \* before-deletes.cql
    after,      \* after-deletes.cql
    snapshot,   \* dashboard-after.json
    gate,       \* quality_gate_status
    report,     \* the report file, possibly of an earlier run
    exit,       \* the script's status
    relisted    \* history: what was stored when the second listing began

scriptVars == <<pc, todo, before, after, snapshot, gate, report, exit, relisted>>
vars == <<stored, writes, options, scriptVars>>

-----------------------------------------------------------------------------
(* The listing. *)

\* Mutant: --source-position is only looked at when no prefix is given.
PositionsOf_UnlessPrefix(o) ==
    IF \E t \in Tables : o.prefix[t] # None THEN <<>> ELSE o.positions

PositionsOf(o) == o.positions

\* The queries of collect_matching_deletes in their order, as <<table, n>>: by
\* the prefix (n = 0), then by the n-th position, each time of all tables.
Plan(o) ==
    LET tables == Len(FactTables)
    IN  [i \in 1 .. tables * (Len(PositionsOf(o)) + 1) |->
            <<FactTables[((i - 1) % tables) + 1], (i - 1) \div tables>>]

\* Without a prefix for its table collect_prefix_deletes returns at once.
Asked(query) == query[2] = 0 => options.prefix[query[1]] # None

\* cqlsh frames the rows with a line of column names, a ruler and their count.
Frame(table, rows) ==
    {[table |-> table, line |-> l] : l \in {"names", "ruler"}}
        \cup {[table |-> table, line |-> "count", rows |-> Cardinality(rows)]}

\* collect_prefix_deletes: a line of which the id column starts with prefix.
PrefixLines(table, prefix) ==
    LET rows == {f \in stored : f.table = table}
    IN  {f \in rows : prefix \in f.prefixes}
            \cup {l \in Frame(table, rows) : l.line = "names" /\ prefix \in NamePrefixes}

\* collect_source_position_deletes: in three tables a line that begins with a
\* date, in the others any line but the names and a ruler of dashes only, which
\* the ruler of three columns is not.
PositionLines(table, position) ==
    LET rows == {f \in stored : f.table = table /\ f.position = position}
    IN  rows \cup {l \in Frame(table, rows) :
            /\ table \in {"fact_inventory_movement_by_product",
                          "fact_support_case_by_customer"}
            /\ l.line \in {"ruler", "count"}}

Lines(query) ==
    IF ~Asked(query) THEN {}
    ELSE IF query[2] = 0 THEN PrefixLines(query[1], options.prefix[query[1]])
    ELSE PositionLines(query[1], PositionsOf(options)[query[2]])

InScope(f) ==
    \/ options.prefix[f.table] \in f.prefixes
    \/ \E n \in DOMAIN options.positions : f.position = options.positions[n]

-----------------------------------------------------------------------------

\* Mutant: --yes is not asked for.
Refused_NoYes(o) ==
    \/ (\A t \in Tables : o.prefix[t] = None) /\ o.positions = <<>>
    \/ \E t \in Tables : o.prefix[t] \in ShortPrefixes

\* A missing scope, a prefix that is too short, or no --yes: usage error.
Refused(o) ==
    \/ (\A t \in Tables : o.prefix[t] = None) /\ o.positions = <<>>
    \/ \E t \in Tables : o.prefix[t] \in ShortPrefixes
    \/ ~o.dryRun /\ ~o.yes

EarlierReport == [new |-> FALSE, status |-> "passed", before |-> 0, after |-> 0, deleted |-> 0]

Init ==
    /\ stored \in SUBSET Facts
    /\ writes = 0
    /\ options \in CommandLines
    /\ pc = "args" /\ todo = <<>>
    /\ before = {} /\ after = {}
    /\ snapshot = "none" /\ gate = "skipped"
    /\ report \in {None, EarlierReport}
    /\ exit = None
    /\ relisted = {}

\* A new version of a fact, or a bad fact again.
Write ==
    /\ writes < MaxWrites /\ exit = None
    /\ \E f \in Facts \ stored : stored' = stored \cup {f}
    /\ writes' = writes + 1
    /\ UNCHANGED <<options, scriptVars>>

Ends(status) == pc' = "done" /\ exit' = status

\* set -e: the script ends where a command fails, without a report.
Dies ==
    /\ Ends(1)
    /\ UNCHANGED <<stored, todo, before, after, snapshot, gate, report, relisted>>

CheckArguments ==
    /\ pc = "args"
    /\ CASE Refused(options) -> Ends(2)
         [] ~Refused(options) /\ options.dryRun -> Ends(0)
         [] OTHER -> pc' = "capture" /\ UNCHANGED exit
    /\ UNCHANGED <<stored, todo, before, after, snapshot, gate, report, relisted>>

\* The dashboard before the cleanup: whatever it says is only recorded, but an
\* answer that is not JSON ends the script.
CaptureBefore ==
    /\ pc = "capture"
    /\ \/ /\ pc' = "list" /\ todo' = Plan(options)
          /\ UNCHANGED <<stored, before, after, snapshot, gate, report, exit, relisted>>
       \/ ~options.skipDashboard /\ Dies

QueryFails == Asked(Head(todo)) /\ Dies

ListBefore ==
    /\ pc = "list" /\ todo # <<>>
    /\ \/ /\ before' = before \cup Lines(Head(todo))
          /\ todo' = Tail(todo)
          /\ UNCHANGED <<stored, pc, after, snapshot, gate, report, exit, relisted>>
       \/ QueryFails

ListAgain ==
    /\ pc' = "relist" /\ todo' = Plan(options)
    /\ relisted' = stored'
    /\ UNCHANGED <<before, after, snapshot, gate, report, exit>>

SkipDelete == pc = "list" /\ todo = <<>> /\ before = {} /\ UNCHANGED stored /\ ListAgain

\* What reaches cqlsh of the file it is given: podman exec without -i closes
\* the standard input of the command.
StandardInput(statements) == {}

DeleteFacts ==
    /\ pc = "list" /\ todo = <<>> /\ before # {}
    /\ \/ stored' = stored \ StandardInput(before) /\ ListAgain
       \/ Dies

ListAfter ==
    /\ pc = "relist" /\ todo # <<>>
    /\ \/ /\ after' = after \cup Lines(Head(todo))
          /\ todo' = Tail(todo)
          /\ UNCHANGED <<stored, pc, before, snapshot, gate, report, exit, relisted>>
       \/ QueryFails

\* The dashboard shows what is stored, and may have faults of its own to
\* report; curl may leave a part of an answer behind.
CaptureAfter ==
    /\ pc = "relist" /\ todo = <<>>
    /\ \/ /\ pc' = "gate"
          /\ snapshot' \in
                IF options.skipDashboard THEN {"none"}
                ELSE {"none", "part", "dirty"}
                        \cup {s \in {"clean"} : stored \cap BadFacts = {}}
          /\ UNCHANGED <<stored, todo, before, after, gate, report, exit, relisted>>
       \/ ~options.skipDashboard /\ Dies

\* Mutant: without a snapshot there is nothing to gate.
GateStatus_OnlyIfCaptured ==
    CASE options.skipDashboard \/ snapshot = "none" -> "skipped"
      [] snapshot = "clean" -> "passed"
      [] OTHER -> "failed"

GateStatus ==
    CASE options.skipDashboard -> "skipped"
      [] ~options.skipDashboard /\ snapshot = "none" -> "unavailable"
      [] ~options.skipDashboard /\ snapshot = "clean" -> "passed"
      [] OTHER -> "failed"

JudgeSnapshot ==
    /\ pc = "gate"
    /\ pc' = "report"
    /\ gate' = GateStatus
    /\ UNCHANGED <<stored, todo, before, after, snapshot, report, exit, relisted>>

Passed == after = {} /\ gate \in {"passed", "skipped"}

WriteReport ==
    /\ pc = "report"
    /\ pc' = "exit"
    /\ report' =
        LET b == Cardinality(before)
            a == Cardinality(after)
        IN  [new |-> TRUE, status |-> IF Passed THEN "passed" ELSE "failed",
             before |-> b, after |-> a, deleted |-> IF b > a THEN b - a ELSE 0]
    /\ UNCHANGED <<stored, todo, before, after, snapshot, gate, exit, relisted>>

Finish ==
    /\ pc = "exit"
    /\ Ends(IF after # {} \/ gate \in {"failed", "unavailable"} THEN 1 ELSE 0)
    /\ UNCHANGED <<stored, todo, before, after, snapshot, gate, report, relisted>>

Script ==
    /\ \/ CheckArguments \/ CaptureBefore \/ ListBefore \/ SkipDelete \/ DeleteFacts
       \/ ListAfter \/ CaptureAfter \/ JudgeSnapshot \/ WriteReport \/ Finish
    /\ UNCHANGED <<writes, options>>

Next == Write \/ Script

Spec == Init /\ [][Next]_vars

-----------------------------------------------------------------------------

TypeOK ==
    /\ stored \subseteq Facts /\ writes \in 0 .. MaxWrites
    /\ options \in CommandLines
    /\ pc \in {"args", "capture", "list", "relist", "gate", "report", "exit", "done"}
    /\ snapshot \in {"none", "part", "dirty", "clean"}
    /\ gate \in {"skipped", "unavailable", "passed", "failed"}
    /\ report \in Reports \cup {None}
    /\ exit \in {None, 0, 1, 2} /\ (exit # None <=> pc = "done")
    \* Usage errors, dry runs and runs without --yes ask and leave nothing.
    /\ exit = 2 \/ options.dryRun \/ ~options.yes =>
        before = {} /\ report \in {None, EarlierReport}

Succeeded == exit = 0 /\ ~options.dryRun

\* A run that ends with 0 leaves nothing in scope but what the transformer has
\* written since the second listing began, however listings and writes
\* interleave.
ScopeCleared == Succeeded => \A f \in relisted : ~InScope(f)

\* Unless the dashboard is skipped, a run ends with 0 only after the gate has
\* passed a snapshot taken after the cleanup: no bad fact was left by then,
\* whether in scope or not.
QualityRestored == Succeeded /\ ~options.skipDashboard => relisted \cap BadFacts = {}

\* The file other tools read and the status the caller sees agree: 0 comes with
\* a report of this run that passed, 1 never does.
ReportAgreesWithExit ==
    exit # None /\ ~options.dryRun =>
        (exit = 0 <=> report # None /\ report.new /\ report.status = "passed")

-----------------------------------------------------------------------------
(* A statement of the documentation that the code does not keep. *)

\* recover-bad-facts.sh, usage: deletes matching local Cassandra serving facts
\* (runs in which the transformer writes nothing).
MatchingFactsDeleted ==
    pc \in {"gate", "report", "exit"} => before \cap stored = {}
=============================================================================
