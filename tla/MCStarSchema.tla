---------------------------- MODULE MCStarSchema ----------------------------
(***************************************************************************)
(* StarSchema checked against SourceSchema and the audit of Serving over   *)
(* every mapped table, every operation, and rows with up to two columns    *)
(* that are damaged or hold a value of one of the lists.                   *)
(***************************************************************************)
EXTENDS SourceSchema, Serving

CONSTANT MaxDamaged     \* how many columns of a row are damaged at most

VARIABLES message, verdict

mcVars == <<message, verdict>>

TextClasses == {"absent", "null", "blank", "garbage"}
NumberClasses == TextClasses \cup {"zero", "negative", "huge"}

\* The values any of the three lists has for the column.
ListedValues(c) ==
    IF c \notin DOMAIN KnownValues THEN {}
    ELSE KnownValues[c] \cup AuditedValues[c]
            \cup (IF c \in DOMAIN CheckedValues THEN CheckedValues[c] ELSE {})

Columns(t) ==
    LET how == Mapping[t]
        rule == Rules[how.target]
    IN  (how.subscripted \cup how.integers \cup how.instants
            \cup rule.required \cup rule.active)

ClassesOf(t, c) ==
    IF c \in Mapping[t].integers THEN NumberClasses ELSE TextClasses \cup ListedValues(c)

DamagesOf(t) ==
    UNION {{d \in [cs -> UNION {ClassesOf(t, c) : c \in cs}] :
               \A c \in cs : d[c] \in ClassesOf(t, c)} :
           cs \in {s \in SUBSET Columns(t) : Cardinality(s) <= MaxDamaged}}

\* Images as the sources log them; MongoDB has none before a delete.
RowMessage(t, op, d) ==
    [shape |-> "event", table |-> t, op |-> op, id |-> "x", pos |-> 1,
     before |-> op \in {"u", "d"} /\ t # "support_tickets", after |-> op # "d",
     damage |-> d, order |-> "o1", customer |-> "c1", status |-> "captured", amount |-> 1]

RowMessagesOf(t) ==
    {RowMessage(t, op, d) : op \in {"c", "u", "d", "r"}, d \in DamagesOf(t)}

Init ==
    /\ \E t \in DOMAIN Mapping : message \in RowMessagesOf(t)
    /\ verdict = "pending"

Transform ==
    /\ verdict = "pending"
    /\ verdict' = Verdict(message)
    /\ UNCHANGED message

Spec == Init /\ [][Transform]_mcVars

\* What the transformer makes good: a time stamp that is missing is replaced by
\* the time of the event, and ids are text in the star tables, of whatever form.
MadeGood(m) ==
    {c \in Mapping[m.table].instants : ColumnClass(m, c) \in {"absent", "null"}}
        \cup {c \in {"customer_id", "order_id", "order_item_id", "ticket_id"} :
                ColumnClass(m, c) = "garbage"}

\* A row its source database would refuse (it can still be in an old topic or
\* come from a repaired table) never gets past mapping and validation, unless
\* for nothing but a missing time stamp or the form of an id; or it is a
\* soft-deleted dimension, of which only the key is used.
SourceConstraintsHold ==
    verdict = "row" /\ ~(IsDimension(message) /\ message.op = "d")
        => RefusedColumns(message) \subseteq MadeGood(message)

\* Whatever the operation, a row is accepted when its image is there and there
\* is nothing about it but what is made good and values its source lists, and a
\* dimension is deleted on the strength of its key alone.
SoundRowsAccepted ==
    verdict # "pending" /\ HasImage(message) =>
        /\ (\A c \in DOMAIN message.damage :
                \/ c \in MadeGood(message)
                \/ c \in DOMAIN CheckedValues /\ message.damage[c] \in CheckedValues[c])
           => verdict = "row"
        /\ IsDimension(message) /\ message.op = "d"
              /\ Mapping[message.table].id \notin DOMAIN message.damage
           => verdict = "row"

\* What validation lets into Cassandra raises no finding in the dashboard's own
\* audit of the tables: the lists of required columns and of known values, of
\* which there is one in Python and one in SQL, agree value by value.  A dimension
\* deleted at its source is left out: validation waives columns the audit goes on
\* counting.
AcceptedRowsRaiseNoFinding ==
    verdict = "row" /\ ~(IsDimension(message) /\ message.op = "d") =>
        LET findings == QualityFindings({message})
        IN  \A f \in DOMAIN findings : findings[f] = 0
=============================================================================
