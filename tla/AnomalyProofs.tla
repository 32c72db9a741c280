---------------------------- MODULE AnomalyProofs ----------------------------
(***************************************************************************)
(* A replay beside the live transformer, for any topics, limits, faults    *)
(* and interleavings: the bounded run delivers, and a complete one leaves  *)
(* every row in its last version.  Then what it means that anomaly-e2e.sh, *)
(* which is built on a replay, passes, and why it fails.                   *)
(***************************************************************************)
EXTENDS Anomaly, FiniteSetTheorems, Sums

\* The messages and rows both groups are about.
Messages == Live!Messages
Errors == Live!Errors
RowMessages == Live!RowMessages
RowKeys == Live!RowKeys
Key(m) == Live!RowKey(Live!At(m))

\* Both groups read the same log in the same way.
LEMMA SameVerdict == ASSUME NEW m PROVE Service!Verdict(m) = Live!Verdict(m)
<1>1. Service!Mapping = Live!Mapping /\ Service!Rules = Live!Rules
  BY DEF Service!Mapping, Live!Mapping, Service!Rules, Live!Rules
<1>2. ASSUME NEW c PROVE Service!ColumnClass(m, c) = Live!ColumnClass(m, c)
  BY DEF Service!ColumnClass, Live!ColumnClass
<1>3. Service!GrossClass(m) = Live!GrossClass(m)
  BY <1>2 DEF Service!GrossClass, Live!GrossClass
<1>4. ASSUME NEW c PROVE Service!RowClass(m, c) = Live!RowClass(m, c)
  BY <1>2, <1>3 DEF Service!RowClass, Live!RowClass
<1>5. Service!MapperRaises(m) <=> Live!MapperRaises(m)
  BY <1>1, <1>2 DEF Service!MapperRaises, Live!MapperRaises
<1>6. Service!Target(m) = Live!Target(m) /\ (Service!IsDimension(m) <=> Live!IsDimension(m))
  BY <1>1 DEF Service!Target, Live!Target, Service!IsDimension, Live!IsDimension
<1>7. Service!RequiredColumns(m) = Live!RequiredColumns(m)
  BY <1>1, <1>6 DEF Service!RequiredColumns, Live!RequiredColumns
<1>8. ASSUME NEW class, NEW values
      PROVE  Service!Unlisted(class, values) <=> Live!Unlisted(class, values)
  BY DEF Service!Unlisted, Live!Unlisted, Service!IsBlank, Live!IsBlank
<1>9. Service!KnownValues = Live!KnownValues
  BY DEF Service!KnownValues, Live!KnownValues
<1>10. Service!Issues(m) = Live!Issues(m)
  BY <1>1, <1>4, <1>6, <1>7, <1>8, <1>9
     DEF Service!Issues, Live!Issues, Service!IsBlank, Live!IsBlank
<1>. QED
  BY <1>1, <1>5, <1>10 DEF Service!Verdict, Live!Verdict, Service!Unparsable, Live!Unparsable,
     Service!HasImage, Live!HasImage

LEMMA SameRows ==
    /\ Service!Messages = Messages
    /\ Service!Errors = Errors
    /\ Service!RowMessages = RowMessages
    /\ \A m : Service!RowKey(Service!At(m)) = Key(m)
    /\ Service!RowKeys = RowKeys
<1>1. Service!Messages = Messages
  BY DEF Service!Messages, Messages, Live!Messages
<1>2. \A m : Service!At(m) = Live!At(m)
  BY DEF Service!At, Live!At
<1>3. Service!RowMessages = RowMessages
  BY <1>1, <1>2, SameVerdict DEF Service!RowMessages, RowMessages, Live!RowMessages,
     Service!HasRow, Live!HasRow, Messages
<1>4. \A m : Service!RowKey(Service!At(m)) = Key(m)
  BY <1>2 DEF Key, Service!RowKey, Live!RowKey, Service!IsDimension, Live!IsDimension,
     Service!Target, Live!Target, Service!Mapping, Live!Mapping
<1>5. Service!RowKeys = RowKeys
  BY <1>3, <1>4 DEF Service!RowKeys, RowKeys, Live!RowKeys, Key, RowMessages
<1>. QED  BY <1>1, <1>3, <1>4, <1>5 DEF Service!Errors, Errors, Live!Errors

-----------------------------------------------------------------------------
(* One group with its one worker, whichever of the two it is *)

\* A group in hand: its offsets, what its worker is doing, and what it has done.
LiveHand ==
    [committed |-> liveCommitted, position |-> livePosition,
     owned |-> {p \in Partitions : liveOwner[p] = "live"},
     pc |-> livePc["live"], inflight |-> liveInflight["live"], error |-> liveError["live"],
     written |-> liveWritten, dlq |-> liveDlq, lost |-> liveDlqLost]

ServiceHand ==
    [committed |-> committed, position |-> position,
     owned |-> {p \in Partitions : owner[p] = "replay"},
     pc |-> pc["replay"], inflight |-> inflight["replay"], error |-> error["replay"],
     written |-> written, dlq |-> dlq, lost |-> dlqLost]

Busy(g) == g.pc \notin {"poll", "down"}

Settled(g) == g.written \cup {m \in Messages : \E e \in Errors : g.dlq[<<m, e>>] > 0} \cup g.lost

HandTypes(g) ==
    /\ g.committed \in [Partitions -> Nat] /\ g.position \in [Partitions -> Nat]
    /\ \A p \in Partitions : g.committed[p] <= Len(Log[p]) /\ g.position[p] <= Len(Log[p])
    /\ g.owned \subseteq Partitions
    /\ g.pc \in {"poll", "write", "commit", "publish", "dlq_commit", "down"}
    /\ Busy(g) => g.inflight \in Messages
    /\ g.written \subseteq Messages /\ g.lost \subseteq Messages
    /\ g.dlq \in [Messages \X Errors -> Nat]

\* The message in hand is the one at the committed offset, and the position of
\* an owned partition is there or just behind it.
OneAhead(g) ==
    /\ Busy(g) => g.inflight[2] = g.committed[g.inflight[1]]
    /\ \A p \in g.owned :
          g.position[p] = IF Busy(g) /\ g.inflight[1] = p
                          THEN g.committed[p] + 1 ELSE g.committed[p]

\* What each call has behind it.
Ready(g) ==
    /\ g.pc = "write" => g.inflight \in RowMessages
    /\ g.pc = "commit" => g.inflight \in g.written
    /\ g.pc = "publish" => /\ g.error \in Errors
                           /\ g.error = "commit" => g.inflight \in g.written
                           /\ g.inflight \in RowMessages => g.error # "mapping"
    /\ g.pc = "dlq_commit" => g.inflight \in Settled(g)

\* Below the committed offset all is settled, and nothing beyond it is written.
Covered(g) ==
    /\ \A m \in Messages : m[2] < g.committed[m[1]] => m \in Settled(g)
    /\ \A m \in g.written : m[2] <= g.committed[m[1]]

HandOK(g) == HandTypes(g) /\ OneAhead(g) /\ Ready(g) /\ Covered(g)

SamePlace(g, h) ==
    h.committed = g.committed /\ h.position = g.position /\ h.owned = g.owned

SameDeeds(g, h) == h.written = g.written /\ h.dlq = g.dlq /\ h.lost = g.lost

SameMessage(g, h) == h.inflight = g.inflight

Stays(g, h) ==
    /\ SamePlace(g, h) /\ SameDeeds(g, h) /\ SameMessage(g, h)
    /\ h.pc = g.pc /\ h.error = g.error

Begins(g, h) ==
    /\ g.pc = "down" /\ h.pc = "poll"
    /\ SamePlace(g, h) /\ SameDeeds(g, h) /\ SameMessage(g, h)

Ends(g, h) ==
    /\ h.pc = "down" /\ h.owned = {}
    /\ h.committed = g.committed /\ h.position = g.position /\ SameDeeds(g, h)

Joins(g, h) ==
    /\ g.pc = "poll" /\ h.pc = "poll"
    /\ \E p \in Partitions : /\ h.owned = g.owned \cup {p}
                             /\ h.position = [g.position EXCEPT ![p] = g.committed[p]]
    /\ h.committed = g.committed /\ SameDeeds(g, h)

Takes(g, h) ==
    /\ g.pc = "poll"
    /\ \E p \in g.owned :
        /\ g.position[p] < Len(Log[p])
        /\ h.inflight = <<p, g.position[p]>>
        /\ h.position = [g.position EXCEPT ![p] = @ + 1]
    /\ \/ h.pc = "write" /\ h.inflight \in RowMessages /\ h.written = g.written
       \/ /\ h.pc = "commit" /\ h.inflight \notin RowMessages
          /\ h.written = g.written \cup {h.inflight}
       \/ /\ h.pc = "publish" /\ h.written = g.written
          /\ h.error \in {"mapping", "validation"}
          /\ h.inflight \in RowMessages => h.error = "validation"
    /\ h.committed = g.committed /\ h.owned = g.owned /\ h.dlq = g.dlq /\ h.lost = g.lost

\* t is the table before the step, u after it.
Writes(g, h, t, u) ==
    /\ g.pc = "write"
    /\ SamePlace(g, h) /\ SameMessage(g, h) /\ h.dlq = g.dlq /\ h.lost = g.lost
    /\ \/ /\ u = t /\ h.written = g.written
          /\ h.pc = "publish" /\ h.error = "write"
       \/ /\ u = [t EXCEPT ![Key(g.inflight)] = g.inflight]
          /\ h.written = g.written \cup {g.inflight}
          /\ \/ h.pc = "commit"
             \/ h.pc = "publish" /\ h.error = "write"

Commits(g, h) ==
    /\ g.pc \in {"commit", "dlq_commit"} /\ h.pc = "poll"
    /\ h.committed = [g.committed EXCEPT ![g.inflight[1]] = g.inflight[2] + 1]
    /\ h.position = g.position /\ h.owned = g.owned /\ SameDeeds(g, h)

FailsToCommit(g, h) ==
    /\ g.pc = "commit" /\ h.pc = "publish" /\ h.error = "commit"
    /\ SamePlace(g, h) /\ SameDeeds(g, h) /\ SameMessage(g, h)

Publishes(g, h) ==
    /\ g.pc = "publish" /\ h.pc = "dlq_commit"
    /\ SamePlace(g, h) /\ SameMessage(g, h) /\ h.written = g.written
    /\ \/ h.dlq = [g.dlq EXCEPT ![<<g.inflight, g.error>>] = @ + 1] /\ h.lost = g.lost
       \/ h.dlq = g.dlq /\ h.lost = g.lost \cup {g.inflight}

\* Every step a group may take, and what becomes of the table in it.
Deals(g, h, t, u) ==
    \/ Writes(g, h, t, u)
    \/ /\ u = t
       /\ \/ Stays(g, h) \/ Begins(g, h) \/ Ends(g, h) \/ Joins(g, h) \/ Takes(g, h)
          \/ Commits(g, h) \/ FailsToCommit(g, h) \/ Publishes(g, h)

\* A message is a partition and an offset within its log.
LEMMA MessageFacts ==
    ASSUME NEW m \in Messages
    PROVE  m[1] \in Partitions /\ m[2] \in Nat /\ m[2] < Len(Log[m[1]]) /\ m = <<m[1], m[2]>>
BY TopicsAssumption DEF Messages, Live!Messages

LEMMA OffsetIsMessage ==
    ASSUME NEW p \in Partitions, NEW o \in Nat, o < Len(Log[p])
    PROVE  <<p, o>> \in Messages
BY TopicsAssumption DEF Messages, Live!Messages

LEMMA ErrorKinds == Errors = {"mapping", "validation", "write", "commit"}
BY DEF Errors, Live!Errors

\* A step settles the message in hand or nothing, and unsettles nothing.
LEMMA DealsSettle ==
    ASSUME NEW g, NEW h, NEW t, NEW u, HandOK(g), Deals(g, h, t, u)
    PROVE  /\ Settled(g) \subseteq Settled(h)
           /\ \/ Settled(h) = Settled(g)
              \/ /\ h.committed = g.committed /\ h.inflight \in Messages
                 /\ Settled(h) = Settled(g) \cup {h.inflight}
<1>1. CASE SameDeeds(g, h)
  BY <1>1 DEF SameDeeds, Settled
<1>2. ASSUME NEW m \in Messages, h.written \in {g.written, g.written \cup {m}},
             h.dlq = g.dlq, h.lost = g.lost
      PROVE  Settled(h) \in {Settled(g), Settled(g) \cup {m}}
  BY <1>2 DEF Settled
<1>3. CASE Writes(g, h, t, u)
  <2>1. g.inflight \in Messages /\ h.inflight = g.inflight /\ h.committed = g.committed
    BY <1>3 DEF Writes, HandOK, HandTypes, Busy, SameMessage, SamePlace
  <2>. QED  BY <1>2, <1>3, <2>1 DEF Writes
<1>4. CASE Takes(g, h)
  <2>1. PICK p \in g.owned : g.position[p] < Len(Log[p]) /\ h.inflight = <<p, g.position[p]>>
    BY <1>4 DEF Takes
  <2>2. h.inflight \in Messages
    BY <2>1, OffsetIsMessage DEF HandOK, HandTypes
  <2>3. h.written \in {g.written, g.written \cup {h.inflight}} /\ h.dlq = g.dlq /\ h.lost = g.lost
        /\ h.committed = g.committed
    BY <1>4 DEF Takes
  <2>. QED  BY <1>2, <2>2, <2>3
<1>5. CASE Publishes(g, h)
  <2>1. /\ g.inflight \in Messages /\ h.inflight = g.inflight /\ h.committed = g.committed
        /\ h.written = g.written /\ g.error \in Errors
    BY <1>5 DEF Publishes, HandOK, HandTypes, Ready, Busy, SameMessage, SamePlace
  <2>2. CASE h.dlq = g.dlq /\ h.lost = g.lost \cup {g.inflight}
    BY <2>1, <2>2 DEF Settled
  <2>3. CASE h.dlq = [g.dlq EXCEPT ![<<g.inflight, g.error>>] = @ + 1] /\ h.lost = g.lost
    <3>1. g.dlq \in [Messages \X Errors -> Nat]
      BY DEF HandOK, HandTypes
    <3>2. ASSUME NEW m \in Messages, NEW e \in Errors
          PROVE  h.dlq[<<m, e>>] = IF m = g.inflight /\ e = g.error
                                   THEN g.dlq[<<m, e>>] + 1 ELSE g.dlq[<<m, e>>]
      BY <2>1, <2>3, <3>1
    <3>3. ASSUME NEW m \in Messages
          PROVE  (\E e \in Errors : h.dlq[<<m, e>>] > 0)
                    <=> m = g.inflight \/ \E e \in Errors : g.dlq[<<m, e>>] > 0
      <4>1. \A e \in Errors : g.dlq[<<m, e>>] \in Nat
        BY <3>1
      <4>2. CASE m = g.inflight
        <5>1. h.dlq[<<m, g.error>>] > 0
          BY <2>1, <3>2, <4>1, <4>2
        <5>. QED  BY <2>1, <4>2, <5>1
      <4>3. CASE m # g.inflight
        BY <3>2, <4>3
      <4>. QED  BY <4>2, <4>3
    <3>. QED  BY <2>1, <2>3, <3>3 DEF Settled
  <2>. QED  BY <1>5, <2>2, <2>3 DEF Publishes
<1>. QED
  BY <1>1, <1>3, <1>4, <1>5
  DEF Deals, Stays, Begins, Ends, Joins, Commits, FailsToCommit

-----------------------------------------------------------------------------
(* HandOK holds of every hand that was dealt *)

LEMMA DealsTypes ==
    ASSUME NEW g, NEW h, NEW t, NEW u, HandOK(g), Deals(g, h, t, u)
    PROVE  HandTypes(h)
<1>. USE DEF HandOK, HandTypes, SamePlace, SameDeeds, SameMessage, Busy
<1>1. CASE Writes(g, h, t, u)
  BY <1>1 DEF Writes
<1>2. CASE Stays(g, h) \/ Begins(g, h) \/ Ends(g, h) \/ FailsToCommit(g, h)
  BY <1>2 DEF Stays, Begins, Ends, FailsToCommit
<1>3. CASE Joins(g, h)
  BY <1>3 DEF Joins
<1>4. CASE Takes(g, h)
  <2>1. PICK p \in g.owned : /\ g.position[p] < Len(Log[p]) /\ h.inflight = <<p, g.position[p]>>
                             /\ h.position = [g.position EXCEPT ![p] = @ + 1]
    BY <1>4 DEF Takes
  <2>2. h.inflight \in Messages
    BY <2>1, OffsetIsMessage
  <2>3. h.position \in [Partitions -> Nat] /\ \A q \in Partitions : h.position[q] <= Len(Log[q])
    BY <2>1, TopicsAssumption
  <2>. QED  BY <1>4, <2>2, <2>3 DEF Takes
<1>5. CASE Commits(g, h)
  <2>1. g.inflight \in Messages
    BY <1>5 DEF Commits
  <2>2. g.inflight[1] \in Partitions /\ g.inflight[2] + 1 \in Nat
        /\ g.inflight[2] + 1 <= Len(Log[g.inflight[1]])
    BY <2>1, MessageFacts, TopicsAssumption
  <2>3. /\ h.committed \in [Partitions -> Nat]
        /\ \A p \in Partitions : h.committed[p] <= Len(Log[p])
    BY <1>5, <2>2 DEF Commits
  <2>. QED  BY <1>5, <2>3 DEF Commits
<1>6. CASE Publishes(g, h)
  <2>1. g.inflight \in Messages /\ g.error \in Errors
    BY <1>6 DEF Publishes, Ready
  <2>2. CASE h.dlq = g.dlq /\ h.lost = g.lost \cup {g.inflight}
    BY <1>6, <2>1, <2>2 DEF Publishes
  <2>3. CASE h.dlq = [g.dlq EXCEPT ![<<g.inflight, g.error>>] = @ + 1] /\ h.lost = g.lost
    <3>1. g.dlq[<<g.inflight, g.error>>] + 1 \in Nat
      BY <2>1
    <3>2. h.dlq \in [Messages \X Errors -> Nat]
      BY <2>3, <3>1
    <3>. QED  BY <1>6, <2>1, <2>3, <3>2 DEF Publishes
  <2>. QED  BY <1>6, <2>2, <2>3 DEF Publishes
<1>. QED  BY <1>1, <1>2, <1>3, <1>4, <1>5, <1>6 DEF Deals

LEMMA DealsAhead ==
    ASSUME NEW g, NEW h, NEW t, NEW u, HandOK(g), Deals(g, h, t, u)
    PROVE  OneAhead(h)
<1>. USE DEF HandOK, OneAhead, SamePlace, SameDeeds, SameMessage, Busy
<1>1. CASE Writes(g, h, t, u)
  BY <1>1 DEF Writes
<1>2. CASE Stays(g, h) \/ Begins(g, h) \/ Ends(g, h) \/ FailsToCommit(g, h) \/ Publishes(g, h)
  BY <1>2 DEF Stays, Begins, Ends, FailsToCommit, Publishes
<1>3. CASE Joins(g, h)
  BY <1>3 DEF Joins, HandTypes
<1>4. CASE Takes(g, h)
  <2>1. PICK p \in g.owned : /\ h.inflight = <<p, g.position[p]>>
                             /\ h.position = [g.position EXCEPT ![p] = @ + 1]
    BY <1>4 DEF Takes
  <2>2. /\ g.position[p] = g.committed[p] /\ h.committed = g.committed /\ h.owned = g.owned
        /\ Busy(h)
    BY <1>4 DEF Takes
  <2>3. ASSUME NEW q \in g.owned
        PROVE  h.position[q] = IF p = q THEN g.committed[q] + 1 ELSE g.committed[q]
    <3>1. g.position[q] = g.committed[q]
      BY <1>4 DEF Takes
    <3>. QED  BY <2>1, <3>1 DEF HandTypes
  <2>. QED  BY <2>1, <2>2, <2>3
<1>5. CASE Commits(g, h)
  <2>1. g.inflight[1] \in Partitions /\ g.inflight[2] = g.committed[g.inflight[1]]
    BY <1>5, MessageFacts DEF Commits, HandTypes
  <2>2. /\ h.committed = [g.committed EXCEPT ![g.inflight[1]] = g.inflight[2] + 1]
        /\ h.position = g.position /\ h.owned = g.owned /\ ~Busy(h) /\ Busy(g)
    BY <1>5 DEF Commits
  <2>3. ASSUME NEW q \in g.owned PROVE g.position[q] = h.committed[q]
    BY <2>1, <2>2 DEF HandTypes
  <2>. QED  BY <2>2, <2>3
<1>. QED  BY <1>1, <1>2, <1>3, <1>4, <1>5 DEF Deals

LEMMA DealsReady ==
    ASSUME NEW g, NEW h, NEW t, NEW u, HandOK(g), Deals(g, h, t, u)
    PROVE  Ready(h)
<1>. USE ErrorKinds DEF HandOK, Ready, SamePlace, SameDeeds, SameMessage
<1>1. Settled(g) \subseteq Settled(h)
  BY DealsSettle
<1>2. CASE Writes(g, h, t, u)
  BY <1>2 DEF Writes
<1>3. CASE Stays(g, h) \/ Begins(g, h) \/ Ends(g, h) \/ Joins(g, h) \/ Commits(g, h)
           \/ FailsToCommit(g, h)
  BY <1>1, <1>3 DEF Stays, Begins, Ends, Joins, Commits, FailsToCommit
<1>4. CASE Takes(g, h)
  BY <1>4 DEF Takes
<1>5. CASE Publishes(g, h)
  <2>1. g.inflight \in Messages /\ g.error \in Errors
    BY <1>5 DEF Publishes, HandTypes, Busy
  <2>2. CASE h.lost = g.lost \cup {g.inflight}
    BY <1>5, <2>2 DEF Publishes, Settled
  <2>3. CASE h.dlq = [g.dlq EXCEPT ![<<g.inflight, g.error>>] = @ + 1]
    <3>1. h.dlq[<<g.inflight, g.error>>] > 0
      BY <2>1, <2>3 DEF HandTypes
    <3>. QED  BY <1>5, <2>1, <3>1 DEF Publishes, Settled
  <2>. QED  BY <1>5, <2>2, <2>3 DEF Publishes
<1>. QED  BY <1>2, <1>3, <1>4, <1>5 DEF Deals

LEMMA DealsCovered ==
    ASSUME NEW g, NEW h, NEW t, NEW u, HandOK(g), Deals(g, h, t, u)
    PROVE  Covered(h)
<1>1. Settled(g) \subseteq Settled(h)
  BY DealsSettle
<1>2. ASSUME h.committed = g.committed,
             \/ h.written = g.written
             \/ /\ Busy(h) /\ h.written = g.written \cup {h.inflight}
      PROVE  Covered(h)
  <2>1. OneAhead(h) /\ HandTypes(h)
    BY DealsAhead, DealsTypes
  <2>2. Busy(h) => h.inflight[2] <= h.committed[h.inflight[1]]
    BY <2>1, MessageFacts DEF OneAhead, HandTypes
  <2>. QED  BY <1>1, <1>2, <2>2 DEF HandOK, Covered
<1>3. CASE Commits(g, h)
  <2>1. /\ g.inflight \in Messages /\ g.inflight[1] \in Partitions /\ g.inflight[2] \in Nat
        /\ g.inflight[2] = g.committed[g.inflight[1]] /\ g.inflight \in Settled(g)
        /\ g.inflight = <<g.inflight[1], g.inflight[2]>>
    BY <1>3, MessageFacts DEF Commits, HandOK, HandTypes, OneAhead, Ready, Busy, Settled
  <2>2. /\ h.committed = [g.committed EXCEPT ![g.inflight[1]] = g.inflight[2] + 1]
        /\ h.written = g.written
    BY <1>3 DEF Commits, SameDeeds
  <2>3. ASSUME NEW m \in Messages, m[2] < h.committed[m[1]] PROVE m \in Settled(h)
    <3>1. m[1] \in Partitions /\ m[2] \in Nat /\ m = <<m[1], m[2]>>
      BY MessageFacts
    <3>2. m[2] < g.committed[m[1]] \/ m = g.inflight
      <4>1. CASE m[1] # g.inflight[1]
        BY <2>1, <2>2, <2>3, <3>1, <4>1 DEF HandOK, HandTypes
      <4>2. CASE m[1] = g.inflight[1]
        <5>1. m[2] < g.inflight[2] + 1
          BY <2>1, <2>2, <2>3, <4>2 DEF HandOK, HandTypes
        <5>2. m[2] = g.inflight[2] => m = g.inflight
          BY <2>1, <3>1, <4>2
        <5>3. m[2] < g.inflight[2] \/ m[2] = g.inflight[2]
          BY <2>1, <3>1, <5>1
        <5>. QED  BY <2>1, <4>2, <5>2, <5>3
      <4>. QED  BY <4>1, <4>2
    <3>. QED  BY <1>1, <2>1, <3>2 DEF HandOK, Covered
  <2>4. ASSUME NEW m \in g.written PROVE m[2] <= h.committed[m[1]]
    <3>1. m[1] \in Partitions /\ m[2] \in Nat /\ m[2] <= g.committed[m[1]]
      BY MessageFacts DEF HandOK, HandTypes, Covered
    <3>. QED  BY <2>1, <2>2, <3>1 DEF HandOK, HandTypes
  <2>. QED  BY <2>2, <2>3, <2>4 DEF Covered
<1>4. CASE ~Commits(g, h)
  BY <1>2, <1>4
  DEF Deals, Writes, Stays, Begins, Ends, Joins, Takes, FailsToCommit, Publishes,
      SamePlace, SameDeeds, SameMessage, Busy
<1>. QED  BY <1>3, <1>4

LEMMA DealsKeep ==
    ASSUME NEW g, NEW h, NEW t, NEW u, HandOK(g), Deals(g, h, t, u)
    PROVE  HandOK(h)
BY DealsTypes, DealsAhead, DealsReady, DealsCovered DEF HandOK

-----------------------------------------------------------------------------
(* The live group deals *)

LiveShaped ==
    /\ livePc \in [{"live"} -> Live!Calls]
    /\ liveInflight \in [{"live"} -> Messages \cup {None}]
    /\ liveError \in [{"live"} -> Errors \cup {None}]
    /\ liveOwner \in [Partitions -> {"live", None}]

LEMMA LiveObjects ==
    ASSUME NEW m, NEW mem
    PROVE  /\ Live!Objection(mem, Live!At(m)) \in {"mapping", "validation", None}
           /\ m \in RowMessages => Live!Objection(mem, Live!At(m)) # "mapping"
<1>1. None # "mapping"
  BY TopicsAssumption DEF Live!Errors
<1>2. m \in RowMessages => Live!Verdict(Live!At(m)) = "row"
  BY SameRows DEF RowMessages, Live!RowMessages, Live!HasRow
<1>. QED  BY <1>1, <1>2 DEF Live!Objection

LEMMA LiveDies ==
    ASSUME LiveShaped, Live!Dies("live"),
           UNCHANGED <<liveCommitted, livePosition, liveDlq, liveDlqLost, liveWritten>>
    PROVE  LiveShaped' /\ Ends(LiveHand, LiveHand')
<1>1. liveOwner' \in [Partitions -> {"live", None}] /\ \A p \in Partitions : liveOwner'[p] # "live"
  BY TopicsAssumption DEF Live!Dies, LiveShaped
<1>2. livePc' = [livePc EXCEPT !["live"] = "down"] /\ "down" \in Live!Calls
  BY DEF Live!Dies, Live!Calls
<1>3. livePc'["live"] = "down" /\ livePc' \in [{"live"} -> Live!Calls]
  BY <1>2 DEF LiveShaped
<1>4. /\ liveInflight' \in [{"live"} -> Messages \cup {None}]
      /\ liveError' \in [{"live"} -> Errors \cup {None}]
  BY DEF Live!Dies, LiveShaped
<1>. QED  BY <1>1, <1>3, <1>4 DEF LiveShaped, Ends, SameDeeds, LiveHand

LEMMA LiveAssigns ==
    ASSUME LiveShaped, NEW p \in Partitions, Live!Assign(p, "live")
    PROVE  LiveShaped' /\ Joins(LiveHand, LiveHand') /\ UNCHANGED table
<1>1. liveOwner' = [liveOwner EXCEPT ![p] = "live"]
  BY DEF Live!Assign
<1>2. /\ LiveHand'.owned = LiveHand.owned \cup {p}
      /\ liveOwner' \in [Partitions -> {"live", None}]
  BY <1>1 DEF LiveShaped, LiveHand
<1>3. /\ livePosition' = [livePosition EXCEPT ![p] = liveCommitted[p]]
      /\ livePc["live"] = "poll"
  BY DEF Live!Assign
<1>4. /\ UNCHANGED <<liveCommitted, liveDlq, liveDlqLost, liveWritten, table>>
      /\ UNCHANGED <<livePc, liveInflight, liveError>>
  BY DEF Live!Assign, Live!storeVars, Live!workerVars
<1>. QED  BY <1>2, <1>3, <1>4 DEF LiveShaped, Joins, SameDeeds, LiveHand

LEMMA LivePolls ==
    ASSUME LiveShaped, HandTypes(LiveHand), Live!Poll("live")
    PROVE  LiveShaped' /\ Takes(LiveHand, LiveHand') /\ UNCHANGED table
<1>1. PICK p \in Partitions :
        LET m == <<p, livePosition[p]>>
            objection == Live!Objection(liveMemory["live"], Live!At(m))
        IN  /\ liveOwner[p] = "live" /\ livePosition[p] < Len(Log[p])
            /\ liveInflight' = [liveInflight EXCEPT !["live"] = m]
            /\ livePosition' = [livePosition EXCEPT ![p] = @ + 1]
            /\ liveError' = [liveError EXCEPT !["live"] = objection]
            /\ livePc' = [livePc EXCEPT !["live"] =
                                IF objection # None THEN "publish"
                                ELSE IF m \in Live!RowMessages THEN "write" ELSE "commit"]
            /\ liveWritten' = IF objection = None /\ ~m \in Live!RowMessages
                                 THEN liveWritten \cup {m} ELSE liveWritten
  BY DEF Live!Poll
<1> DEFINE m == <<p, livePosition[p]>>
           objection == Live!Objection(liveMemory["live"], Live!At(m))
<1>2. objection \in {"mapping", "validation", None} /\ (m \in RowMessages => objection # "mapping")
  BY LiveObjects
<1>3. Live!RowMessages = RowMessages
  BY SameRows DEF RowMessages
<1>4. /\ livePc["live"] = "poll" /\ UNCHANGED table
      /\ UNCHANGED <<liveCommitted, liveOwner, liveDlq, liveDlqLost>>
  BY DEF Live!Poll
<1> HIDE DEF objection
<1>5. /\ liveInflight'["live"] = m
      /\ liveError'["live"] = objection
      /\ livePc'["live"] = IF objection # None THEN "publish"
                             ELSE IF m \in RowMessages THEN "write" ELSE "commit"
  BY <1>1, <1>3 DEF LiveShaped, objection
<1>6. liveWritten' = IF objection = None /\ m \notin RowMessages
                        THEN liveWritten \cup {m} ELSE liveWritten
  BY <1>1, <1>3 DEF objection
<1>7. m \in Messages
  BY <1>1, OffsetIsMessage DEF HandTypes, LiveHand
<1>8. Takes(LiveHand, LiveHand')
  <2>1. p \in LiveHand.owned
    BY <1>1 DEF LiveHand
  <2>2. \E q \in LiveHand.owned :
          /\ livePosition[q] < Len(Log[q])
          /\ liveInflight'["live"] = <<q, livePosition[q]>>
          /\ livePosition' = [livePosition EXCEPT ![q] = @ + 1]
    BY <1>1, <1>5, <2>1
  <2>. QED  BY <1>2, <1>4, <1>5, <1>6, <2>2 DEF Takes, LiveHand
<1>9. LiveShaped'
  <2>1. livePc' \in [{"live"} -> Live!Calls]
    BY <1>1 DEF LiveShaped, Live!Calls
  <2>2. liveError' \in [{"live"} -> Errors \cup {None}]
    BY <1>1, <1>2, ErrorKinds DEF LiveShaped, objection
  <2>3. liveInflight' \in [{"live"} -> Messages \cup {None}]
    BY <1>1, <1>7 DEF LiveShaped
  <2>. QED  BY <1>4, <2>1, <2>2, <2>3 DEF LiveShaped
<1>. QED  BY <1>4, <1>8, <1>9

LEMMA LiveWritesRow ==
    ASSUME LiveShaped, Live!WriteSucceeds("live") \/ Live!WriteRaises("live")
    PROVE  LiveShaped' /\ Writes(LiveHand, LiveHand', table, table')
<1>. USE ErrorKinds DEF LiveShaped, Live!Calls, Writes, SamePlace, SameMessage, LiveHand,
         Live!brokerVars, Live!Upsert, Live!At, Live!At, Key
<1>1. Live!RowKey(Live!At(liveInflight["live"])) = Key(liveInflight["live"])
  BY SameRows DEF Key
<1>2. CASE Live!WriteSucceeds("live")
  BY <1>1, <1>2 DEF Live!WriteSucceeds
<1>3. CASE Live!WriteRaises("live")
  BY <1>1, <1>3 DEF Live!WriteRaises, Live!storeVars
<1>. QED  BY <1>2, <1>3

LEMMA LiveCommitsOffset ==
    ASSUME LiveShaped, Live!CommitSucceeds("live") \/ Live!DlqCommitSucceeds("live")
    PROVE  LiveShaped' /\ Commits(LiveHand, LiveHand') /\ UNCHANGED table
BY DEF LiveShaped, Live!Calls, Commits, SameDeeds, LiveHand, Live!storeVars,
   Live!CommitSucceeds, Live!DlqCommitSucceeds, Live!CommitInflight, Live!CommitOffset, Live!Return

LEMMA LiveTellsDlq ==
    ASSUME LiveShaped,
           Live!CommitRaises("live") \/ Live!PublishDelivered("live") \/ Live!PublishLost("live")
    PROVE  /\ LiveShaped' /\ UNCHANGED table
           /\ FailsToCommit(LiveHand, LiveHand') \/ Publishes(LiveHand, LiveHand')
<1>. USE ErrorKinds DEF LiveShaped, Live!Calls, SamePlace, SameMessage, SameDeeds, LiveHand,
         Live!storeVars, Live!brokerVars
<1>1. CASE Live!CommitRaises("live")
  BY <1>1 DEF Live!CommitRaises, FailsToCommit
<1>2. CASE Live!PublishDelivered("live")
  BY <1>2 DEF Live!PublishDelivered, Publishes
<1>3. CASE Live!PublishLost("live")
  BY <1>3 DEF Live!PublishLost, Publishes
<1>. QED  BY <1>1, <1>2, <1>3

LEMMA LiveDeals ==
    ASSUME LiveShaped, HandOK(LiveHand), Live!Next
    PROVE  LiveShaped' /\ Deals(LiveHand, LiveHand', table, table')
<1>. USE DEF HandOK
<1>1. CASE Live!Crash("live") \/ Live!PublishRaises("live") \/ Live!DlqCommitRaises("live")
  BY <1>1, LiveDies
  DEF Live!Crash, Live!PublishRaises, Live!DlqCommitRaises, Live!storeVars, Deals
<1>2. CASE Live!Restart("live")
  BY <1>2 DEF Live!Restart, Live!Calls, Live!brokerVars, Live!storeVars, LiveShaped, Begins,
     SamePlace, SameDeeds, SameMessage, LiveHand, Deals
<1>3. CASE Live!PollNothing("live")
  BY <1>3 DEF Live!PollNothing, Live!vars, Live!brokerVars, Live!storeVars, Live!workerVars,
     LiveShaped, Stays, SamePlace, SameDeeds, SameMessage, LiveHand, Deals
<1>4. CASE Live!Poll("live")
  BY <1>4, LivePolls DEF Deals
<1>5. CASE Live!WriteSucceeds("live") \/ Live!WriteRaises("live")
  BY <1>5, LiveWritesRow DEF Deals
<1>6. CASE Live!CommitSucceeds("live") \/ Live!DlqCommitSucceeds("live")
  BY <1>6, LiveCommitsOffset DEF Deals
<1>7. CASE Live!CommitRaises("live") \/ Live!PublishDelivered("live") \/ Live!PublishLost("live")
  BY <1>7, LiveTellsDlq DEF Deals
<1>8. ASSUME NEW p \in Partitions, Live!AssignOrphan(p, "live") \/ Live!Rebalance(p, "live")
      PROVE  LiveShaped' /\ Deals(LiveHand, LiveHand', table, table')
  BY <1>8, LiveAssigns DEF Live!AssignOrphan, Live!Rebalance, Deals
<1>. QED  BY <1>1, <1>2, <1>3, <1>4, <1>5, <1>6, <1>7, <1>8 DEF Live!Next


-----------------------------------------------------------------------------
(* The group of the replay deals *)

ServiceShaped ==
    /\ pc \in [{"replay"} -> Service!Calls]
    /\ inflight \in [{"replay"} -> Messages \cup {None}]
    /\ error \in [{"replay"} -> Errors \cup {None}]
    /\ owner \in [Partitions -> {"replay", None}]

LEMMA ServiceObjects ==
    ASSUME NEW m, NEW mem
    PROVE  /\ Service!Objection(mem, Service!At(m)) \in {"mapping", "validation", None}
           /\ m \in RowMessages => Service!Objection(mem, Service!At(m)) # "mapping"
<1>1. None # "mapping"
  BY TopicsAssumption DEF Live!Errors
<1>2. m \in RowMessages => Service!Verdict(Service!At(m)) = "row"
  BY SameRows DEF Service!RowMessages, RowMessages, Live!RowMessages, Service!HasRow
<1>. QED  BY <1>1, <1>2 DEF Service!Objection

LEMMA ServiceDies ==
    ASSUME ServiceShaped, Service!Dies("replay"),
           UNCHANGED <<committed, position, dlq, dlqLost, written>>
    PROVE  ServiceShaped' /\ Ends(ServiceHand, ServiceHand')
<1>1. owner' \in [Partitions -> {"replay", None}] /\ \A p \in Partitions : owner'[p] # "replay"
  BY TopicsAssumption DEF Service!Dies, ServiceShaped
<1>2. pc' = [pc EXCEPT !["replay"] = "down"] /\ "down" \in Service!Calls
  BY DEF Service!Dies, Service!Calls
<1>3. pc'["replay"] = "down" /\ pc' \in [{"replay"} -> Service!Calls]
  BY <1>2 DEF ServiceShaped
<1>4. /\ inflight' \in [{"replay"} -> Messages \cup {None}]
      /\ error' \in [{"replay"} -> Errors \cup {None}]
  BY DEF Service!Dies, ServiceShaped
<1>. QED  BY <1>1, <1>3, <1>4 DEF ServiceShaped, Ends, SameDeeds, ServiceHand

LEMMA ServiceAssigns ==
    ASSUME ServiceShaped, NEW p \in Partitions, Service!Assign(p, "replay")
    PROVE  ServiceShaped' /\ Joins(ServiceHand, ServiceHand') /\ UNCHANGED table
<1>1. owner' = [owner EXCEPT ![p] = "replay"]
  BY DEF Service!Assign
<1>2. /\ ServiceHand'.owned = ServiceHand.owned \cup {p}
      /\ owner' \in [Partitions -> {"replay", None}]
  BY <1>1 DEF ServiceShaped, ServiceHand
<1>3. /\ position' = [position EXCEPT ![p] = committed[p]]
      /\ pc["replay"] = "poll"
  BY DEF Service!Assign
<1>4. /\ UNCHANGED <<committed, dlq, dlqLost, written, table>>
      /\ UNCHANGED <<pc, inflight, error>>
  BY DEF Service!Assign, Service!storeVars, Service!workerVars
<1>. QED  BY <1>2, <1>3, <1>4 DEF ServiceShaped, Joins, SameDeeds, ServiceHand

LEMMA ServicePolls ==
    ASSUME ServiceShaped, HandTypes(ServiceHand), Service!Poll("replay")
    PROVE  ServiceShaped' /\ Takes(ServiceHand, ServiceHand') /\ UNCHANGED table
<1>1. PICK p \in Partitions :
        LET m == <<p, position[p]>>
            objection == Service!Objection(memory["replay"], Service!At(m))
        IN  /\ owner[p] = "replay" /\ position[p] < Len(Log[p])
            /\ inflight' = [inflight EXCEPT !["replay"] = m]
            /\ position' = [position EXCEPT ![p] = @ + 1]
            /\ error' = [error EXCEPT !["replay"] = objection]
            /\ pc' = [pc EXCEPT !["replay"] =
                                IF objection # None THEN "publish"
                                ELSE IF m \in Service!RowMessages THEN "write" ELSE "commit"]
            /\ written' = IF objection = None /\ ~m \in Service!RowMessages
                                 THEN written \cup {m} ELSE written
  BY DEF Service!Poll
<1> DEFINE m == <<p, position[p]>>
           objection == Service!Objection(memory["replay"], Service!At(m))
<1>2. objection \in {"mapping", "validation", None} /\ (m \in RowMessages => objection # "mapping")
  BY ServiceObjects
<1>3. Service!RowMessages = RowMessages
  BY SameRows DEF RowMessages
<1>4. /\ pc["replay"] = "poll" /\ UNCHANGED table
      /\ UNCHANGED <<committed, owner, dlq, dlqLost>>
  BY DEF Service!Poll
<1> HIDE DEF objection
<1>5. /\ inflight'["replay"] = m
      /\ error'["replay"] = objection
      /\ pc'["replay"] = IF objection # None THEN "publish"
                             ELSE IF m \in RowMessages THEN "write" ELSE "commit"
  BY <1>1, <1>3 DEF ServiceShaped, objection
<1>6. written' = IF objection = None /\ m \notin RowMessages
                        THEN written \cup {m} ELSE written
  BY <1>1, <1>3 DEF objection
<1>7. m \in Messages
  BY <1>1, OffsetIsMessage DEF HandTypes, ServiceHand
<1>8. Takes(ServiceHand, ServiceHand')
  <2>1. p \in ServiceHand.owned
    BY <1>1 DEF ServiceHand
  <2>2. \E q \in ServiceHand.owned :
          /\ position[q] < Len(Log[q])
          /\ inflight'["replay"] = <<q, position[q]>>
          /\ position' = [position EXCEPT ![q] = @ + 1]
    BY <1>1, <1>5, <2>1
  <2>. QED  BY <1>2, <1>4, <1>5, <1>6, <2>2 DEF Takes, ServiceHand
<1>9. ServiceShaped'
  <2>1. pc' \in [{"replay"} -> Service!Calls]
    BY <1>1 DEF ServiceShaped, Service!Calls
  <2>2. error' \in [{"replay"} -> Errors \cup {None}]
    BY <1>1, <1>2, ErrorKinds DEF ServiceShaped, objection
  <2>3. inflight' \in [{"replay"} -> Messages \cup {None}]
    BY <1>1, <1>7 DEF ServiceShaped
  <2>. QED  BY <1>4, <2>1, <2>2, <2>3 DEF ServiceShaped
<1>. QED  BY <1>4, <1>8, <1>9

LEMMA ServiceWritesRow ==
    ASSUME ServiceShaped, Service!WriteSucceeds("replay") \/ Service!WriteRaises("replay")
    PROVE  ServiceShaped' /\ Writes(ServiceHand, ServiceHand', table, table')
<1>. USE ErrorKinds DEF ServiceShaped, Service!Calls, Writes, SamePlace, SameMessage, ServiceHand,
         Service!brokerVars, Service!Upsert, Service!At, Live!At, Key
<1>1. Service!RowKey(Service!At(inflight["replay"])) = Key(inflight["replay"])
  BY SameRows DEF Key
<1>2. CASE Service!WriteSucceeds("replay")
  BY <1>1, <1>2 DEF Service!WriteSucceeds
<1>3. CASE Service!WriteRaises("replay")
  BY <1>1, <1>3 DEF Service!WriteRaises, Service!storeVars
<1>. QED  BY <1>2, <1>3

LEMMA ServiceCommitsOffset ==
    ASSUME ServiceShaped, Service!CommitSucceeds("replay") \/ Service!DlqCommitSucceeds("replay")
    PROVE  ServiceShaped' /\ Commits(ServiceHand, ServiceHand') /\ UNCHANGED table
BY DEF ServiceShaped, Service!Calls, Commits, SameDeeds, ServiceHand, Service!storeVars,
   Service!CommitSucceeds, Service!DlqCommitSucceeds, Service!CommitInflight,
   Service!CommitOffset, Service!Return

LEMMA ServiceTellsDlq ==
    ASSUME ServiceShaped,
           \/ Service!CommitRaises("replay")
           \/ Service!PublishDelivered("replay") \/ Service!PublishLost("replay")
    PROVE  /\ ServiceShaped' /\ UNCHANGED table
           /\ FailsToCommit(ServiceHand, ServiceHand') \/ Publishes(ServiceHand, ServiceHand')
<1>. USE ErrorKinds DEF ServiceShaped, Service!Calls, SamePlace, SameMessage, SameDeeds,
         ServiceHand, Service!storeVars, Service!brokerVars
<1>1. CASE Service!CommitRaises("replay")
  BY <1>1 DEF Service!CommitRaises, FailsToCommit
<1>2. CASE Service!PublishDelivered("replay")
  BY <1>2 DEF Service!PublishDelivered, Publishes
<1>3. CASE Service!PublishLost("replay")
  BY <1>3 DEF Service!PublishLost, Publishes
<1>. QED  BY <1>1, <1>2, <1>3

LEMMA ServiceDeals ==
    ASSUME ServiceShaped, HandOK(ServiceHand),
           \/ JoinGroup \/ PollMessage \/ ProcessMessage \/ ReachLimit \/ GiveUp \/ Fail
    PROVE  ServiceShaped' /\ Deals(ServiceHand, ServiceHand', table, table')
<1>. USE DEF HandOK
<1>1. CASE ReachLimit \/ GiveUp \/ Fail
  <2>1. /\ Service!Dies("replay")
        /\ UNCHANGED <<table, committed, position, dlq, dlqLost, written>>
    BY <1>1 DEF ReachLimit, GiveUp, Fail, Exit, Service!Crash, Service!PublishRaises,
       Service!DlqCommitRaises, Service!storeVars
  <2>. QED  BY <2>1, ServiceDies DEF Deals
<1>2. CASE JoinGroup
  <2>1. PICK p \in Partitions : Service!Assign(p, "replay")
    BY <1>2, ReplayAssumption DEF JoinGroup, Service!AssignOrphan, Service!Rebalance
  <2>. QED  BY <2>1, ServiceAssigns DEF Deals
<1>3. CASE PollMessage
  BY <1>3, ServicePolls DEF PollMessage, Deals
<1>4. CASE ProcessMessage
  BY <1>4, ServiceWritesRow, ServiceCommitsOffset, ServiceTellsDlq DEF ProcessMessage, Deals
<1>. QED  BY <1>1, <1>2, <1>3, <1>4

-----------------------------------------------------------------------------
(* Both groups *)

Groups == LiveShaped /\ ServiceShaped /\ HandOK(LiveHand) /\ HandOK(ServiceHand)

\* One of the groups takes a step, or none does.
LiveMoves == Deals(LiveHand, LiveHand', table, table') /\ ServiceHand' = ServiceHand
ServiceMoves == Deals(ServiceHand, ServiceHand', table, table') /\ LiveHand' = LiveHand
NoneMoves == LiveHand' = LiveHand /\ ServiceHand' = ServiceHand

LEMMA LiveStays == ASSUME UNCHANGED groupVars PROVE LiveHand' = LiveHand /\ LiveShaped' = LiveShaped
BY DEF groupVars, LiveHand, LiveShaped

LEMMA ServiceStays ==
    ASSUME UNCHANGED serviceVars PROVE ServiceHand' = ServiceHand /\ ServiceShaped' = ServiceShaped
BY DEF serviceVars, ServiceHand, ServiceShaped

\* The steps in which nobody touches the table but a group that writes a row.
Works ==
    \/ LiveStep
    \/ JoinGroup \/ PollMessage \/ ProcessMessage \/ ReachLimit \/ GiveUp \/ Fail
    \/ UNCHANGED <<table, groupVars, serviceVars>>

LEMMA WorkMoves ==
    ASSUME Groups, Works
    PROVE  /\ Groups'
           /\ LiveMoves \/ ServiceMoves \/ (NoneMoves /\ table' = table)
<1>1. CASE UNCHANGED <<table, groupVars, serviceVars>>
  BY <1>1, LiveStays, ServiceStays DEF Groups, NoneMoves
<1>2. CASE LiveStep
  <2>1. Live!Next /\ ServiceHand' = ServiceHand /\ ServiceShaped'
    BY <1>2, ServiceStays DEF LiveStep, Groups
  <2>2. LiveShaped' /\ Deals(LiveHand, LiveHand', table, table')
    BY <2>1, LiveDeals DEF Groups
  <2>3. HandOK(LiveHand')
    BY <2>2, DealsKeep DEF Groups
  <2>. QED  BY <2>1, <2>2, <2>3 DEF Groups, LiveMoves
<1>3. CASE JoinGroup \/ PollMessage \/ ProcessMessage \/ ReachLimit \/ GiveUp \/ Fail
  <2>1. LiveHand' = LiveHand /\ LiveShaped'
    BY <1>3, LiveStays
    DEF JoinGroup, PollMessage, ProcessMessage, ReachLimit, GiveUp, Exit, Fail, Groups
  <2>2. ServiceShaped' /\ Deals(ServiceHand, ServiceHand', table, table')
    BY <1>3, ServiceDeals DEF Groups
  <2>3. HandOK(ServiceHand')
    BY <2>2, DealsKeep DEF Groups
  <2>. QED  BY <2>1, <2>2, <2>3 DEF Groups, ServiceMoves
<1>. QED  BY <1>1, <1>2, <1>3 DEF Works

LEMMA GroupsStep ==
    ASSUME Groups, [Next]_vars
    PROVE  /\ Groups'
           /\ \/ LiveMoves \/ ServiceMoves
              \/ NoneMoves /\ (table' = table \/ RecreateKeyspace)
<1>1. CASE RecreateKeyspace
  BY <1>1, LiveStays, ServiceStays DEF RecreateKeyspace, Groups, NoneMoves
<1>2. CASE ~RecreateKeyspace
  <2>1. Works
    BY <1>2 DEF Next, Start, Tick, vars, Works
  <2>. QED  BY <2>1, WorkMoves
<1>. QED  BY <1>1, <1>2

LEMMA FreshHand ==
    ASSUME NEW g,
           g.committed = [p \in Partitions |-> 0], g.position = [p \in Partitions |-> 0],
           g.owned = {}, g.pc = "poll", g.written = {}, g.lost = {},
           g.dlq = [r \in Messages \X Errors |-> 0]
    PROVE  HandOK(g) /\ Settled(g) = {}
<1>1. HandTypes(g)
  BY TopicsAssumption DEF HandTypes, Busy
<1>2. Settled(g) = {}
  <2>1. ASSUME NEW m \in Messages, NEW e \in Errors PROVE ~(g.dlq[<<m, e>>] > 0)
    <3>1. g.dlq[<<m, e>>] = 0
      OBVIOUS
    <3>. QED  BY <3>1
  <2>. QED  BY <2>1 DEF Settled
<1>3. OneAhead(g) /\ Ready(g)
  BY DEF OneAhead, Ready, Busy
<1>4. Covered(g)
  <2>1. \A m \in Messages : g.committed[m[1]] = 0 /\ m[2] \in Nat
    BY MessageFacts
  <2>. QED  BY <2>1 DEF Covered
<1>. QED  BY <1>1, <1>2, <1>3, <1>4 DEF HandOK

LEMMA GroupsAtFirst ==
    ASSUME Init
    PROVE  Groups /\ Settled(LiveHand) = {} /\ Settled(ServiceHand) = {}
<1>1. None \notin {"live", "replay"}
  BY TopicsAssumption
<1>2. HandOK(LiveHand) /\ Settled(LiveHand) = {}
  BY <1>1, FreshHand, SameRows DEF Init, Live!Init, LiveHand, Messages, Errors
<1>3. HandOK(ServiceHand) /\ Settled(ServiceHand) = {}
  BY <1>1, FreshHand, SameRows DEF Init, Service!Init, ServiceHand
<1>4. LiveShaped /\ ServiceShaped
  BY DEF Init, Live!Init, Service!Init, LiveShaped, ServiceShaped, Live!Calls, Service!Calls
<1>. QED  BY <1>2, <1>3, <1>4 DEF Groups

LEMMA GroupsAlways == Spec => []Groups
BY GroupsAtFirst, GroupsStep, PTL DEF Spec

-----------------------------------------------------------------------------
(* Delivery *)

LEMMA ServiceImplements ==
    ASSUME Groups, [Next]_vars
    PROVE  [Service!Abstract!Next]_(Service!Abstract!deliveryVars)
<1>1. Service!Settled = Settled(ServiceHand) /\ Service!Settled' = Settled(ServiceHand')
  BY SameRows DEF Service!Settled, Settled, ServiceHand, Service!Published
<1>2. committed = ServiceHand.committed /\ committed' = ServiceHand'.committed
  BY DEF ServiceHand
<1>3. Service!Abstract!Messages = Messages
  BY DEF Service!Abstract!Messages, Messages, Live!Messages
<1>4. CASE ServiceHand' = ServiceHand
  BY <1>1, <1>2, <1>4 DEF Service!Abstract!deliveryVars
<1>5. CASE Deals(ServiceHand, ServiceHand', table, table')
  <2>1. \/ Settled(ServiceHand') = Settled(ServiceHand)
        \/ /\ committed' = committed /\ ServiceHand'.inflight \in Messages
           /\ Settled(ServiceHand') = Settled(ServiceHand) \cup {ServiceHand'.inflight}
    BY <1>2, <1>5, DealsSettle DEF Groups
  <2>2. CASE Commits(ServiceHand, ServiceHand')
    <3> DEFINE g == ServiceHand
               m == g.inflight
    <3>1. /\ m \in Messages /\ m[2] = g.committed[m[1]] /\ m \in Settled(g)
          /\ committed' = [committed EXCEPT ![m[1]] = m[2] + 1]
      BY <1>2, <2>2 DEF Commits, Groups, HandOK, HandTypes, OneAhead, Ready, Busy, Settled
    <3>2. /\ m[1] \in Partitions /\ m[2] \in Nat /\ m[2] < Len(Log[m[1]])
          /\ m = <<m[1], m[2]>>
      BY <3>1, MessageFacts
    <3>3. Settled(ServiceHand') = Settled(g)
      BY <2>2 DEF Commits, SameDeeds, Settled
    <3>4. m[2] + 1 \in 1 .. Len(Log[m[1]])
      BY <3>2, TopicsAssumption
    <3>5. \A o \in 0 .. (m[2] + 1) - 1 : <<m[1], o>> \in Settled(g)
      <4> SUFFICES ASSUME NEW o \in 0 .. (m[2] + 1) - 1 PROVE <<m[1], o>> \in Settled(g)
        OBVIOUS
      <4>1. CASE o = m[2]
        BY <3>1, <3>2, <4>1
      <4>2. CASE o # m[2]
        <5>1. o \in Nat /\ o < m[2] /\ o < Len(Log[m[1]])
          BY <3>2, <4>2, TopicsAssumption
        <5>2. <<m[1], o>> \in Messages
          BY <3>2, <5>1, OffsetIsMessage
        <5>. QED  BY <3>1, <5>1, <5>2 DEF Groups, HandOK, Covered
      <4>. QED  BY <4>1, <4>2
    <3> HIDE DEF m, g
    <3>6. Service!Abstract!Commit
      BY <1>1, <3>1, <3>2, <3>3, <3>4, <3>5
      DEF Service!Abstract!Commit, Service!Abstract!SettledBelow, g
    <3>. QED  BY <3>6 DEF Service!Abstract!Next
  <2>3. CASE ~Commits(ServiceHand, ServiceHand')
    <3>1. committed' = committed
      BY <1>2, <1>5, <2>3
      DEF Deals, Writes, Stays, Begins, Ends, Joins, Takes, FailsToCommit, Publishes, SamePlace
    <3>. QED
      BY <1>1, <1>3, <2>1, <3>1
      DEF Service!Abstract!Next, Service!Abstract!Settle, Service!Abstract!deliveryVars
  <2>. QED  BY <2>2, <2>3
<1>. QED  BY <1>4, <1>5, GroupsStep DEF LiveMoves, ServiceMoves, NoneMoves

\* The bounded loop, its limit, its idle clock and its exits included, delivers
\* at least once: no offset of its group runs ahead of the work, whatever the
\* live transformer does beside it.
THEOREM ReplayImplementsDelivery == Spec => ReplayDelivers
<1>1. Init => Service!Abstract!Init
  <2>1. Service!Settled = Settled(ServiceHand)
    BY SameRows DEF Service!Settled, Settled, ServiceHand, Service!Published
  <2>. QED  BY <2>1, GroupsAtFirst DEF Init, Service!Init, Service!Abstract!Init
<1>2. Groups /\ [Next]_vars => [Service!Abstract!Next]_(Service!Abstract!deliveryVars)
  BY ServiceImplements
<1>. QED
  BY <1>1, <1>2, GroupsAlways, PTL
  DEF Spec, ReplayDelivers, Service!ImplementsDelivery, Service!Abstract!Spec

-----------------------------------------------------------------------------
(* Rows *)

\* Group g has dealt with m, or has its row in the table and is about to say so.
Done(g, m) ==
    \/ m[2] < g.committed[m[1]]
    \/ /\ g.inflight = m
       /\ g.pc \in {"commit", "dlq_commit", "publish"}
       /\ g.pc = "publish" => g.error = "commit"

\* The DLQ was told that the row of m is not there.
Dropped(g, m) == (\E e \in {"validation", "write"} : g.dlq[<<m, e>>] > 0) \/ m \in g.lost

\* The row of m, or of a later version, is in table t.
Good(t, m) == t[Key(m)] # None /\ t[Key(m)][2] >= m[2]

\* A key holds the row of a message that one of the groups has written there.
Stored(t, g, h) ==
    /\ t \in [RowKeys -> RowMessages \cup {None}]
    /\ \A k \in RowKeys : t[k] # None => Key(t[k]) = k /\ t[k] \in g.written \cup h.written

\* What both groups are done with is there or was dropped.
Kept(t, g, h) ==
    \A m \in RowMessages :
        Done(g, m) /\ Done(h, m) => Good(t, m) \/ Dropped(g, m) \/ Dropped(h, m)

\* Before it is started the replay has dealt with nothing.
Waiting ==
    outcome = "waiting" =>
        /\ ServiceHand.pc = "poll" /\ \A p \in Partitions : ServiceHand.committed[p] = 0

RowsKept == Stored(table, LiveHand, ServiceHand) /\ Kept(table, LiveHand, ServiceHand) /\ Waiting

LEMMA RowFacts ==
    ASSUME NEW m \in RowMessages
    PROVE  /\ m \in Messages /\ Key(m) \in RowKeys
           /\ m[1] \in Partitions /\ m[2] \in Nat
           /\ None \notin RowMessages
<1>1. RowMessages \subseteq Messages
  BY DEF RowMessages, Live!RowMessages, Messages
<1>2. Key(m) \in RowKeys
  BY DEF RowMessages, RowKeys, Live!RowKeys, Key
<1>3. None \notin RowMessages
  BY <1>1, TopicsAssumption DEF Messages
<1>. QED  BY <1>1, <1>2, <1>3, MessageFacts

\* The rows under one key are on one partition.
LEMMA RowsTogether ==
    ASSUME NEW m \in RowMessages, NEW n \in RowMessages, Key(m) = Key(n)
    PROVE  m[1] = n[1]
BY TopicsAssumption DEF RowMessages, Key

LEMMA StoredKept ==
    ASSUME NEW g, NEW h, NEW o, NEW t, NEW u, HandOK(g), Deals(g, h, t, u), Stored(t, g, o)
    PROVE  Stored(u, h, o)
<1>1. CASE u = t
  <2>1. g.written \subseteq h.written
    BY <1>1
    DEF Deals, Writes, Stays, Begins, Ends, Joins, Takes, Commits, FailsToCommit, Publishes,
        SameDeeds
  <2>. QED  BY <1>1, <2>1 DEF Stored
<1>2. CASE u # t
  <2>1. /\ g.inflight \in RowMessages /\ h.written = g.written \cup {g.inflight}
        /\ u = [t EXCEPT ![Key(g.inflight)] = g.inflight]
    BY <1>2 DEF Deals, Writes, HandOK, Ready
  <2>2. Key(g.inflight) \in RowKeys
    BY <2>1, RowFacts
  <2>. QED  BY <2>1, <2>2 DEF Stored
<1>. QED  BY <1>1, <1>2

\* What is dropped stays dropped.
LEMMA DroppedStays ==
    ASSUME NEW g, NEW h, NEW t, NEW u, HandOK(g), Deals(g, h, t, u),
           NEW m \in Messages, Dropped(g, m)
    PROVE  Dropped(h, m)
<1>1. CASE m \in g.lost
  BY <1>1 DEF Deals, Writes, Stays, Begins, Ends, Joins, Takes, Commits, FailsToCommit,
     Publishes, SameDeeds, Dropped
<1>2. CASE \E e \in {"validation", "write"} : g.dlq[<<m, e>>] > 0
  <2>1. PICK e \in {"validation", "write"} : g.dlq[<<m, e>>] > 0
    BY <1>2
  <2>2. CASE h.dlq = g.dlq
    BY <2>1, <2>2 DEF Dropped
  <2>3. CASE h.dlq # g.dlq
    <3>1. Publishes(g, h) /\ h.dlq = [g.dlq EXCEPT ![<<g.inflight, g.error>>] = @ + 1]
      BY <2>3 DEF Deals, Writes, Stays, Begins, Ends, Joins, Takes, Commits, FailsToCommit,
         Publishes, SameDeeds
    <3>2. <<m, e>> \in Messages \X Errors /\ g.dlq \in [Messages \X Errors -> Nat]
      BY ErrorKinds DEF HandOK, HandTypes
    <3>3. h.dlq[<<m, e>>] > 0
      BY <2>1, <3>1, <3>2
    <3>. QED  BY <3>3 DEF Dropped
  <2>. QED  BY <2>2, <2>3
<1>. QED  BY <1>1, <1>2 DEF Dropped

\* A row that is there stays, or is overwritten with a later version, when the
\* group that writes is beyond it.
LEMMA GoodStays ==
    ASSUME NEW g, NEW h, NEW o, NEW t, NEW u, HandOK(g), Deals(g, h, t, u), Stored(t, g, o),
           NEW m \in RowMessages, Done(g, m), Good(t, m)
    PROVE  Good(u, m)
<1>1. CASE u = t
  BY <1>1
<1>2. CASE u # t
  <2> DEFINE n == g.inflight
  <2>1. /\ n \in RowMessages /\ u = [t EXCEPT ![Key(n)] = n]
        /\ g.pc = "write" /\ n[2] = g.committed[n[1]]
    BY <1>2 DEF Deals, Writes, HandOK, Ready, OneAhead, Busy
  <2>2. /\ Key(m) \in RowKeys /\ Key(n) \in RowKeys
        /\ m[2] \in Nat /\ n[2] \in Nat /\ n # None
    BY <2>1, RowFacts
  <2>3. m[2] < g.committed[m[1]]
    BY <2>1 DEF Done
  <2> HIDE DEF n
  <2>4. CASE Key(m) = Key(n)
    <3>1. m[1] = n[1] /\ u[Key(m)] = n
      BY <2>1, <2>2, <2>4, RowsTogether DEF Stored
    <3>. QED  BY <2>1, <2>2, <2>3, <3>1 DEF Good
  <2>5. CASE Key(m) # Key(n)
    BY <2>1, <2>2, <2>5 DEF Good, Stored
  <2>. QED  BY <2>4, <2>5
<1>. QED  BY <1>1, <1>2

\* A message that a group has just become done with is there, or dropped.
LEMMA NewlyDone ==
    ASSUME NEW g, NEW h, NEW o, NEW t, NEW u, HandOK(g), Deals(g, h, t, u), Stored(t, g, o),
           NEW m \in RowMessages, Done(h, m), ~Done(g, m)
    PROVE  Good(u, m) \/ Dropped(h, m)
<1>1. m \in Messages /\ Key(m) \in RowKeys /\ m[2] \in Nat /\ m # None /\ m[1] \in Partitions
  BY RowFacts
<1>2. CASE Writes(g, h, t, u)
  <2>1. /\ g.inflight = m /\ u = [t EXCEPT ![Key(m)] = m]
    BY <1>2 DEF Writes, Done, SamePlace, SameMessage
  <2>2. u[Key(m)] = m
    BY <1>1, <2>1 DEF Stored
  <2>. QED  BY <1>1, <2>2 DEF Good
<1>3. CASE Publishes(g, h)
  <2>1. g.inflight = m /\ g.error # "commit"
    BY <1>3 DEF Publishes, Done, SamePlace, SameMessage
  <2>2. g.error \in {"validation", "write"}
    BY <1>3, <2>1, ErrorKinds DEF Publishes, HandOK, Ready
  <2>3. CASE h.lost = g.lost \cup {g.inflight}
    BY <2>1, <2>3 DEF Dropped
  <2>4. CASE h.dlq = [g.dlq EXCEPT ![<<g.inflight, g.error>>] = @ + 1]
    <3>1. g.dlq \in [Messages \X Errors -> Nat] /\ <<m, g.error>> \in Messages \X Errors
      BY <1>1, <2>2, ErrorKinds DEF HandOK, HandTypes
    <3>2. h.dlq[<<m, g.error>>] > 0
      BY <2>1, <2>4, <3>1
    <3>. QED  BY <2>2, <3>2 DEF Dropped
  <2>. QED  BY <1>3, <2>3, <2>4 DEF Publishes
<1>4. CASE Commits(g, h)
  <2>1. /\ g.inflight \in Messages /\ g.pc \in {"commit", "dlq_commit"}
        /\ h.committed = [g.committed EXCEPT ![g.inflight[1]] = g.inflight[2] + 1]
        /\ g.inflight[2] = g.committed[g.inflight[1]]
        /\ h.pc = "poll"
    BY <1>4 DEF Commits, HandOK, HandTypes, OneAhead, Busy
  <2>2. m[2] < h.committed[m[1]]
    BY <2>1 DEF Done
  <2>3. CASE m[1] # g.inflight[1]
    BY <1>1, <2>1, <2>2, <2>3 DEF Done, HandOK, HandTypes
  <2>4. CASE m[1] = g.inflight[1]
    <3>1. m[2] < g.inflight[2] + 1
      BY <1>1, <2>1, <2>2, <2>4 DEF HandOK, HandTypes
    <3>2. /\ m = <<m[1], m[2]>> /\ g.inflight = <<g.inflight[1], g.inflight[2]>>
          /\ g.inflight[2] \in Nat
      BY <1>1, <2>1, MessageFacts
    <3>3. m[2] = g.inflight[2] => m = g.inflight
      BY <2>4, <3>2
    <3>4. m[2] < g.inflight[2] \/ m[2] = g.inflight[2]
      BY <1>1, <3>1, <3>2
    <3>. QED  BY <2>1, <2>4, <3>3, <3>4 DEF Done
  <2>. QED  BY <2>3, <2>4
<1>5. CASE Takes(g, h)
  BY <1>5 DEF Takes, Done
<1>6. CASE Stays(g, h) \/ Begins(g, h) \/ Ends(g, h) \/ Joins(g, h) \/ FailsToCommit(g, h)
  BY <1>6 DEF Stays, Begins, Ends, Joins, FailsToCommit, Done, SamePlace, SameMessage
<1>. QED  BY <1>2, <1>3, <1>4, <1>5, <1>6 DEF Deals

LEMMA KeptStays ==
    ASSUME NEW g, NEW h, NEW o, NEW t, NEW u, HandOK(g), Deals(g, h, t, u),
           Stored(t, g, o), Kept(t, g, o)
    PROVE  Kept(u, h, o)
<1> SUFFICES ASSUME NEW m \in RowMessages, Done(h, m), Done(o, m)
             PROVE  Good(u, m) \/ Dropped(h, m) \/ Dropped(o, m)
  BY DEF Kept
<1>1. m \in Messages
  BY RowFacts
<1>2. CASE Done(g, m)
  BY <1>1, <1>2, GoodStays, DroppedStays DEF Kept
<1>3. CASE ~Done(g, m)
  BY <1>3, NewlyDone
<1>. QED  BY <1>2, <1>3

LEMMA Symmetric ==
    ASSUME NEW t, NEW g, NEW h
    PROVE  (Stored(t, g, h) <=> Stored(t, h, g)) /\ (Kept(t, g, h) <=> Kept(t, h, g))
BY DEF Stored, Kept

\* A replay that waits does nothing, and none waits again.
LEMMA WaitingIsQuiet ==
    ASSUME Groups, Waiting, [Next]_vars, outcome' = "waiting"
    PROVE  outcome = "waiting" /\ ServiceHand' = ServiceHand
<1>1. CASE LiveStep \/ RecreateKeyspace \/ UNCHANGED vars
  BY <1>1, ServiceStays DEF LiveStep, RecreateKeyspace, runVars, vars
<1>2. CASE Start \/ Tick \/ JoinGroup \/ PollMessage \/ ReachLimit \/ GiveUp \/ Fail
  BY <1>2 DEF Start, Tick, JoinGroup, PollMessage, ReachLimit, GiveUp, Fail, Exit, runVars
<1>3. CASE ProcessMessage
  <2>1. pc["replay"] # "poll" /\ outcome = "waiting"
    BY <1>3 DEF ProcessMessage, runVars, Service!WriteSucceeds, Service!WriteRaises,
       Service!CommitSucceeds, Service!CommitRaises, Service!PublishDelivered,
       Service!PublishLost, Service!DlqCommitSucceeds
  <2>. QED  BY <2>1 DEF Waiting, ServiceHand
<1>. QED  BY <1>1, <1>2, <1>3 DEF Next

LEMMA RowsAtFirst ==
    ASSUME Init
    PROVE  RowsKept
<1>1. table = [k \in RowKeys |-> None]
  BY DEF Init, Live!Init, RowKeys
<1>2. Waiting /\ \A p \in Partitions : ServiceHand.committed[p] = 0
  BY DEF Init, Service!Init, Waiting, ServiceHand
<1>3. ServiceHand.pc = "poll"
  BY DEF Init, Service!Init, ServiceHand
<1>4. Kept(table, LiveHand, ServiceHand)
  BY <1>2, <1>3, RowFacts DEF Kept, Done
<1>. QED  BY <1>1, <1>2, <1>4 DEF RowsKept, Stored

LEMMA RowsStep ==
    ASSUME Groups, RowsKept, [Next]_vars
    PROVE  RowsKept'
<1>1. Waiting'
  BY WaitingIsQuiet DEF RowsKept, Waiting
<1>2. CASE LiveMoves
  <2>1. Deals(LiveHand, LiveHand', table, table') /\ ServiceHand' = ServiceHand
    BY <1>2 DEF LiveMoves
  <2>2. Stored(table', LiveHand', ServiceHand) /\ Kept(table', LiveHand', ServiceHand)
    BY <2>1, StoredKept, KeptStays DEF Groups, RowsKept
  <2>. QED  BY <1>1, <2>1, <2>2 DEF RowsKept
<1>3. CASE ServiceMoves
  <2>1. Deals(ServiceHand, ServiceHand', table, table') /\ LiveHand' = LiveHand
    BY <1>3 DEF ServiceMoves
  <2>2. Stored(table, ServiceHand, LiveHand) /\ Kept(table, ServiceHand, LiveHand)
    BY Symmetric DEF RowsKept
  <2>3. Stored(table', ServiceHand', LiveHand) /\ Kept(table', ServiceHand', LiveHand)
    BY <2>1, <2>2, StoredKept, KeptStays DEF Groups
  <2>4. Stored(table', LiveHand, ServiceHand') /\ Kept(table', LiveHand, ServiceHand')
    BY <2>3, Symmetric
  <2>. QED  BY <1>1, <2>1, <2>4 DEF RowsKept
<1>4. CASE NoneMoves /\ table' = table
  BY <1>1, <1>4 DEF NoneMoves, RowsKept
<1>5. CASE NoneMoves /\ RecreateKeyspace
  <2>1. /\ outcome = "waiting" /\ table' = [k \in DOMAIN table |-> None]
        /\ LiveHand' = LiveHand /\ ServiceHand' = ServiceHand
    BY <1>5 DEF NoneMoves, RecreateKeyspace
  <2>2. Stored(table', LiveHand, ServiceHand)
    BY <2>1 DEF RowsKept, Stored
  <2>3. ASSUME NEW m \in RowMessages PROVE ~Done(ServiceHand, m)
    BY <2>1, RowFacts DEF RowsKept, Waiting, Done
  <2>4. Kept(table', LiveHand, ServiceHand)
    BY <2>3 DEF Kept
  <2>. QED  BY <1>1, <2>1, <2>2, <2>4 DEF RowsKept
<1>. QED  BY <1>2, <1>3, <1>4, <1>5, GroupsStep

LEMMA RowsAlways == Spec => []RowsKept
BY RowsAtFirst, RowsStep, GroupsAlways, PTL DEF Spec

\* A replay that has committed its topics to the end, beside a live transformer
\* that has nothing left to read, leaves every row in its last version or on
\* the DLQ: for any topics, crashes, redeliveries, failing calls, and however
\* often the keyspace was recreated before.
THEOREM CompleteReplaysRebuild == Spec => []CompleteReplayRebuilds
<1>1. Groups /\ RowsKept => CompleteReplayRebuilds
  <2> SUFFICES ASSUME Groups, RowsKept, Complete, LiveQuiet,
                      NEW m \in Service!RowMessages, m[1] \in ReplayTopics
               PROVE  \/ /\ table[Service!RowKey(Service!At(m))] # None
                         /\ table[Service!RowKey(Service!At(m))][2] >= m[2]
                      \/ DeadLettered(m)
    BY DEF CompleteReplayRebuilds, Rebuilt
  <2>1. m \in RowMessages /\ Service!RowKey(Service!At(m)) = Key(m)
    BY SameRows
  <2>2. m \in Messages
    BY <2>1, RowFacts
  <2>3. m[1] \in Partitions /\ m[2] < Len(Log[m[1]])
    BY <2>2, MessageFacts
  <2>4. Done(LiveHand, m) /\ Done(ServiceHand, m)
    BY <2>3 DEF Complete, LiveQuiet, Done, LiveHand, ServiceHand
  <2>5. Good(table, m) \/ Dropped(LiveHand, m) \/ Dropped(ServiceHand, m)
    BY <2>1, <2>4 DEF RowsKept, Kept
  <2>. QED  BY <2>1, <2>5 DEF Good, Dropped, DeadLettered, LiveHand, ServiceHand
<1>. QED  BY <1>1, GroupsAlways, RowsAlways, PTL

-----------------------------------------------------------------------------
(* The anomaly script *)

\* The pending payment is served.
Served == table[Key(Pending)] # None

\* From the count of the accepted payment on, the script goes on only with it.
Counted1 ==
    /\ step \in {"bad", "judge"} /\ accepted = 1 => Served
    /\ step = "gate" => Served
    /\ exit = 0 => Served
    /\ step # "done" => exit = None

Handled == Groups /\ Stored(table, LiveHand, ServiceHand) /\ Counted1

\* Both groups go on as in Replay; the script touches only the table, and that
\* before it counts.
LEMMA HarnessStep ==
    ASSUME [AnomalyNext]_harnessVars
    PROVE  Works \/ DeleteAnomalies
BY DEF AnomalyNext, LiveTransformer, BoundedRun, Script, WaitHttp, CleanSource, ListAnomalies,
   CountBefore, ExpectRejects, InsertAnomaly, StartConsumer, ConsumerEnds, CountAfter,
   CountAccepted, CountBad, Judge, Gate, harnessVars, vars, Start, Tick, Works

\* A key holds the pending payment or nothing of its id.
LEMMA PendingKey ==
    ASSUME Stored(table, LiveHand, ServiceHand), NEW k \in RowKeys, table[k] # None,
           k = Key(Pending) \/ Live!At(table[k]).id = Live!At(Pending).id
    PROVE  k = Key(Pending) /\ table[k] = Pending
<1>1. table[k] \in RowMessages /\ Key(table[k]) = k
  BY DEF Stored
<1>2. Key(table[k]) = Key(Pending) => Live!At(table[k]).id = Live!At(Pending).id
  BY DEF Key, Live!RowKey
<1>3. table[k] = Pending
  BY <1>1, <1>2, AnomalyAssumption DEF RowMessages
<1>. QED  BY <1>1, <1>3

LEMMA PendingFacts ==
    /\ Pending \in RowMessages /\ Key(Pending) \in RowKeys
    /\ Overpay \in Messages /\ Overpay[1] = Pending[1] /\ Overpay[2] < Pending[2]
<1>1. Pending \in RowMessages /\ Key(Pending) \in RowKeys
  BY AnomalyAssumption, RowFacts DEF RowMessages
<1>2. Len(Log[Payments]) \in Nat /\ History[Payments] \in Nat /\ Payments \in Partitions
      /\ History[Payments] <= Len(Log[Payments]) - 2
  BY AnomalyAssumption, TopicsAssumption DEF Overpay
<1>3. Len(Log[Payments]) - 2 \in Nat /\ Len(Log[Payments]) - 2 < Len(Log[Payments])
  BY <1>2
<1>4. Overpay \in Messages
  BY <1>2, <1>3, OffsetIsMessage DEF Overpay
<1>. QED  BY <1>1, <1>2, <1>4 DEF Overpay, Pending

\* One row has the id of the pending payment exactly when it is served.
LEMMA ServedIsOne ==
    ASSUME Stored(table, LiveHand, ServiceHand)
    PROVE  Rows(Pending) = IF Served THEN 1 ELSE 0
<1> DEFINE S == {k \in DOMAIN table :
                    table[k] # None /\ Live!At(table[k]).id = Live!At(Pending).id}
<1>1. DOMAIN table = RowKeys
  BY DEF Stored
<1>2. CASE Served
  <2>1. S = {Key(Pending)}
    BY <1>1, <1>2, PendingFacts, PendingKey DEF Served
  <2>. QED  BY <1>2, <2>1, FS_Singleton DEF Rows
<1>3. CASE ~Served
  <2>1. S = {}
    BY <1>1, <1>3, PendingKey DEF Served
  <2>. QED  BY <1>3, <2>1, FS_EmptySet DEF Rows
<1>. QED  BY <1>2, <1>3

\* What the script does with its counts.
LEMMA CountsStep ==
    ASSUME Counted1, Stored(table, LiveHand, ServiceHand), [AnomalyNext]_harnessVars,
           ~DeleteAnomalies, Served => Served'
    PROVE  Counted1'
<1>1. CASE LiveTransformer \/ BoundedRun \/ UNCHANGED harnessVars
  BY <1>1 DEF LiveTransformer, BoundedRun, harnessVars, scriptVars, countVars, Counted1
<1>2. CASE WaitHttp \/ CleanSource \/ ListAnomalies \/ CountBefore \/ ExpectRejects
           \/ InsertAnomaly \/ ConsumerEnds \/ CountAfter
  BY <1>2, AnomalyAssumption
  DEF WaitHttp, CleanSource, ListAnomalies, CountBefore, ExpectRejects, InsertAnomaly,
      ConsumerEnds, CountAfter, Goto, Dies, Counted1
<1>3. CASE StartConsumer
  BY <1>3 DEF StartConsumer, scriptVars, countVars, Counted1
<1>4. CASE CountAccepted
  <2>1. accepted' = 1 => Served
    BY <1>4, ServedIsOne DEF CountAccepted, CountedRows
  <2>. QED  BY <1>4, <2>1, AnomalyAssumption DEF CountAccepted, Goto, Counted1
<1>5. CASE CountBad \/ Judge
  BY <1>5, AnomalyAssumption DEF CountBad, Judge, CountsAgree, Goto, Dies, Counted1
<1>6. CASE Gate
  BY <1>6 DEF Gate, Counted1
<1>. QED
  BY <1>1, <1>2, <1>3, <1>4, <1>5, <1>6
  DEF AnomalyNext, Script

\* An upsert takes nothing away.
LEMMA ServedStays ==
    ASSUME NEW g, NEW h, HandOK(g), Deals(g, h, table, table'),
           Stored(table, LiveHand, ServiceHand), Served
    PROVE  Served'
<1>1. CASE table' = table
  BY <1>1 DEF Served
<1>2. CASE table' # table
  <2>1. /\ g.inflight \in RowMessages
        /\ table' = [table EXCEPT ![Key(g.inflight)] = g.inflight]
    BY <1>2 DEF Deals, Writes, HandOK, Ready
  <2>. QED  BY <2>1, RowFacts DEF Stored, Served
<1>. QED  BY <1>1, <1>2

LEMMA HandledStep ==
    ASSUME Handled, [AnomalyNext]_harnessVars
    PROVE  Handled'
<1>1. CASE DeleteAnomalies
  <2>1. /\ step = "delete" /\ step' \in {"before", "done"} /\ exit' # 0
        /\ step' # "done" => exit' = None
        /\ UNCHANGED <<groupVars, serviceVars>>
        /\ \/ table' = table
           \/ table' = [k \in DOMAIN table |-> IF k \in listed THEN None ELSE table[k]]
    BY <1>1, AnomalyAssumption DEF DeleteAnomalies, Goto, Dies, Handled, Counted1
  <2>2. Groups' /\ LiveHand' = LiveHand /\ ServiceHand' = ServiceHand
    BY <2>1, LiveStays, ServiceStays DEF Handled, Groups
  <2>3. Stored(table', LiveHand, ServiceHand)
    BY <2>1 DEF Handled, Stored
  <2>. QED  BY <2>1, <2>2, <2>3 DEF Handled, Counted1
<1>2. CASE ~DeleteAnomalies
  <2>1. Works
    BY <1>2, HarnessStep
  <2>2. Groups' /\ (LiveMoves \/ ServiceMoves \/ (NoneMoves /\ table' = table))
    BY <2>1, WorkMoves DEF Handled
  <2>3. CASE LiveMoves
    <3>1. Deals(LiveHand, LiveHand', table, table') /\ ServiceHand' = ServiceHand
      BY <2>3 DEF LiveMoves
    <3>2. Stored(table', LiveHand', ServiceHand')
      BY <3>1, StoredKept DEF Handled, Groups
    <3>3. Served => Served'
      BY <3>1, ServedStays DEF Handled, Groups
    <3>. QED  BY <1>2, <2>2, <3>2, <3>3, CountsStep DEF Handled
  <2>4. CASE ServiceMoves
    <3>1. Deals(ServiceHand, ServiceHand', table, table') /\ LiveHand' = LiveHand
      BY <2>4 DEF ServiceMoves
    <3>2. Stored(table, ServiceHand, LiveHand)
      BY Symmetric DEF Handled
    <3>3. Stored(table', ServiceHand', LiveHand)
      BY <3>1, <3>2, StoredKept DEF Handled, Groups
    <3>4. Stored(table', LiveHand', ServiceHand')
      BY <3>1, <3>3, Symmetric
    <3>5. Served => Served'
      BY <3>1, ServedStays DEF Handled, Groups
    <3>. QED  BY <1>2, <2>2, <3>4, <3>5, CountsStep DEF Handled
  <2>5. CASE NoneMoves /\ table' = table
    <3>1. Stored(table', LiveHand', ServiceHand')
      BY <2>5 DEF NoneMoves, Handled
    <3>2. Served => Served'
      BY <2>5 DEF Served
    <3>. QED  BY <1>2, <2>2, <3>1, <3>2, CountsStep DEF Handled
  <2>. QED  BY <2>2, <2>3, <2>4, <2>5
<1>. QED  BY <1>1, <1>2

LEMMA HandledAtFirst ==
    ASSUME AnomalyInit
    PROVE  Handled
<1>1. Init
  BY DEF AnomalyInit
<1>2. Groups /\ Stored(table, LiveHand, ServiceHand)
  BY <1>1, GroupsAtFirst, RowsAtFirst DEF RowsKept
<1>3. Counted1
  BY AnomalyAssumption DEF AnomalyInit, Counted1
<1>. QED  BY <1>2, <1>3 DEF Handled

LEMMA HandledAlways == AnomalySpec => []Handled
BY HandledAtFirst, HandledStep, PTL DEF AnomalySpec

\* A script that passes has the pending payment in Cassandra once and the
\* overpayment dealt with, whichever of its counts were wrong, whatever failed
\* in the two transformers, and however the bounded run ended: the pending row
\* can only be there once the group that wrote it is past the overpayment.
THEOREM PassedMeansHandled == AnomalySpec => []PassMeansHandled
<1>1. Handled => PassMeansHandled
  <2> SUFFICES ASSUME Handled, exit = 0
               PROVE  Rows(Pending) = 1 /\ SettledByAny(Overpay)
    BY DEF PassMeansHandled
  <2>1. Served /\ Rows(Pending) = 1
    BY ServedIsOne DEF Handled, Counted1
  <2>2. Pending \in liveWritten \cup written
    BY <2>1, PendingFacts, PendingKey DEF Handled, Stored, Served, LiveHand, ServiceHand
  <2>3. ASSUME NEW g, HandOK(g), Pending \in g.written PROVE Overpay \in Settled(g)
    <3>1. Pending[2] <= g.committed[Pending[1]]
      BY <2>3 DEF HandOK, Covered
    <3>2. Overpay[2] \in Nat /\ Pending[2] \in Nat /\ Overpay[1] \in Partitions
      BY PendingFacts, RowFacts, MessageFacts
    <3>3. Overpay[2] < g.committed[Overpay[1]]
      BY <2>3, <3>1, <3>2, PendingFacts DEF HandOK, HandTypes
    <3>. QED  BY <2>3, <3>3, PendingFacts DEF HandOK, Covered
  <2>4. Overpay \in Settled(LiveHand) \cup Settled(ServiceHand)
    BY <2>2, <2>3 DEF Handled, Groups, LiveHand, ServiceHand
  <2>5. Live!Settled = Settled(LiveHand) /\ Service!Settled = Settled(ServiceHand)
    BY SameRows DEF Live!Settled, Service!Settled, Settled, LiveHand, ServiceHand,
       Live!Published, Service!Published, Messages, Errors
  <2>. QED  BY <2>1, <2>4, <2>5 DEF SettledByAny
<1>. QED  BY <1>1, HandledAlways, PTL

-----------------------------------------------------------------------------
(* Why the script fails *)

Records == Messages \X Errors

\* Live!Messages is a finite union of finite sets.
LEMMA RecordsFinite == ASSUME IsFiniteSet(Partitions) PROVE IsFiniteSet(Records)
<1> DEFINE Of(p) == {p} \X (0 .. Len(Log[p]) - 1)
           All(P) == UNION {Of(p) : p \in P}
           X == {P \in SUBSET Partitions : IsFiniteSet(All(P))}
<1>1. ASSUME NEW P \in SUBSET Partitions, NEW p \in Partitions \ P, P \in X
      PROVE  P \cup {p} \in X
  <2>1. IsFiniteSet(Of(p))
    <3>1. 0 \in Int /\ Len(Log[p]) - 1 \in Int
      BY TopicsAssumption
    <3>2. IsFiniteSet(0 .. Len(Log[p]) - 1)
      BY <3>1, FS_Interval
    <3>. QED  BY <3>2, FS_Singleton, FS_Product
  <2>2. IsFiniteSet(All(P))
    BY <1>1
  <2>3. All(P \cup {p}) = All(P) \cup Of(p)
    <3>. HIDE DEF Of
    <3>. QED  OBVIOUS
  <2>. HIDE DEF All, Of
  <2>4. IsFiniteSet(All(P \cup {p}))
    BY <2>1, <2>2, <2>3, FS_Union
  <2>. QED  BY <2>4
<1>2. {} \in X
  <2>1. All({}) = {}
    OBVIOUS
  <2>2. IsFiniteSet(All({}))
    BY <2>1, FS_EmptySet
  <2>. HIDE DEF All
  <2>. QED  BY <2>2
<1>3. Partitions \in X
  <2>. HIDE DEF X
  <2>. QED  BY <1>1, <1>2, GrowingSets
<1>4. IsFiniteSet(Messages)
  BY <1>3 DEF Messages, Live!Messages
<1>5. IsFiniteSet(Errors)
  <2>1. Errors = {"mapping"} \cup {"validation"} \cup {"write"} \cup {"commit"}
    BY ErrorKinds
  <2>. QED  BY <2>1, FS_Singleton, FS_Union
<1>. QED  BY <1>4, <1>5, FS_Product DEF Records

\* The records a group has put on the DLQ.
Told(g) == SumFunctionOnSet(g.dlq, Records)

LEMMA ToldIsSum ==
    ASSUME HandOK(LiveHand), HandOK(ServiceHand)
    PROVE  DlqRecords = Told(LiveHand) + Told(ServiceHand)
<1>1. DOMAIN liveDlq = Records /\ DOMAIN dlq = Records
  BY DEF HandOK, HandTypes, LiveHand, ServiceHand, Records
<1>. QED  BY <1>1 DEF DlqRecords, SumFunction, Told, LiveHand, ServiceHand

LEMMA ToldType ==
    ASSUME IsFiniteSet(Partitions), NEW g, HandOK(g)
    PROVE  Told(g) \in Nat
<1>1. IsFiniteSet(Records)
  BY RecordsFinite
<1>2. \A r \in Records : g.dlq[r] \in Nat
  BY DEF HandOK, HandTypes, Records
<1> DEFINE zero == [r \in Records |-> 0]
<1>3. \A r \in Records : g.dlq[r] \in Int /\ zero[r] \in Int /\ zero[r] <= g.dlq[r]
  BY <1>2
<1>4. \A r \in Records : zero[r] = 0
  OBVIOUS
<1> HIDE DEF zero
<1>5. Told(g) \in Int
  BY <1>1, <1>3, SumType DEF Told
<1>6. SumFunctionOnSet(zero, Records) = 0
  BY <1>1, <1>4, SumOfZeros
<1>7. SumFunctionOnSet(zero, Records) <= Told(g)
  BY <1>1, <1>3, SumOfAtMost DEF Told
<1>. QED  BY <1>5, <1>6, <1>7

\* Nothing is taken off the DLQ.
LEMMA ToldGrows ==
    ASSUME IsFiniteSet(Partitions), NEW g, NEW h, NEW t, NEW u, HandOK(g), Deals(g, h, t, u)
    PROVE  Told(g) <= Told(h)
<1>1. IsFiniteSet(Records)
  BY RecordsFinite
<1>2. /\ g.dlq \in [Records -> Nat]
      /\ HandOK(h) /\ h.dlq \in [Records -> Nat]
  BY DealsKeep DEF HandOK, HandTypes, Records
<1>3. \A r \in Records : g.dlq[r] <= h.dlq[r]
  <2>1. CASE h.dlq = g.dlq
    BY <1>2, <2>1
  <2>2. CASE h.dlq # g.dlq
    <3>1. h.dlq = [g.dlq EXCEPT ![<<g.inflight, g.error>>] = @ + 1]
      BY <2>2 DEF Deals, Writes, Stays, Begins, Ends, Joins, Takes, Commits, FailsToCommit,
         Publishes, SameDeeds
    <3>. QED  BY <1>2, <3>1
  <2>. QED  BY <2>1, <2>2
<1>4. \A r \in Records : g.dlq[r] \in Int /\ h.dlq[r] \in Int
  BY <1>2
<1>. QED  BY <1>1, <1>3, <1>4, SumOfAtMost DEF Told

\* One record is enough.
LEMMA ToldOne ==
    ASSUME IsFiniteSet(Partitions), NEW g, HandOK(g), NEW r \in Records, g.dlq[r] > 0
    PROVE  Told(g) >= 1
<1>1. IsFiniteSet(Records)
  BY RecordsFinite
<1>2. g.dlq \in [Records -> Nat]
  BY DEF HandOK, HandTypes, Records
<1> DEFINE zero == [s \in Records |-> 0]
           one == [s \in Records |-> IF s = r THEN 1 ELSE 0]
<1>3. \A s \in Records : g.dlq[s] \in Int /\ one[s] \in Int /\ one[s] <= g.dlq[s]
  BY <1>2
<1>4. \A s \in Records : zero[s] = 0 /\ zero[s] \in Int
  OBVIOUS
<1>5. one[r] = 1 /\ \A s \in Records \ {r} : one[s] = zero[s]
  OBVIOUS
<1> HIDE DEF zero, one
<1>6. SumFunctionOnSet(zero, Records) = 0
  BY <1>1, <1>4, SumOfZeros
<1>7. SumFunctionOnSet(one, Records) = SumFunctionOnSet(zero, Records) + one[r] - zero[r]
  BY <1>1, <1>3, <1>4, <1>5, SumOfChange
<1>8. SumFunctionOnSet(one, Records) = 1
  BY <1>4, <1>5, <1>6, <1>7
<1>9. SumFunctionOnSet(one, Records) <= Told(g)
  BY <1>1, <1>3, SumOfAtMost DEF Told
<1>10. Told(g) \in Nat
  BY ToldType
<1>. QED  BY <1>8, <1>9, <1>10

-----------------------------------------------------------------------------
(* The bounded run, when nothing goes wrong *)

ServiceStep == JoinGroup \/ PollMessage \/ ProcessMessage \/ ReachLimit \/ GiveUp \/ Fail

\* The bounded run refuses the overpayment; without a fault it neither refuses
\* the pending payment nor loses a record.
Sober ==
    /\ faults \in Nat
    /\ Overpay \notin written
    /\ Busy(ServiceHand) => owner[inflight["replay"][1]] = "replay"
    /\ faults = 0 =>
        /\ dlqLost = {}
        /\ \A e \in Errors : dlq[<<Pending, e>>] = 0
        /\ pc["replay"] \in {"publish", "dlq_commit"} => inflight["replay"] # Pending

LEMMA PendingAdmitted ==
    ASSUME ~Strict, NEW mem
    PROVE  Service!Objection(mem, Service!At(Pending)) = None
<1>1. Service!At(Pending) = Live!At(Pending)
  BY DEF Service!At, Live!At
<1>2. Service!Verdict(Service!At(Pending)) = "row"
  BY <1>1, AnomalyAssumption, SameVerdict DEF Live!RowMessages, Live!HasRow
<1>3. Service!Admits(mem, Service!At(Pending))
  BY <1>1, AnomalyAssumption DEF Service!Admits, Service!PaymentIssues,
     Service!UnknownReferences, Service!Overpays
<1>. QED  BY <1>2, <1>3 DEF Service!Objection

LEMMA OverpayRefused ==
    /\ Overpay \notin RowMessages
    /\ \A mem : Service!Objection(mem, Service!At(Overpay)) # None
<1>1. Service!At(Overpay) = Live!At(Overpay) /\ Live!Verdict(Live!At(Overpay)) = "validation"
  BY AnomalyAssumption DEF Service!At, Live!At
<1>2. Overpay \notin RowMessages
  BY <1>1 DEF RowMessages, Live!RowMessages, Live!HasRow
<1>3. None # "validation"
  BY TopicsAssumption DEF Live!Errors
<1>4. Service!Verdict(Service!At(Overpay)) = "validation"
  BY <1>1, SameVerdict
<1>. QED  BY <1>2, <1>3, <1>4 DEF Service!Objection

LEMMA LiveFaults ==
    ASSUME faults \in Nat, Live!Next
    PROVE  faults' \in Nat /\ faults' >= faults
<1>1. ASSUME NEW kind, Live!Fault(kind) PROVE faults' = faults + 1
  BY <1>1 DEF Live!Fault
<1>2. faults' = faults \/ faults' = faults + 1
  BY <1>1 DEF Live!Next, Live!Crash, Live!Restart, Live!PollNothing, Live!Poll,
     Live!WriteSucceeds, Live!WriteRaises, Live!CommitSucceeds, Live!CommitRaises,
     Live!CommitRejected, Live!PublishDelivered, Live!PublishLost, Live!PublishRaises,
     Live!DlqCommitSucceeds, Live!DlqCommitRaises, Live!AssignOrphan, Live!Rebalance, Live!vars
<1>. QED  BY <1>2

\* The failing calls are faults.
LEMMA FailingCalls ==
    ASSUME Groups, Sober,
           \/ \E p \in Partitions : Service!Rebalance(p, "replay")
           \/ Fail
           \/ Service!WriteRaises("replay") \/ Service!CommitRaises("replay")
           \/ Service!PublishLost("replay")
    PROVE  faults' \in Nat /\ faults' > 0
<1>1. ASSUME NEW kind, Service!Fault(kind) PROVE faults' \in Nat /\ faults' > 0
  BY <1>1 DEF Service!Fault, Sober
<1>2. ASSUME pc["replay"] \in {"commit", "dlq_commit"}, Service!CommitRejected("replay")
      PROVE  Service!Fault("commit")
  BY <1>2 DEF Service!CommitRejected, Sober, Busy, ServiceHand
<1>. QED
  BY <1>1, <1>2
  DEF Fail, Service!Rebalance, Service!Crash, Service!PublishRaises, Service!DlqCommitRaises,
      Service!WriteRaises, Service!CommitRaises, Service!PublishLost

\* What any step of the bounded run keeps, faults or not.
LEMMA OwnsInHand ==
    ASSUME Groups, Sober, ServiceStep
    PROVE  Busy(ServiceHand') => owner'[inflight'["replay"][1]] = "replay"
<1> SUFFICES ASSUME Busy(ServiceHand')
             PROVE  owner'[inflight'["replay"][1]] = "replay"
  OBVIOUS
<1>1. pc'["replay"] \notin {"poll", "down"} /\ ServiceShaped /\ ServiceShaped'
  BY ServiceDeals DEF Busy, ServiceHand, Groups, ServiceStep
<1>2. CASE PollMessage
  BY <1>1, <1>2 DEF PollMessage, Service!Poll, ServiceShaped
<1>3. CASE ProcessMessage
  <2>1. pc["replay"] \notin {"poll", "down"} /\ UNCHANGED <<owner, inflight>>
    BY <1>1, <1>3 DEF ProcessMessage, ServiceShaped, Service!WriteSucceeds,
       Service!WriteRaises, Service!CommitSucceeds, Service!CommitRaises,
       Service!PublishDelivered, Service!PublishLost, Service!DlqCommitSucceeds,
       Service!Return, Service!brokerVars, Service!storeVars
  <2>. QED  BY <2>1 DEF Sober, Busy, ServiceHand
<1>4. CASE JoinGroup
  BY <1>1, <1>4 DEF JoinGroup, Service!AssignOrphan, Service!Rebalance, Service!Assign,
     Service!workerVars
<1>5. CASE ReachLimit \/ GiveUp \/ Fail
  BY <1>1, <1>5 DEF ReachLimit, GiveUp, Fail, Exit, Service!Crash, Service!PublishRaises,
     Service!DlqCommitRaises, Service!Dies, ServiceShaped
<1>. QED  BY <1>2, <1>3, <1>4, <1>5 DEF ServiceStep

\* The overpayment is never written.
LEMMA OverpayStaysOut ==
    ASSUME Groups, Sober, ServiceStep
    PROVE  Overpay \notin written'
<1>1. CASE PollMessage
  <2>1. PICK p \in Partitions :
          written' = IF /\ Service!Objection(memory["replay"],
                                           Service!At(<<p, position[p]>>)) = None
                        /\ ~<<p, position[p]>> \in Service!RowMessages
                     THEN written \cup {<<p, position[p]>>} ELSE written
    BY <1>1 DEF PollMessage, Service!Poll
  <2>. QED  BY <2>1, OverpayRefused DEF Sober
<1>2. CASE ProcessMessage
  <2>1. written' = written
        \/ (pc["replay"] = "write" /\ written' = written \cup {inflight["replay"]})
    BY <1>2 DEF ProcessMessage, Service!WriteSucceeds, Service!WriteRaises, Service!Upsert,
       Service!CommitSucceeds, Service!CommitRaises, Service!PublishDelivered,
       Service!PublishLost, Service!DlqCommitSucceeds, Service!storeVars
  <2>2. pc["replay"] = "write" => inflight["replay"] \in RowMessages
    BY DEF Groups, HandOK, Ready, ServiceHand
  <2>. QED  BY <2>1, <2>2, OverpayRefused DEF Sober
<1>3. CASE JoinGroup \/ ReachLimit \/ GiveUp \/ Fail
  <2>1. written' = written
    BY <1>3 DEF JoinGroup, Service!AssignOrphan, Service!Rebalance, Service!Assign,
       Service!storeVars, ReachLimit, GiveUp, Fail, Exit, Service!Crash,
       Service!PublishRaises, Service!DlqCommitRaises
  <2>. QED  BY <2>1 DEF Sober
<1>. QED  BY <1>1, <1>2, <1>3 DEF ServiceStep

LEMMA SoberStep ==
    ASSUME ~Strict, Groups, Sober, ServiceStep
    PROVE  Sober'
<1>1. Overpay \notin written'
  BY OverpayStaysOut
<1>2. (Busy(ServiceHand) => owner[inflight["replay"][1]] = "replay")'
  BY OwnsInHand DEF Busy, ServiceHand
<1>3. CASE \/ \E p \in Partitions : Service!Rebalance(p, "replay")
           \/ Fail
           \/ Service!WriteRaises("replay") \/ Service!CommitRaises("replay")
           \/ Service!PublishLost("replay")
  <2>1. faults' \in Nat /\ faults' > 0
    BY <1>3, FailingCalls
  <2>. QED  BY <1>1, <1>2, <2>1 DEF Sober
<1>4. ASSUME UNCHANGED faults,
             faults = 0 =>
                /\ dlqLost' = {}
                /\ \A e \in Errors : dlq'[<<Pending, e>>] = 0
                /\ pc'["replay"] \in {"publish", "dlq_commit"} => inflight'["replay"] # Pending
      PROVE  Sober'
  BY <1>1, <1>2, <1>4 DEF Sober
<1>5. CASE PollMessage
  <2>1. PICK p \in Partitions :
          LET m == <<p, position[p]>>
              objection == Service!Objection(memory["replay"], Service!At(m))
          IN  /\ inflight' = [inflight EXCEPT !["replay"] = m]
              /\ pc' = [pc EXCEPT !["replay"] =
                            IF objection # None THEN "publish"
                            ELSE IF m \in Service!RowMessages THEN "write" ELSE "commit"]
    BY <1>5 DEF PollMessage, Service!Poll
  <2>2. pc'["replay"] \in {"publish", "dlq_commit"} => inflight'["replay"] # Pending
    BY <2>1, PendingAdmitted DEF Groups, ServiceShaped
  <2>3. UNCHANGED <<faults, dlq, dlqLost>>
    BY <1>5 DEF PollMessage, Service!Poll
  <2>. QED  BY <1>4, <2>2, <2>3 DEF Sober
<1>6. CASE Service!WriteSucceeds("replay") \/ Service!CommitSucceeds("replay")
           \/ Service!DlqCommitSucceeds("replay")
  <2>1. /\ pc'["replay"] \notin {"publish", "dlq_commit"}
        /\ UNCHANGED <<faults, dlq, dlqLost>>
    BY <1>6 DEF Service!WriteSucceeds, Service!CommitSucceeds, Service!DlqCommitSucceeds,
       Service!Return, Service!brokerVars, Groups, ServiceShaped
  <2>. QED  BY <1>4, <2>1 DEF Sober
<1>7. CASE Service!PublishDelivered("replay")
  <2>1. /\ pc["replay"] = "publish" /\ UNCHANGED <<faults, dlqLost, inflight>>
        /\ dlq' = [dlq EXCEPT ![<<inflight["replay"], error["replay"]>>] = @ + 1]
    BY <1>7 DEF Service!PublishDelivered
  <2>2. dlq \in [Messages \X Errors -> Nat] /\ Pending \in Messages
    BY PendingFacts, RowFacts DEF Groups, HandOK, HandTypes, ServiceHand
  <2>3. ASSUME inflight["replay"] # Pending, NEW e \in Errors
        PROVE  dlq'[<<Pending, e>>] = dlq[<<Pending, e>>]
    BY <2>1, <2>2, <2>3
  <2>. QED  BY <1>4, <2>1, <2>3 DEF Sober
<1>8. CASE ReachLimit \/ GiveUp
  <2>1. pc'["replay"] = "down" /\ UNCHANGED <<faults, dlq, dlqLost>>
    BY <1>8 DEF ReachLimit, GiveUp, Exit, Service!Dies, Groups, ServiceShaped
  <2>. QED  BY <1>4, <2>1 DEF Sober
<1>9. ASSUME NEW p \in Partitions, Service!AssignOrphan(p, "replay")
      PROVE  Sober'
  <2>1. pc'["replay"] = "poll" /\ UNCHANGED <<faults, dlq, dlqLost>>
    BY <1>9 DEF Service!AssignOrphan, Service!Assign, Service!workerVars
  <2>. QED  BY <1>4, <2>1 DEF Sober
<1>. QED
  BY <1>3, <1>5, <1>6, <1>7, <1>8, <1>9, ReplayAssumption DEF ServiceStep, ProcessMessage, JoinGroup

LEMMA SoberStays ==
    ASSUME Sober, UNCHANGED serviceVars, faults' \in Nat, faults' >= faults
    PROVE  Sober'
BY DEF Sober, serviceVars, Busy, ServiceHand

\* What the bounded run leaves when it was sober and has read everything.
LEMMA SoberEnds ==
    ASSUME IsFiniteSet(Partitions), Groups, Sober, Complete, faults = 0
    PROVE  Pending \in written /\ Told(ServiceHand) >= 1
<1>1. ReplayTopics = Partitions /\ Payments \in Partitions
  BY AnomalyAssumption
<1>2. /\ Pending \in Messages /\ Overpay \in Messages
      /\ Pending[1] \in Partitions /\ Overpay[1] \in Partitions
  BY PendingFacts, RowFacts, MessageFacts
<1>3. /\ Pending[2] < ServiceHand.committed[Pending[1]]
      /\ Overpay[2] < ServiceHand.committed[Overpay[1]]
  BY <1>1, <1>2, MessageFacts DEF Complete, ServiceHand
<1>4. Pending \in Settled(ServiceHand) /\ Overpay \in Settled(ServiceHand)
  BY <1>2, <1>3 DEF Groups, HandOK, Covered
<1>5. Pending \in written
  <2>1. \A e \in Errors : ~(ServiceHand.dlq[<<Pending, e>>] > 0)
    <3>1. \A e \in Errors : ServiceHand.dlq[<<Pending, e>>] = 0
      BY DEF Sober, ServiceHand
    <3>. QED  BY <3>1
  <2>2. Pending \notin ServiceHand.lost
    BY DEF Sober, ServiceHand
  <2>3. Pending \in ServiceHand.written
    BY <1>4, <2>1, <2>2 DEF Settled
  <2>. QED  BY <2>3 DEF ServiceHand
<1>6. \E e \in Errors : dlq[<<Overpay, e>>] > 0
  BY <1>4 DEF Settled, Sober, ServiceHand
<1>7. PICK e \in Errors : dlq[<<Overpay, e>>] > 0
  BY <1>6
<1>8. <<Overpay, e>> \in Records /\ ServiceHand.dlq[<<Overpay, e>>] > 0
  BY <1>2, <1>7 DEF Records, ServiceHand
<1>. QED  BY <1>5, <1>8, ToldOne DEF Groups

-----------------------------------------------------------------------------
(* The counts *)

BeforeRun == {"wait", "cleanup", "list", "delete", "before", "rejects", "insert"}
AfterRun == {"after", "accepted", "bad", "judge"}

\* The run is in the middle of the script.
Phases ==
    /\ outcome \in {"waiting", "running"} \cup Outcomes
    /\ outcome = "waiting" =>
        /\ pc["replay"] = "poll" /\ written = {}
        /\ \A r \in Records : dlq[r] = 0
    /\ outcome \in Outcomes => pc["replay"] = "down"
    /\ step \in BeforeRun => outcome = "waiting"
    /\ step \in AfterRun => outcome \in Outcomes

LEMMA RunGoesOn ==
    ASSUME Groups, Phases, ServiceStep
    PROVE  /\ outcome = "running" /\ outcome' \in {"running"} \cup Outcomes
           /\ outcome' \in Outcomes => pc'["replay"] = "down"
<1>. USE DEF Outcomes
<1>1. CASE JoinGroup \/ PollMessage
  BY <1>1 DEF JoinGroup, PollMessage, runVars
<1>2. CASE ProcessMessage
  <2>1. pc["replay"] \notin {"poll", "down"} /\ outcome' = outcome
    BY <1>2 DEF ProcessMessage, runVars, Service!WriteSucceeds, Service!WriteRaises,
       Service!CommitSucceeds, Service!CommitRaises, Service!PublishDelivered,
       Service!PublishLost, Service!DlqCommitSucceeds
  <2>. QED  BY <2>1 DEF Phases
<1>3. CASE ReachLimit \/ GiveUp \/ Fail
  <2>1. Service!Dies("replay") /\ outcome = "running" /\ outcome' \in Outcomes
    BY <1>3 DEF ReachLimit, GiveUp, Fail, Exit, Service!Crash, Service!PublishRaises,
       Service!DlqCommitRaises
  <2>2. pc'["replay"] = "down"
    BY <2>1 DEF Service!Dies, Groups, ServiceShaped
  <2>. QED  BY <2>1, <2>2
<1>. QED  BY <1>1, <1>2, <1>3 DEF ServiceStep

\* What the steps of the script leave alone.
ScriptStep == Script /\ ~StartConsumer

LEMMA ScriptLeaves ==
    ASSUME ScriptStep
    PROVE  /\ UNCHANGED <<faults, groupVars, serviceVars, runVars>>
           /\ table' = table \/ DeleteAnomalies
BY DEF ScriptStep, Script, WaitHttp, CleanSource, ListAnomalies, DeleteAnomalies, CountBefore,
   ExpectRejects, InsertAnomaly, ConsumerEnds, CountAfter, CountAccepted, CountBad, Judge,
   Gate, vars

\* The order of the commands.
LEMMA ScriptOrder ==
    ASSUME ScriptStep
    PROVE  /\ step' \in BeforeRun => step \in BeforeRun
           /\ step' \in AfterRun => step \in AfterRun \/ outcome \in Outcomes
BY DEF ScriptStep, Script, WaitHttp, CleanSource, ListAnomalies, DeleteAnomalies, CountBefore,
   ExpectRejects, InsertAnomaly, ConsumerEnds, CountAfter, CountAccepted, CountBad, Judge,
   Gate, Goto, Dies, BeforeRun, AfterRun

LEMMA PhasesStep ==
    ASSUME Groups, Phases, [AnomalyNext]_harnessVars
    PROVE  Phases'
<1>1. CASE LiveTransformer \/ UNCHANGED harnessVars
  BY <1>1 DEF LiveTransformer, LiveStep, harnessVars, scriptVars, vars, serviceVars, runVars,
     Phases
<1>2. CASE Tick /\ UNCHANGED scriptVars
  BY <1>2 DEF Tick, scriptVars, serviceVars, Phases
<1>3. CASE ServiceStep /\ UNCHANGED scriptVars
  <2>1. /\ outcome = "running" /\ outcome' \in {"running"} \cup Outcomes
        /\ outcome' \in Outcomes => pc'["replay"] = "down"
    BY <1>3, RunGoesOn
  <2>2. step \notin BeforeRun /\ step \notin AfterRun /\ step' = step
    BY <1>3, <2>1 DEF Phases, Outcomes, scriptVars
  <2>. QED  BY <2>1, <2>2 DEF Phases, Outcomes
<1>4. CASE StartConsumer
  <2>1. step = "consume" /\ step' = "consume" /\ outcome' = "running"
    BY <1>4 DEF StartConsumer, Start, scriptVars
  <2>. QED  BY <2>1 DEF Phases, Outcomes, BeforeRun, AfterRun
<1>5. CASE ScriptStep
  <2>1. UNCHANGED <<pc, written, dlq, outcome>>
    BY <1>5, ScriptLeaves DEF serviceVars, runVars
  <2>2. /\ step' \in BeforeRun => step \in BeforeRun
        /\ step' \in AfterRun => step \in AfterRun \/ outcome \in Outcomes
    BY <1>5, ScriptOrder
  <2>. QED  BY <2>1, <2>2 DEF Phases
<1>. QED  BY <1>1, <1>2, <1>3, <1>4, <1>5 DEF AnomalyNext, BoundedRun, ServiceStep, ScriptStep

-----------------------------------------------------------------------------

\* What the bounded run has written of the pending payment is served.
WrittenServed == Pending \in written => Served

LEMMA WrittenServedStep ==
    ASSUME Groups, Stored(table, LiveHand, ServiceHand), Phases, WrittenServed,
           [AnomalyNext]_harnessVars
    PROVE  WrittenServed'
<1>1. CASE DeleteAnomalies
  <2>1. written' = written /\ written = {}
    BY <1>1 DEF DeleteAnomalies, serviceVars, Phases, BeforeRun
  <2>. QED  BY <2>1 DEF WrittenServed
<1>2. CASE ~DeleteAnomalies
  <2>1. LiveMoves \/ ServiceMoves \/ (NoneMoves /\ table' = table)
    BY <1>2, HarnessStep, WorkMoves
  <2>2. CASE LiveMoves
    <3>1. Deals(LiveHand, LiveHand', table, table') /\ written' = written
      BY <2>2 DEF LiveMoves, ServiceHand
    <3>. QED  BY <3>1, ServedStays DEF WrittenServed, Groups
  <2>3. CASE ServiceMoves
    <3>1. Deals(ServiceHand, ServiceHand', table, table')
      BY <2>3 DEF ServiceMoves
    <3>2. Served => Served'
      BY <3>1, ServedStays DEF Groups
    <3>3. CASE written' = written
      BY <3>2, <3>3 DEF WrittenServed
    <3>4. CASE Writes(ServiceHand, ServiceHand', table, table') /\ written' # written
      <4>1. /\ table' = [table EXCEPT ![Key(inflight["replay"])] = inflight["replay"]]
            /\ written' = written \cup {inflight["replay"]}
        BY <3>4 DEF Writes, ServiceHand
      <4>2. table'[Key(Pending)] = Pending \/ inflight["replay"] # Pending
        BY <4>1, PendingFacts DEF Stored
      <4>3. Pending # None
        BY PendingFacts, RowFacts
      <4>. QED  BY <3>2, <4>1, <4>2, <4>3 DEF WrittenServed, Served
    <3>5. CASE Takes(ServiceHand, ServiceHand') /\ written' # written
      <4>1. written' = written \cup {inflight'["replay"]} /\ inflight'["replay"] \notin RowMessages
        BY <3>5 DEF Takes, ServiceHand
      <4>. QED  BY <3>2, <4>1, PendingFacts DEF WrittenServed
    <3>. QED
      BY <3>1, <3>3, <3>4, <3>5
      DEF Deals, Stays, Begins, Ends, Joins, Commits, FailsToCommit, Publishes, SameDeeds,
          ServiceHand
  <2>4. CASE NoneMoves /\ table' = table
    BY <2>4 DEF NoneMoves, ServiceHand, WrittenServed, Served
  <2>. QED  BY <2>1, <2>2, <2>3, <2>4
<1>. QED  BY <1>1, <1>2

\* The counts, as long as none was misread: the first was made before the run,
\* the others after it.  The live transformer only adds to the DLQ.
CountedBefore ==
    step \in {"rejects", "insert", "consume"} \cup AfterRun =>
        beforeDlq \in Nat /\ beforeDlq <= Told(LiveHand)

CountedAfter ==
    step \in {"accepted", "bad", "judge"} =>
        afterDlq \in Nat /\ beforeDlq + Told(ServiceHand) <= afterDlq

CountedRight ==
    /\ step \in {"bad", "judge"} /\ Pending \in written => accepted = 1
    /\ step = "judge" => bad = 0

Tallied == ~misread => CountedBefore /\ CountedAfter /\ CountedRight

\* No row has the id of the overpayment.
LEMMA NoBadRow == ASSUME Stored(table, LiveHand, ServiceHand) PROVE Rows(Overpay) = 0
<1>1. {k \in DOMAIN table : table[k] # None /\ Live!At(table[k]).id = Live!At(Overpay).id} = {}
  BY AnomalyAssumption DEF Stored, RowMessages
<1>. QED  BY <1>1, FS_EmptySet DEF Rows

LEMMA ToldNothing ==
    ASSUME IsFiniteSet(Partitions), Phases, outcome = "waiting"
    PROVE  Told(ServiceHand) = 0
<1>1. \A r \in Records : ServiceHand.dlq[r] = 0
  BY DEF Phases, ServiceHand
<1>. QED  BY <1>1, RecordsFinite, SumOfZeros DEF Told

\* A step of either transformer leaves the tally right.
LEMMA WorkTallies ==
    ASSUME IsFiniteSet(Partitions), Groups, Phases, Tallied,
           LiveMoves \/ (ServiceMoves /\ outcome = "running") \/ NoneMoves,
           UNCHANGED scriptVars
    PROVE  Tallied'
<1> SUFFICES ASSUME ~misread, Tallied
             PROVE  CountedBefore' /\ CountedAfter' /\ CountedRight'
  BY DEF Tallied, scriptVars, countVars
<1>1. UNCHANGED <<step, beforeDlq, afterDlq, accepted, bad>>
  BY DEF scriptVars, countVars
<1>2. /\ Told(LiveHand) \in Nat /\ Told(LiveHand') >= Told(LiveHand)
      /\ Told(LiveHand') \in Nat
  <2>1. HandOK(LiveHand')
    BY DealsKeep DEF LiveMoves, ServiceMoves, NoneMoves, Groups
  <2>2. Told(LiveHand) \in Nat /\ Told(LiveHand') \in Nat
    BY <2>1, ToldType DEF Groups
  <2>3. Told(LiveHand') >= Told(LiveHand)
    BY <2>2, ToldGrows DEF LiveMoves, ServiceMoves, NoneMoves, Groups
  <2>. QED  BY <2>2, <2>3
<1>3. CountedBefore'
  BY <1>1, <1>2 DEF Tallied, CountedBefore
<1>4. step \in AfterRun => ServiceHand' = ServiceHand
  BY DEF LiveMoves, NoneMoves, Phases, Outcomes
<1>5. CountedAfter'
  BY <1>1, <1>4 DEF Tallied, CountedAfter, AfterRun
<1>6. CountedRight'
  BY <1>1, <1>4 DEF Tallied, CountedRight, AfterRun, ServiceHand
<1>. QED  BY <1>3, <1>5, <1>6

\* A count does, too.
LEMMA ScriptTallies ==
    ASSUME IsFiniteSet(Partitions), Groups, Stored(table, LiveHand, ServiceHand), Phases,
           WrittenServed, Tallied, ScriptStep
    PROVE  Tallied'
<1> SUFFICES ASSUME ~misread'
             PROVE  CountedBefore' /\ CountedAfter' /\ CountedRight'
  BY DEF Tallied
<1>1. /\ LiveHand' = LiveHand /\ ServiceHand' = ServiceHand /\ written' = written
  BY ScriptLeaves, LiveStays, ServiceStays DEF serviceVars
<1>2. Told(LiveHand) \in Nat /\ Told(ServiceHand) \in Nat
      /\ DlqRecords = Told(LiveHand) + Told(ServiceHand)
  BY ToldType, ToldIsSum DEF Groups
<1>3. CASE CountBefore
  <2>1. /\ step = "before" /\ step' = "rejects" /\ beforeDlq' = DlqRecords
    BY <1>3 DEF CountBefore, Goto
  <2>2. Told(ServiceHand) = 0
    BY <2>1, ToldNothing DEF Phases, BeforeRun
  <2>3. CountedBefore'
    BY <1>1, <1>2, <2>1, <2>2 DEF CountedBefore
  <2>. QED  BY <2>1, <2>3 DEF CountedAfter, CountedRight
<1>4. CASE CountAfter
  <2>1. /\ step = "after" /\ step' \in {"accepted", "done"} /\ afterDlq' = DlqRecords
        /\ beforeDlq' = beforeDlq /\ ~misread
    BY <1>4 DEF CountAfter, Goto, Dies
  <2>2. beforeDlq \in Nat /\ beforeDlq <= Told(LiveHand)
    BY <2>1 DEF Tallied, CountedBefore, AfterRun
  <2>3. CountedBefore' /\ CountedAfter'
    BY <1>1, <1>2, <2>1, <2>2 DEF CountedBefore, CountedAfter
  <2>. QED  BY <2>1, <2>3 DEF CountedRight
<1>5. CASE CountAccepted
  <2>1. /\ step = "accepted" /\ step' = "bad" /\ accepted' = Rows(Pending) /\ ~misread
        /\ UNCHANGED <<beforeDlq, afterDlq>>
    BY <1>5 DEF CountAccepted, Goto
  <2>2. Pending \in written => accepted' = 1
    BY <2>1, ServedIsOne DEF WrittenServed
  <2>. QED  BY <1>1, <2>1, <2>2 DEF Tallied, CountedBefore, CountedAfter, CountedRight, AfterRun
<1>6. CASE CountBad
  <2>1. /\ step = "bad" /\ step' = "judge" /\ bad' = Rows(Overpay) /\ ~misread
        /\ UNCHANGED <<beforeDlq, afterDlq, accepted>>
    BY <1>6 DEF CountBad, Goto
  <2>. QED
    BY <1>1, <2>1, NoBadRow DEF Tallied, CountedBefore, CountedAfter, CountedRight, AfterRun
<1>7. CASE WaitHttp \/ CleanSource \/ ListAnomalies \/ DeleteAnomalies \/ Gate \/ Judge
  <2>1. step' \in {"cleanup", "before", "list", "delete", "gate", "done"}
    BY <1>7 DEF WaitHttp, CleanSource, ListAnomalies, DeleteAnomalies, Gate, Judge, Goto, Dies
  <2>. QED  BY <2>1 DEF CountedBefore, CountedAfter, CountedRight, AfterRun
<1>8. CASE ExpectRejects \/ InsertAnomaly \/ ConsumerEnds
  <2>1. /\ UNCHANGED <<beforeDlq, misread>> /\ step \in {"rejects", "insert", "consume"}
        /\ step' \in {"insert", "consume", "after", "done"}
    BY <1>8 DEF ExpectRejects, InsertAnomaly, ConsumerEnds, countVars, Goto, Dies
  <2>. QED
    BY <1>1, <2>1 DEF Tallied, CountedBefore, CountedAfter, CountedRight, AfterRun
<1>. QED  BY <1>3, <1>4, <1>5, <1>6, <1>7, <1>8 DEF ScriptStep, Script

-----------------------------------------------------------------------------

Explained == Sober /\ Phases /\ WrittenServed /\ Tallied

LEMMA ExplainedStep ==
    ASSUME IsFiniteSet(Partitions), ~Strict, Handled, Explained, [AnomalyNext]_harnessVars
    PROVE  Explained'
<1>. USE DEF Explained, Handled
<1>1. Phases' /\ WrittenServed'
  BY PhasesStep, WrittenServedStep
<1>2. CASE LiveTransformer
  <2>1. Live!Next /\ UNCHANGED <<serviceVars, runVars, scriptVars>> /\ LiveStep
    BY <1>2 DEF LiveTransformer, LiveStep
  <2>2. Sober'
    BY <2>1, LiveFaults, SoberStays DEF Sober
  <2>3. ServiceHand' = ServiceHand /\ Deals(LiveHand, LiveHand', table, table')
    BY <2>1, ServiceStays, LiveDeals DEF Groups
  <2>4. Tallied'
    BY <2>1, <2>3, WorkTallies DEF LiveMoves
  <2>. QED  BY <1>1, <2>2, <2>4
<1>3. CASE ServiceStep /\ UNCHANGED scriptVars
  <2>1. Sober'
    BY <1>3, SoberStep
  <2>2. Deals(ServiceHand, ServiceHand', table, table') /\ LiveHand' = LiveHand
    BY <1>3, ServiceDeals, LiveStays
    DEF ServiceStep, JoinGroup, PollMessage, ProcessMessage, ReachLimit, GiveUp, Exit, Fail, Groups
  <2>3. outcome = "running"
    BY <1>3, RunGoesOn
  <2>4. Tallied'
    BY <1>3, <2>2, <2>3, WorkTallies DEF ServiceMoves
  <2>. QED  BY <1>1, <2>1, <2>4
<1>4. CASE (Tick /\ UNCHANGED scriptVars) \/ StartConsumer \/ UNCHANGED harnessVars
  <2>1. UNCHANGED <<faults, groupVars, serviceVars, scriptVars>>
    BY <1>4 DEF Tick, StartConsumer, Start, harnessVars, vars
  <2>2. Sober'
    BY <2>1, SoberStays DEF Sober
  <2>3. Tallied'
    BY <2>1, LiveStays, ServiceStays, WorkTallies DEF NoneMoves
  <2>. QED  BY <1>1, <2>2, <2>3
<1>5. CASE ScriptStep
  <2>1. Sober'
    BY <1>5, ScriptLeaves, SoberStays DEF Sober
  <2>. QED  BY <1>1, <1>5, <2>1, ScriptTallies
<1>. QED  BY <1>2, <1>3, <1>4, <1>5 DEF AnomalyNext, BoundedRun, ServiceStep, ScriptStep

LEMMA ExplainedAtFirst == ASSUME AnomalyInit PROVE Explained
<1>1. /\ step = "wait" /\ outcome = "waiting" /\ pc["replay"] = "poll" /\ written = {}
      /\ dlqLost = {} /\ dlq = [r \in Records |-> 0] /\ faults = 0
  BY SameRows DEF AnomalyInit, Init, Service!Init, Records
<1>2. Pending \in Messages
  BY PendingFacts, RowFacts
<1>3. Sober
  <2>1. \A e \in Errors : dlq[<<Pending, e>>] = 0
    BY <1>1, <1>2 DEF Records
  <2>. QED  BY <1>1, <2>1 DEF Sober, Busy, ServiceHand
<1>4. Phases /\ WrittenServed /\ Tallied
  BY <1>1 DEF Phases, WrittenServed, Tallied, CountedBefore, CountedAfter, CountedRight,
     BeforeRun, AfterRun, Outcomes
<1>. QED  BY <1>3, <1>4 DEF Explained

\* With every count right, no fault and everything read, the script does not
\* fail at its counts, whatever the live transformer has written, dead-lettered
\* or left undone by then, for any topics before the two payments.
THEOREM FailuresHaveCause ==
    ASSUME IsFiniteSet(Partitions), ~Strict PROVE AnomalySpec => []FailureHasCause
<1>1. Handled /\ Explained => FailureHasCause
  <2> SUFFICES ASSUME Handled, Explained, step = "judge", ~misread, ~(faults > 0), Complete
               PROVE  CountsAgree
    BY DEF FailureHasCause
  <2>1. faults = 0
    BY DEF Explained, Sober
  <2>2. Pending \in written /\ Told(ServiceHand) >= 1
    BY <2>1, SoberEnds DEF Handled, Explained
  <2>3. accepted = 1 /\ bad = 0
    BY <2>2 DEF Explained, Tallied, CountedRight
  <2>4. /\ beforeDlq \in Nat /\ afterDlq \in Nat
        /\ beforeDlq + Told(ServiceHand) <= afterDlq
    BY DEF Explained, Tallied, CountedBefore, CountedAfter, AfterRun
  <2>5. Told(ServiceHand) \in Nat
    BY ToldType DEF Handled, Groups
  <2>6. afterDlq - beforeDlq >= 1
    BY <2>2, <2>4, <2>5
  <2>. QED  BY <2>3, <2>6 DEF CountsAgree
<1>2. Handled /\ Explained /\ [AnomalyNext]_harnessVars => Explained'
  BY ExplainedStep
<1>. QED  BY <1>1, <1>2, ExplainedAtFirst, HandledAlways, PTL DEF AnomalySpec

-----------------------------------------------------------------------------
(* Types of the replay *)

\* What LiveShaped and LiveHand leave open of the live transformer's types.
LiveTypes ==
    /\ liveMemory \in [{"live"} -> Live!Memory]
    /\ liveMetrics \in [{"live"} -> Live!Counters]
    /\ faults \in Nat

\* What a group has read of partition p, the message in hand included.
HasRead(g, p) == g.committed[p] + (IF Busy(g) /\ g.inflight[1] = p THEN 1 ELSE 0)

\* A group reads no other topics than those of the replay.
ReadsTopics(g) ==
    /\ g.owned \subseteq ReplayTopics
    /\ Busy(g) => g.inflight[1] \in ReplayTopics
    /\ \A p \in Partitions \ ReplayTopics : g.committed[p] = 0

\* The loop of run_until: its count covers what has been read of any partition.
RunTypes ==
    /\ processed \in 0 .. MaxMessages
    /\ idle \in 0 .. IdleTimeout
    /\ outcome \in {"waiting", "running"} \cup Outcomes
    /\ outcome = "waiting" => pc["replay"] = "poll"
    /\ (outcome \in Outcomes) <=> (pc["replay"] = "down")
    /\ \A p \in Partitions : HasRead(ServiceHand, p) <= processed
    /\ ReadsTopics(ServiceHand)

LEMMA LiveObserves ==
    ASSUME NEW mem \in Live!Memory, NEW m \in RowMessages
    PROVE  Live!Observe(mem, Live!At(m)) \in Live!Memory
<1> DEFINE r == Live!At(m)
<1>0. m \in Live!RowMessages /\ Live!LogAssumption
  BY TopicsAssumption DEF RowMessages
<1>1. CASE r.table = "customers" /\ r.op # "d"
  <2>1. r.id \in Customers
    BY <1>0, <1>1 DEF Live!LogAssumption
  <2>2. Live!Observe(mem, r) = [mem EXCEPT !.customers = @ \cup {r.id}]
    BY <1>1 DEF Live!Observe
  <2>. QED  BY <2>1, <2>2 DEF Live!Memory
<1>2. CASE r.table = "order_items"
  <2>1. r.id \in Items /\ r.order \in Orders /\ r.customer \in Customers /\ r.amount \in Nat
    BY <1>0, <1>2 DEF Live!LogAssumption
  <2>2. Live!Withdrawn(mem, r.id) \in [Orders -> Int]
    <3>1. CASE mem.lines[r.id] = NoLine
      BY <3>1 DEF Live!Withdrawn, Live!Memory
    <3>2. CASE mem.lines[r.id] # NoLine
      <4>1. mem.lines[r.id] \in Live!Line
        BY <2>1, <3>2 DEF Live!Memory
      <4>. QED  BY <3>2, <4>1 DEF Live!Withdrawn, Live!Memory, Live!Line
    <3>. QED  BY <3>1, <3>2
  <2>3. [Live!Withdrawn(mem, r.id) EXCEPT ![r.order] = @ + r.amount] \in [Orders -> Int]
    BY <2>1, <2>2
  <2>4. Live!ObserveLine(mem, r) \in Live!Memory
    BY <2>1, <2>3 DEF Live!ObserveLine, Live!Memory, Live!Line
  <2>. QED  BY <1>2, <2>4 DEF Live!Observe
<1>3. CASE ~(r.table = "customers" /\ r.op # "d") /\ r.table # "order_items"
  BY <1>3 DEF Live!Observe
<1>. QED  BY <1>1, <1>2, <1>3

LEMMA LiveTypesStep ==
    ASSUME Groups, LiveTypes, Live!Next
    PROVE  LiveTypes'
<1>1. faults' \in Nat
  BY LiveFaults DEF LiveTypes
<1>2. CASE Live!WriteSucceeds("live")
  <2>1. liveInflight["live"] \in RowMessages
    BY <1>2 DEF Live!WriteSucceeds, Groups, HandOK, Ready, LiveHand
  <2>2. Live!Observe(liveMemory["live"], Live!At(liveInflight["live"])) \in Live!Memory
    BY <2>1, LiveObserves DEF LiveTypes
  <2>. QED  BY <1>1, <1>2, <2>2 DEF Live!WriteSucceeds, LiveTypes
<1>3. CASE Live!CommitSucceeds("live") \/ Live!DlqCommitSucceeds("live")
  <2>1. liveMetrics["live"] \in Live!Counters
    BY DEF LiveTypes
  <2>2. [liveMetrics["live"] EXCEPT !.success = @ + 1] \in Live!Counters
    BY <2>1 DEF Live!Counters
  <2>3. Live!CountFailure(liveMetrics["live"], liveError["live"]) \in Live!Counters
    BY <2>1 DEF Live!Counters, Live!CountFailure
  <2>. QED
    BY <1>1, <1>3, <2>2, <2>3 DEF Live!CommitSucceeds, Live!DlqCommitSucceeds, LiveTypes
<1>4. ASSUME Live!Dies("live") PROVE LiveTypes'
  <2>1. Live!EmptyMemory \in Live!Memory /\ Live!NoCounts \in Live!Counters
    BY DEF Live!EmptyMemory, Live!Memory, Live!NoCounts, Live!Counters
  <2>. QED  BY <1>1, <1>4, <2>1 DEF Live!Dies, LiveTypes
<1>5. ASSUME UNCHANGED <<liveMemory, liveMetrics>> PROVE LiveTypes'
  BY <1>1, <1>5 DEF LiveTypes
<1>. QED
  BY <1>2, <1>3, <1>4, <1>5
  DEF Live!Next, Live!Crash, Live!Restart, Live!PollNothing, Live!Poll, Live!WriteRaises,
      Live!CommitRaises, Live!PublishDelivered, Live!PublishLost, Live!PublishRaises,
      Live!DlqCommitRaises, Live!AssignOrphan, Live!Rebalance, Live!Assign, Live!vars,
      Live!workerVars

LEMMA ServiceFaults ==
    ASSUME faults \in Nat, ServiceStep
    PROVE  faults' \in Nat
<1>1. ASSUME NEW kind, Service!Fault(kind) PROVE faults' \in Nat
  BY <1>1 DEF Service!Fault
<1>. QED
  BY <1>1 DEF ServiceStep, JoinGroup, PollMessage, ProcessMessage, ReachLimit, GiveUp, Fail, Exit,
     Service!Crash, Service!Poll, Service!WriteSucceeds, Service!WriteRaises,
     Service!CommitSucceeds, Service!CommitRaises, Service!CommitRejected,
     Service!PublishDelivered, Service!PublishLost, Service!PublishRaises,
     Service!DlqCommitSucceeds, Service!DlqCommitRaises, Service!AssignOrphan,
     Service!Rebalance

\* Only a message taken in hand adds to what was read.
LEMMA DealsRead ==
    ASSUME NEW g, NEW h, NEW t, NEW u, HandOK(g), HandOK(h), Deals(g, h, t, u),
           NEW p \in Partitions
    PROVE  HasRead(h, p) <= HasRead(g, p) + (IF Takes(g, h) THEN 1 ELSE 0)
<1>1. g.committed[p] \in Nat /\ h.committed[p] \in Nat
  BY DEF HandOK, HandTypes
<1>2. CASE Takes(g, h)
  <2>1. h.committed = g.committed /\ ~Busy(g)
    BY <1>2 DEF Takes, Busy
  <2>2. HasRead(g, p) = g.committed[p] /\ HasRead(h, p) \in {g.committed[p], g.committed[p] + 1}
    BY <1>1, <2>1 DEF HasRead
  <2>. QED  BY <1>1, <1>2, <2>2
<1>3. CASE Commits(g, h)
  <2>1. /\ g.inflight[1] \in Partitions /\ g.inflight[2] = g.committed[g.inflight[1]]
        /\ Busy(g) /\ ~Busy(h)
        /\ h.committed = [g.committed EXCEPT ![g.inflight[1]] = g.inflight[2] + 1]
    BY <1>3, MessageFacts DEF Commits, HandOK, HandTypes, OneAhead, Busy
  <2>. QED  BY <1>1, <2>1 DEF HasRead, HandOK, HandTypes
<1>4. CASE ~Takes(g, h) /\ ~Commits(g, h)
  <2>1. h.committed = g.committed /\ (Busy(h) => Busy(g) /\ h.inflight = g.inflight)
    BY <1>4 DEF Deals, Writes, Stays, Begins, Ends, Joins, FailsToCommit, Publishes, Busy,
       SamePlace, SameMessage
  <2>. QED  BY <1>1, <2>1 DEF HasRead
<1>. QED  BY <1>2, <1>3, <1>4

LEMMA DealsTopics ==
    ASSUME NEW g, NEW h, NEW t, NEW u, HandOK(g), Deals(g, h, t, u),
           ReadsTopics(g), h.owned \subseteq ReplayTopics
    PROVE  ReadsTopics(h)
<1>1. CASE Takes(g, h)
  BY <1>1 DEF Takes, ReadsTopics
<1>2. CASE Commits(g, h)
  BY <1>2 DEF Commits, ReadsTopics, Busy, HandOK, HandTypes
<1>3. CASE ~Takes(g, h) /\ ~Commits(g, h)
  BY <1>3 DEF Deals, Writes, Stays, Begins, Ends, Joins, FailsToCommit, Publishes, Busy,
     SamePlace, SameMessage, ReadsTopics
<1>. QED  BY <1>1, <1>2, <1>3

LEMMA OwnedTopics ==
    ASSUME Groups, ServiceStep, ServiceHand.owned \subseteq ReplayTopics
    PROVE  ServiceHand'.owned \subseteq ReplayTopics
<1>1. CASE JoinGroup
  <2>1. PICK p \in ReplayTopics : Service!Assign(p, "replay")
    BY <1>1 DEF JoinGroup, Service!AssignOrphan, Service!Rebalance
  <2>. QED  BY <2>1 DEF Service!Assign, ServiceHand, Groups, ServiceShaped
<1>2. CASE ~JoinGroup
  BY <1>2 DEF ServiceStep, PollMessage, ProcessMessage, ReachLimit, GiveUp, Fail, Exit,
     Service!Crash, Service!Poll, Service!WriteSucceeds, Service!WriteRaises,
     Service!CommitSucceeds, Service!CommitRaises, Service!PublishDelivered,
     Service!PublishLost, Service!PublishRaises, Service!DlqCommitSucceeds,
     Service!DlqCommitRaises, Service!Dies, Service!brokerVars, ServiceHand
<1>. QED  BY <1>1, <1>2

\* Only poll takes a message in hand, and run_until counts it.
LEMMA OnlyPollTakes ==
    ASSUME Groups, ServiceStep, Takes(ServiceHand, ServiceHand')
    PROVE  PollMessage
<1>1. ServiceHand.pc = "poll" /\ ServiceHand'.pc \notin {"poll", "down"}
  BY DEF Takes
<1>2. pc["replay"] = "poll" /\ pc'["replay"] \notin {"poll", "down"}
  BY <1>1 DEF ServiceHand
<1>. QED
  BY <1>2 DEF ServiceStep, JoinGroup, ProcessMessage, ReachLimit, GiveUp, Fail, Exit, Groups,
     ServiceShaped, Service!AssignOrphan, Service!Rebalance, Service!Assign, Service!workerVars,
     Service!Crash, Service!WriteSucceeds, Service!WriteRaises,
     Service!CommitSucceeds, Service!CommitRaises, Service!PublishDelivered,
     Service!PublishLost, Service!PublishRaises, Service!DlqCommitSucceeds,
     Service!DlqCommitRaises, Service!Dies

\* The replay is running, and ends with its process.
LEMMA RunningStep ==
    ASSUME Groups, RunTypes, ServiceStep
    PROVE  /\ outcome = "running" /\ outcome' \in {"running"} \cup Outcomes
           /\ (outcome' \in Outcomes) <=> (pc'["replay"] = "down")
<1>. USE DEF Outcomes
<1>1. CASE JoinGroup
  BY <1>1 DEF JoinGroup, runVars, RunTypes, Service!AssignOrphan, Service!Rebalance,
     Service!Assign, Service!workerVars
<1>2. CASE PollMessage
  BY <1>2 DEF PollMessage, Service!Poll, Groups, ServiceShaped
<1>3. CASE ProcessMessage
  <2>1. /\ pc["replay"] \notin {"poll", "down"} /\ outcome' = outcome
        /\ pc'["replay"] # "down"
    BY <1>3 DEF ProcessMessage, runVars, Groups, ServiceShaped, Service!WriteSucceeds,
       Service!WriteRaises, Service!CommitSucceeds, Service!CommitRaises,
       Service!PublishDelivered, Service!PublishLost, Service!DlqCommitSucceeds, Service!Return
  <2>. QED  BY <2>1 DEF RunTypes
<1>4. CASE ReachLimit \/ GiveUp \/ Fail
  <2>1. Service!Dies("replay") /\ outcome = "running" /\ outcome' \in Outcomes
    BY <1>4 DEF ReachLimit, GiveUp, Fail, Exit, Service!Crash, Service!PublishRaises,
       Service!DlqCommitRaises
  <2>2. pc'["replay"] = "down"
    BY <2>1 DEF Service!Dies, Groups, ServiceShaped
  <2>. QED  BY <2>1, <2>2
<1>. QED  BY <1>1, <1>2, <1>3, <1>4 DEF ServiceStep

LEMMA RunTypesStep ==
    ASSUME Groups, RunTypes, ServiceStep
    PROVE  RunTypes'
<1>1. /\ processed' = IF PollMessage THEN processed + 1 ELSE processed
      /\ idle' = IF PollMessage THEN 0 ELSE idle
  BY DEF ServiceStep, JoinGroup, PollMessage, ProcessMessage, ReachLimit, GiveUp, Fail, Exit, runVars
<1>2. processed \in Nat /\ MaxMessages \in Nat /\ IdleTimeout \in Nat
  BY ReplayAssumption DEF RunTypes
<1>3. PollMessage => processed < MaxMessages
  BY DEF PollMessage, MayPoll
<1>4. processed' \in 0 .. MaxMessages /\ idle' \in 0 .. IdleTimeout
  BY <1>1, <1>2, <1>3 DEF RunTypes
<1>5. Deals(ServiceHand, ServiceHand', table, table') /\ HandOK(ServiceHand)
  BY ServiceDeals DEF Groups, ServiceStep
<1>6. HandOK(ServiceHand')
  BY <1>5, DealsKeep
<1>7. ASSUME NEW p \in Partitions PROVE HasRead(ServiceHand', p) <= processed'
  <2>1. HasRead(ServiceHand', p)
          <= HasRead(ServiceHand, p) + (IF Takes(ServiceHand, ServiceHand') THEN 1 ELSE 0)
    BY <1>5, <1>6, DealsRead
  <2>2. ServiceHand.committed[p] \in Nat /\ ServiceHand'.committed[p] \in Nat
    BY <1>5, <1>6 DEF HandOK, HandTypes
  <2>3. HasRead(ServiceHand, p) \in Nat /\ HasRead(ServiceHand', p) \in Nat
    BY <2>2 DEF HasRead
  <2>4. Takes(ServiceHand, ServiceHand') => PollMessage
    BY OnlyPollTakes
  <2>5. HasRead(ServiceHand, p) <= processed
    BY DEF RunTypes
  <2>. QED  BY <1>1, <1>2, <2>1, <2>3, <2>4, <2>5
<1>8. ReadsTopics(ServiceHand')
  BY <1>5, DealsTopics, OwnedTopics DEF RunTypes, ReadsTopics
<1>9. /\ outcome' \in {"running"} \cup Outcomes
      /\ (outcome' \in Outcomes) <=> (pc'["replay"] = "down")
  BY RunningStep
<1>. QED  BY <1>4, <1>7, <1>8, <1>9 DEF RunTypes, HasRead, ReadsTopics, Busy, Outcomes

LEMMA TypesStep ==
    ASSUME Groups, LiveTypes, RunTypes,
           \/ LiveStep \/ ServiceStep \/ Start \/ Tick
           \/ UNCHANGED <<faults, groupVars, serviceVars, runVars>>
    PROVE  LiveTypes' /\ RunTypes'
<1>1. CASE LiveStep
  BY <1>1, LiveTypesStep DEF LiveStep, serviceVars, runVars, RunTypes, HasRead, ReadsTopics,
     Busy, ServiceHand
<1>2. CASE ServiceStep
  <2>1. faults' \in Nat /\ UNCHANGED <<liveMemory, liveMetrics>>
    BY <1>2, ServiceFaults DEF LiveTypes, ServiceStep, JoinGroup, PollMessage, ProcessMessage,
       ReachLimit, GiveUp, Fail, Exit, groupVars
  <2>. QED  BY <1>2, <2>1, RunTypesStep DEF LiveTypes
<1>3. CASE Start \/ Tick
  <2>1. UNCHANGED <<faults, groupVars, serviceVars, processed>>
    BY <1>3 DEF Start, Tick
  <2>2. ServiceHand' = ServiceHand /\ pc' = pc
    BY <2>1, ServiceStays DEF serviceVars
  <2>3. LiveTypes'
    BY <2>1 DEF groupVars, LiveTypes
  <2>4. idle' \in 0 .. IdleTimeout
    BY <1>3, ReplayAssumption DEF Start, Tick, RunTypes
  <2>5. /\ outcome' \in {"waiting", "running"} \cup Outcomes
        /\ outcome' = "waiting" => pc["replay"] = "poll"
        /\ (outcome' \in Outcomes) <=> (pc["replay"] = "down")
    BY <1>3 DEF Start, Tick, RunTypes, Outcomes
  <2>. QED  BY <2>1, <2>2, <2>3, <2>4, <2>5 DEF RunTypes, HasRead, ReadsTopics, Busy
<1>4. CASE UNCHANGED <<faults, groupVars, serviceVars, runVars>>
  BY <1>4, ServiceStays DEF groupVars, serviceVars, runVars, LiveTypes, RunTypes, HasRead,
     ReadsTopics, Busy
<1>. QED  BY <1>1, <1>2, <1>3, <1>4

LEMMA TypesAtFirst == ASSUME Init PROVE LiveTypes /\ RunTypes
<1>1. LiveTypes
  BY DEF Init, Live!Init, LiveTypes, Live!EmptyMemory, Live!Memory, Live!NoCounts, Live!Counters
<1>2. /\ committed = [p \in Partitions |-> 0] /\ pc["replay"] = "poll"
      /\ \A p \in Partitions : owner[p] # "replay"
      /\ processed = 0 /\ idle = 0 /\ outcome = "waiting"
  BY TopicsAssumption DEF Init, Service!Init
<1>3. ReadsTopics(ServiceHand) /\ \A p \in Partitions : HasRead(ServiceHand, p) = 0
  BY <1>2 DEF ReadsTopics, HasRead, Busy, ServiceHand
<1>. QED  BY <1>1, <1>2, <1>3, ReplayAssumption DEF RunTypes, Outcomes

LEMMA TypesTogether ==
    ASSUME Groups, Stored(table, LiveHand, ServiceHand), LiveTypes, RunTypes
    PROVE  TypeOK
<1>1. Live!TypeOK
  <2>1. table \in [RowKeys -> Messages \cup {None}]
    BY DEF Stored, RowMessages, Live!RowMessages, Messages
  <2>2. HandTypes(LiveHand) /\ LiveShaped
    BY DEF Groups, HandOK
  <2>. QED
    BY <2>1, <2>2 DEF Live!TypeOK, HandTypes, LiveHand, LiveShaped, LiveTypes, RowKeys, Messages,
       Errors
<1>2. committed \in [Partitions -> Nat] /\ pc["replay"] \in Service!Calls
  BY DEF Groups, ServiceShaped, HandOK, HandTypes, ServiceHand
<1>3. \A p \in Partitions : committed[p] <= processed
  <2> SUFFICES ASSUME NEW p \in Partitions PROVE committed[p] <= processed
    OBVIOUS
  <2>1. committed[p] \in Nat /\ processed \in Nat /\ ServiceHand.committed = committed
    BY <1>2, ReplayAssumption DEF RunTypes, ServiceHand
  <2>2. HasRead(ServiceHand, p) <= processed
    BY DEF RunTypes
  <2>. QED  BY <2>1, <2>2 DEF HasRead
<1>4. \A p \in Partitions \ ReplayTopics : committed[p] = 0
  BY DEF RunTypes, ReadsTopics, ServiceHand
<1>. QED  BY <1>1, <1>2, <1>3, <1>4 DEF TypeOK, RunTypes

\* The replay keeps its types, whatever fails: its count covers what it has
\* committed of every partition, it commits nothing outside its topics, and its
\* process is down exactly when it has an outcome.
THEOREM ReplayTypesHold == Spec => []TypeOK
<1>1. Init => LiveTypes /\ RunTypes
  BY TypesAtFirst
<1>2. Groups /\ LiveTypes /\ RunTypes /\ [Next]_vars => LiveTypes' /\ RunTypes'
  <2> SUFFICES ASSUME Groups, LiveTypes, RunTypes, [Next]_vars PROVE LiveTypes' /\ RunTypes'
    OBVIOUS
  <2>. QED  BY TypesStep DEF Next, ServiceStep, RecreateKeyspace, vars
<1>3. Groups /\ RowsKept /\ LiveTypes /\ RunTypes => TypeOK
  BY TypesTogether DEF RowsKept
<1>. QED  BY <1>1, <1>2, <1>3, GroupsAlways, RowsAlways, PTL DEF Spec

-----------------------------------------------------------------------------
(* Types of the script *)

\* The sources have got as far as the step says.
Sourced ==
    /\ sourced \in [Partitions -> Nat] /\ \A p \in Partitions : sourced[p] <= Len(Log[p])
    /\ step = "wait" /\ ~Cleanup => sourced[Payments] = Overpay[2]
    /\ step \in {"list", "delete", "before", "rejects"} => sourced[Payments] = Overpay[2]
    /\ step = "insert" => sourced[Payments] \in {Overpay[2], Overpay[2] + 1}

ScriptTypes ==
    /\ Sourced
    /\ step \in Steps
    /\ listed \subseteq RowKeys
    /\ beforeDlq \in Nat \cup {None} /\ afterDlq \in Nat \cup {None}
    /\ accepted \in Nat /\ bad \in Nat
    /\ misread \in BOOLEAN
    /\ exit \in {None, 0, 1} /\ (exit # None <=> step = "done")

LEMMA PaymentsLength ==
    /\ Payments \in Partitions
    /\ Overpay[2] \in Nat /\ Len(Log[Payments]) = Overpay[2] + 2
<1>1. Payments \in Partitions /\ Overpay[2] = Len(Log[Payments]) - 2
  BY AnomalyAssumption DEF Overpay
<1>2. Len(Log[Payments]) \in Nat /\ Overpay[2] \in Nat
  BY <1>1, PendingFacts, MessageFacts, TopicsAssumption
<1>. QED  BY <1>1, <1>2

LEMMA SourcedStep ==
    ASSUME Sourced, Script
    PROVE  Sourced'
<1>. USE PaymentsLength DEF Sourced
<1>1. CASE WaitHttp
  BY <1>1 DEF WaitHttp, Goto, Dies
<1>2. CASE CleanSource
  <2>1. CASE sourced' = sourced /\ step' = "done"
    BY <2>1
  <2>2. CASE sourced' = [sourced EXCEPT ![Payments] = Overpay[2]] /\ step' = "list"
    <3>1. /\ sourced' \in [Partitions -> Nat] /\ sourced'[Payments] = Overpay[2]
          /\ \A p \in Partitions : p # Payments => sourced'[p] = sourced[p]
      BY <2>2
    <3>. QED  BY <2>2, <3>1
  <2>. QED  BY <1>2, <2>1, <2>2 DEF CleanSource, Goto, Dies
<1>3. CASE InsertAnomaly
  <2>1. CASE sourced' = sourced /\ step' = "done"
    BY <2>1
  <2>2. CASE /\ sourced' = [sourced EXCEPT ![Payments] = @ + 1]
             /\ step' = IF sourced'[Payments] = Len(Log[Payments]) THEN "consume" ELSE "insert"
    <3>1. /\ sourced' \in [Partitions -> Nat] /\ sourced'[Payments] = sourced[Payments] + 1
          /\ \A p \in Partitions : p # Payments => sourced'[p] = sourced[p]
      BY <2>2
    <3>2. sourced[Payments] \in {Overpay[2], Overpay[2] + 1}
      BY <1>3 DEF InsertAnomaly
    <3>3. \A p \in Partitions : sourced'[p] <= Len(Log[p])
      BY <3>1, <3>2
    <3>4. step' = "insert" => sourced'[Payments] = Overpay[2] + 1
      BY <2>2, <3>1, <3>2
    <3>5. step' \in {"consume", "insert"}
      BY <2>2
    <3>. QED  BY <3>1, <3>3, <3>4, <3>5
  <2>. QED  BY <1>3, <2>1, <2>2 DEF InsertAnomaly, Goto, Dies
<1>4. CASE ExpectRejects
  BY <1>4 DEF ExpectRejects, Goto, Dies
<1>5. CASE ListAnomalies \/ DeleteAnomalies \/ CountBefore
  BY <1>5 DEF ListAnomalies, DeleteAnomalies, CountBefore, Goto, Dies
<1>6. CASE StartConsumer
  BY <1>6 DEF StartConsumer, scriptVars
<1>7. CASE ConsumerEnds \/ CountAfter \/ CountAccepted \/ CountBad \/ Judge \/ Gate
  <2>1. sourced' = sourced /\ step' \in {"after", "accepted", "bad", "judge", "gate", "done"}
    BY <1>7 DEF ConsumerEnds, CountAfter, CountAccepted, CountBad, Judge, Gate, Goto, Dies
  <2>. QED  BY <2>1
<1>. QED  BY <1>1, <1>2, <1>3, <1>4, <1>5, <1>6, <1>7 DEF Script

LEMMA CountsTyped ==
    ASSUME ScriptTypes, Script, Stored(table, LiveHand, ServiceHand)
    PROVE  /\ beforeDlq' \in Nat \cup {None} /\ afterDlq' \in Nat \cup {None}
           /\ accepted' \in Nat /\ bad' \in Nat
           /\ misread' \in BOOLEAN
<1>1. ASSUME NEW n, Counted(n) PROVE n \in Nat \cup {None}
  BY <1>1 DEF Counted
<1>2. CASE CountBefore
  BY <1>1, <1>2 DEF CountBefore, ScriptTypes
<1>3. CASE CountAfter
  BY <1>1, <1>3 DEF CountAfter, ScriptTypes
<1>4. CASE CountAccepted
  <2>1. Rows(Pending) \in Nat
    BY ServedIsOne
  <2>. QED  BY <1>4, <2>1 DEF CountAccepted, CountedRows, ScriptTypes
<1>5. CASE CountBad
  <2>1. Rows(Overpay) \in Nat
    BY NoBadRow
  <2>. QED  BY <1>5, <2>1 DEF CountBad, CountedRows, ScriptTypes
<1>6. CASE ~(CountBefore \/ CountAfter \/ CountAccepted \/ CountBad)
  <2>1. UNCHANGED countVars
    BY <1>6 DEF Script, WaitHttp, CleanSource, ListAnomalies, DeleteAnomalies, ExpectRejects,
       InsertAnomaly, StartConsumer, ConsumerEnds, Judge, Gate, scriptVars
  <2>. QED  BY <2>1 DEF countVars, ScriptTypes
<1>. QED  BY <1>2, <1>3, <1>4, <1>5, <1>6

LEMMA ScriptTypesStep ==
    ASSUME ScriptTypes, Stored(table, LiveHand, ServiceHand), [AnomalyNext]_harnessVars
    PROVE  ScriptTypes'
<1>1. CASE LiveTransformer \/ BoundedRun \/ UNCHANGED harnessVars
  BY <1>1 DEF LiveTransformer, BoundedRun, harnessVars, scriptVars, countVars, ScriptTypes, Sourced
<1>2. CASE Script
  <2>1. Sourced'
    BY <1>2, SourcedStep DEF ScriptTypes
  <2>2. /\ beforeDlq' \in Nat \cup {None} /\ afterDlq' \in Nat \cup {None}
        /\ accepted' \in Nat /\ bad' \in Nat /\ misread' \in BOOLEAN
    BY <1>2, CountsTyped
  <2>3. listed' \subseteq RowKeys
    BY <1>2 DEF Script, WaitHttp, CleanSource, ListAnomalies, DeleteAnomalies, CountBefore,
       ExpectRejects, InsertAnomaly, StartConsumer, ConsumerEnds, CountAfter, CountAccepted,
       CountBad, Judge, Gate, scriptVars, ScriptTypes, Stored
  <2>4. \/ step' \in Steps \ {"done"} /\ exit' = exit /\ step # "done"
        \/ step' = "done" /\ exit' \in {0, 1}
        \/ step' = step /\ exit' = exit
    BY <1>2 DEF Script, WaitHttp, CleanSource, ListAnomalies, DeleteAnomalies, CountBefore,
       ExpectRejects, InsertAnomaly, StartConsumer, ConsumerEnds, CountAfter, CountAccepted,
       CountBad, Judge, Gate, Goto, Dies, scriptVars, Steps
  <2>5. step' \in Steps /\ exit' \in {None, 0, 1} /\ (exit' # None <=> step' = "done")
    BY <2>4, AnomalyAssumption DEF ScriptTypes, Steps
  <2>. QED  BY <2>1, <2>2, <2>3, <2>5 DEF ScriptTypes
<1>. QED  BY <1>1, <1>2 DEF AnomalyNext

LEMMA ScriptTypesAtFirst == ASSUME AnomalyInit PROVE ScriptTypes
<1>1. Sourced
  BY AnomalyAssumption DEF AnomalyInit, Sourced
<1>. QED  BY <1>1, AnomalyAssumption DEF AnomalyInit, ScriptTypes, Steps

LEMMA HarnessTypes ==
    ASSUME Groups, LiveTypes, RunTypes, [AnomalyNext]_harnessVars
    PROVE  LiveTypes' /\ RunTypes'
<1>1. \/ LiveStep \/ ServiceStep \/ Start \/ Tick
      \/ UNCHANGED <<faults, groupVars, serviceVars, runVars>>
  <2>1. CASE LiveTransformer \/ BoundedRun \/ UNCHANGED harnessVars
    BY <2>1 DEF LiveTransformer, BoundedRun, ServiceStep, harnessVars, vars
  <2>2. CASE Script
    BY <2>2, ScriptLeaves DEF ScriptStep, StartConsumer
  <2>. QED  BY <2>1, <2>2 DEF AnomalyNext
<1>. QED  BY <1>1, TypesStep

\* The types of the script and of the two transformers under it: no event beyond
\* the log is awaited from the sources, counts are numbers or missing, and the
\* script has a status exactly when it is done, in whatever command it ended.
THEOREM AnomalyTypesHold == AnomalySpec => []AnomalyTypeOK
<1>1. AnomalyInit => LiveTypes /\ RunTypes /\ ScriptTypes
  BY TypesAtFirst, ScriptTypesAtFirst DEF AnomalyInit
<1>2. Handled /\ LiveTypes /\ RunTypes /\ ScriptTypes /\ [AnomalyNext]_harnessVars
        => LiveTypes' /\ RunTypes' /\ ScriptTypes'
  BY HarnessTypes, ScriptTypesStep DEF Handled
<1>3. Handled /\ LiveTypes /\ RunTypes /\ ScriptTypes => AnomalyTypeOK
  <2> SUFFICES ASSUME Handled, LiveTypes, RunTypes, ScriptTypes PROVE AnomalyTypeOK
    OBVIOUS
  <2>1. TypeOK /\ DOMAIN table = RowKeys
    BY TypesTogether DEF Handled, Stored
  <2>. QED  BY <2>1 DEF AnomalyTypeOK, ScriptTypes, Sourced
<1>. QED  BY <1>1, <1>2, <1>3, HandledAlways, PTL DEF AnomalySpec
=============================================================================
