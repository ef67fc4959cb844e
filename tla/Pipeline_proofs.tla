--------------------------- MODULE Pipeline_proofs ---------------------------
(***************************************************************************)
(* The classic consumer, and the publisher and the consumer composed.      *)
(* The consumer loses nothing and explains every hole, for every prefetch, *)
(* batch size and gap table, and every schedule of connection, process and *)
(* database failures.  Composed with the publisher, every gap it reports   *)
(* is of a frame that is on its way or counted as lost, and the two hops   *)
(* are one.                                                                *)
(***************************************************************************)
EXTENDS Pipeline, EdgeUplink_proofs

-----------------------------------------------------------------------------
(* The consumer.                                                            *)

\* While the connection lives, the ledger of the broker is the batch followed
\* by what has not been accepted, under growing tags, and highest_tag is that
\* of the newest frame of the batch.
Aligned ==
  /\ Len(unacked) = Len(batch) + Len(wire)
  /\ \A i \in 1 .. Len(batch) : unacked[i].item = batch[i]
  /\ \A i \in 1 .. Len(wire) : unacked[Len(batch) + i] = wire[i]
  /\ \A i, j \in 1 .. Len(unacked) : i < j => unacked[i].tag < unacked[j].tag
  /\ \A i \in 1 .. Len(unacked) : unacked[i].tag < nextTag
  /\ batch # <<>> => tag = unacked[Len(batch)].tag
LedgerInv ==
  /\ ingestConn = "up" => Aligned
  /\ ingestConn # "up" => unacked = <<>>
  /\ ingestPhase = "down" => wire = <<>> /\ batch = <<>>

\* What the consumer works on is still at the broker, and what a lost commit
\* may bring is there or has landed.
IngestCustody ==
  /\ Range(batch) \cup Held(wire) \subseteq AtBroker
  /\ \A b \in limbo : b \subseteq AtBroker \cup rows
  /\ ingestPhase = "account" => Range(batch) \subseteq rows

\* What the accounting knows of its generation has landed, or is older than
\* the process; what has landed and is not accounted is still at the broker.
HistoryInv == History(well, floor, rows)
PendingInv ==
  /\ ingestPhase # "down" \/ Known(well) =>
       \A f \in rows : Pending(well, f.epoch, f.seq) => f \in AtBroker
  /\ ingestPhase = "account" => \A i \in 1 .. done : ~Pending(well, batch[i].epoch, batch[i].seq)

ClassicInv == IngestTypeOK /\ LedgerInv /\ IngestCustody /\ HistoryInv /\ PendingInv

-----------------------------------------------------------------------------
(* Ledgers, and what the broker holds.                                      *)

LEMMA LedgerItems ==
  ASSUME NEW s \in Seq(Delivery)
  PROVE  /\ Len(s) \in Nat /\ DOMAIN s = 1 .. Len(s)
         /\ \A i \in 1 .. Len(s) : s[i] \in Delivery /\ s[i].tag \in Nat /\ s[i].item \in Items
         /\ Held(s) = {s[i].item : i \in 1 .. Len(s)} /\ Held(s) \subseteq Items
<1>1. Len(s) \in Nat /\ DOMAIN s = 1 .. Len(s) /\ \A i \in 1 .. Len(s) : s[i] \in Delivery
  BY LenProperties, ElementOfSeq
<1>2. \A i \in 1 .. Len(s) : s[i].tag \in Nat /\ s[i].item \in Items
  BY <1>1 DEF Delivery
<1> QED BY <1>1, <1>2 DEF Held

LEMMA LiveItems ==
  ASSUME NEW s \in Seq(Delivery)
  PROVE  /\ Live(s) \in Seq(Items) /\ Len(Live(s)) = Len(s)
         /\ \A i \in 1 .. Len(s) : Live(s)[i] = s[i].item
         /\ Range(Live(s)) = Held(s)
<1>1. /\ Len(s) \in Nat /\ DOMAIN s = 1 .. Len(s) /\ Held(s) = {s[i].item : i \in 1 .. Len(s)}
      /\ \A i \in 1 .. Len(s) : s[i].item \in Items
  BY LedgerItems
<1>2. Live(s) = [i \in 1 .. Len(s) |-> s[i].item]
  BY <1>1 DEF Live
<1>3. Live(s) \in [1 .. Len(s) -> Items]
  BY <1>1, <1>2
<1>4. Live(s) \in Seq(Items)
  BY <1>1, <1>3, SeqDef
<1>5. Len(Live(s)) = Len(s)
  BY <1>1, <1>2, <1>4, LenProperties
<1>6. Range(Live(s)) = {Live(s)[i] : i \in 1 .. Len(s)}
  BY <1>4, <1>5, RangeEquality
<1> QED BY <1>1, <1>2, <1>4, <1>5, <1>6

LEMMA HeldRange ==
  ASSUME NEW s \in Seq(Delivery)
  PROVE  Held(s) = {d.item : d \in Range(s)}
<1>1. Range(s) = {s[i] : i \in 1 .. Len(s)} /\ Held(s) = {s[i].item : i \in 1 .. Len(s)}
  BY RangeEquality, LedgerItems
<1> QED BY <1>1

LEMMA NothingHeld == Held(<<>>) = {} /\ Range(<<>>) = {}
BY DEF Held, Range

\* What a dead connection held is still at the broker.
LEMMA AbandonKeeps ==
  ASSUME IngestTypeOK, Abandon, queue' = queue
  PROVE  /\ AtBroker' = AtBroker
         /\ unacked' \in Seq(Delivery) /\ orphans' \in Seq(Seq(Delivery))
<1>1. unacked' = <<>> /\ Held(unacked') = {}
  BY NothingHeld DEF Abandon
<1>2. CASE unacked = <<>>
  BY <1>1, <1>2, NothingHeld DEF Abandon, AtBroker, IngestTypeOK
<1>3. CASE unacked # <<>>
  <2>1. orphans' = Append(orphans, unacked)
    BY <1>3 DEF Abandon
  <2>2. orphans' \in Seq(Seq(Delivery)) /\ Range(orphans') = Range(orphans) \cup {unacked}
    <3>1. orphans \in Seq(Seq(Delivery)) /\ unacked \in Seq(Delivery)
      BY DEF IngestTypeOK
    <3>2. Append(orphans, unacked) \in Seq(Seq(Delivery))
      BY <3>1, AppendProperties
    <3>3. Range(Append(orphans, unacked)) = Range(orphans) \cup {unacked}
      BY <3>1, RangeAppend
    <3> QED BY <2>1, <3>2, <3>3
  <2>3. UNION {Held(l) : l \in Range(orphans')}
          = (UNION {Held(l) : l \in Range(orphans)}) \cup Held(unacked)
    BY <2>2
  <2>4. AtBroker' = Range(queue') \cup Held(unacked') \cup UNION {Held(l) : l \in Range(orphans')}
    BY DEF AtBroker
  <2>5. AtBroker' = Range(queue) \cup Held(unacked) \cup UNION {Held(l) : l \in Range(orphans)}
    BY <1>1, <2>3, <2>4
  <2>6. unacked' \in Seq(Delivery)
    BY <1>1, EmptySeq
  <2> QED BY <2>2, <2>5, <2>6 DEF AtBroker
<1> QED BY <1>2, <1>3

LEMMA DeliverKeeps ==
  ASSUME IngestTypeOK, Deliver
  PROVE  /\ AtBroker' = AtBroker /\ queue' \in Seq(Items)
         /\ [tag |-> nextTag, item |-> Head(queue)] \in Delivery
<1> DEFINE d == [tag |-> nextTag, item |-> Head(queue)]
<1>1. queue # <<>> /\ queue' = Tail(queue) /\ unacked' = Append(unacked, d) /\ orphans' = orphans
  BY DEF Deliver
<1>2. d \in Delivery /\ d.item = Head(queue) /\ queue' \in Seq(Items)
  BY <1>1, HeadTailProperties DEF IngestTypeOK, Delivery
<1> HIDE DEF d
<1>3. Range(queue) = {d.item} \cup Range(queue')
  BY <1>1, <1>2, RangeHeadTail DEF IngestTypeOK
<1>4. Range(unacked') = Range(unacked) \cup {d} /\ unacked' \in Seq(Delivery)
  BY <1>1, <1>2, RangeAppend, AppendProperties DEF IngestTypeOK
<1>5. Held(unacked') = Held(unacked) \cup {d.item}
  BY <1>4, HeldRange DEF IngestTypeOK
<1>6. AtBroker' = AtBroker
  BY <1>1, <1>3, <1>5 DEF AtBroker
<1> QED BY <1>2, <1>6 DEF d

LEMMA RequeueKeeps ==
  ASSUME IngestTypeOK, Requeue
  PROVE  AtBroker' = AtBroker /\ queue' \in Seq(Items) /\ orphans' \in Seq(Seq(Delivery))
<1>1. PICK i \in DOMAIN orphans :
        /\ queue' = Live(orphans[i]) \o queue
        /\ orphans' = RemoveAt(orphans, i) /\ UNCHANGED unacked
  BY DEF Requeue, Live
<1>2. i \in 1 .. Len(orphans) /\ orphans[i] \in Seq(Delivery)
  BY <1>1, LenProperties, ElementOfSeq DEF IngestTypeOK
<1>3. Live(orphans[i]) \in Seq(Items) /\ Range(Live(orphans[i])) = Held(orphans[i])
  BY <1>2, LiveItems
<1>4. queue' \in Seq(Items) /\ Range(queue') = Held(orphans[i]) \cup Range(queue)
  <2>1. queue \in Seq(Items)
    BY DEF IngestTypeOK
  <2>2. Live(orphans[i]) \o queue \in Seq(Items)
    BY <1>3, <2>1, ConcatProperties
  <2>3. Range(Live(orphans[i]) \o queue) = Range(Live(orphans[i])) \cup Range(queue)
    BY <1>3, <2>1, RangeConcatenation
  <2> QED BY <1>1, <1>3, <2>2, <2>3
<1>5. orphans' \in Seq(Seq(Delivery)) /\ Range(orphans) = Range(orphans') \cup {orphans[i]}
  <2>1. orphans \in Seq(Seq(Delivery))
    BY DEF IngestTypeOK
  <2>2. orphans' = RemoveAt(orphans, i)
    BY <1>1
  <2> QED BY <1>2, <2>1, <2>2, TakeOut
<1>6. UNION {Held(l) : l \in Range(orphans)}
        = (UNION {Held(l) : l \in Range(orphans')}) \cup Held(orphans[i])
  BY <1>5
<1>7. AtBroker' = Range(queue') \cup Held(unacked') \cup UNION {Held(l) : l \in Range(orphans')}
  BY DEF AtBroker
<1>8. AtBroker' = Range(queue) \cup Held(unacked) \cup UNION {Held(l) : l \in Range(orphans)}
  BY <1>1, <1>4, <1>6, <1>7
<1> QED BY <1>4, <1>5, <1>8 DEF AtBroker

LEMMA PublishKeeps ==
  ASSUME IngestTypeOK, NEW i \in Items, EnqueueItem(i)
  PROVE  AtBroker' = AtBroker \cup {i} /\ queue' \in Seq(Items)
<1>1. queue' = Append(queue, i) /\ UNCHANGED <<unacked, orphans>>
  BY DEF EnqueueItem
<1>2. queue' \in Seq(Items) /\ Range(queue') = Range(queue) \cup {i}
  BY <1>1, AppendProperties, RangeAppend DEF IngestTypeOK
<1> QED BY <1>1, <1>2 DEF AtBroker

-----------------------------------------------------------------------------
(* The ledger.                                                              *)

LEMMA FrameFields ==
  ASSUME NEW f \in FrameIds
  PROVE  f.epoch \in Nat /\ f.seq \in Nat \ {0} /\ f = [epoch |-> f.epoch, seq |-> f.seq]
BY IngestAssumption DEF FrameIds

LEMMA BatchItems ==
  ASSUME IngestTypeOK
  PROVE  /\ Len(batch) \in Nat /\ Range(batch) = {batch[i] : i \in 1 .. Len(batch)}
         /\ \A i \in 1 .. Len(batch) : batch[i] \in FrameIds
         /\ Range(batch) \subseteq FrameIds
<1>1. batch \in Seq(FrameIds)
  BY DEF IngestTypeOK
<1>2. Len(batch) \in Nat /\ \A i \in 1 .. Len(batch) : batch[i] \in FrameIds
  BY <1>1, LenProperties, ElementOfSeq
<1>3. Range(batch) = {batch[i] : i \in 1 .. Len(batch)}
  BY <1>1, RangeEquality
<1> QED BY <1>2, <1>3

\* The ledger is what the run checks.
LEMMA AlignedMatches ==
  ASSUME IngestTypeOK, Aligned
  PROVE  Live(unacked) = batch \o Live(wire)
<1>1. unacked \in Seq(Delivery) /\ wire \in Seq(Delivery) /\ batch \in Seq(Items)
  BY SeqMonotonic DEF IngestTypeOK, Items
<1>2. /\ Live(unacked) \in Seq(Items) /\ Len(Live(unacked)) = Len(unacked)
      /\ \A i \in 1 .. Len(unacked) : Live(unacked)[i] = unacked[i].item
  BY <1>1, LiveItems
<1>3. /\ Live(wire) \in Seq(Items) /\ Len(Live(wire)) = Len(wire)
      /\ \A i \in 1 .. Len(wire) : Live(wire)[i] = wire[i].item
  BY <1>1, LiveItems
<1>4. Len(batch) \in Nat /\ Len(wire) \in Nat
  BY <1>1, LenProperties
<1> DEFINE t == batch \o Live(wire)
<1>5. /\ t \in Seq(Items) /\ Len(t) = Len(batch) + Len(wire)
      /\ \A i \in 1 .. Len(batch) + Len(wire) :
           t[i] = IF i <= Len(batch) THEN batch[i] ELSE Live(wire)[i - Len(batch)]
  <2>1. /\ t \in Seq(Items) /\ Len(t) = Len(batch) + Len(Live(wire))
        /\ \A i \in 1 .. Len(batch) + Len(Live(wire)) :
             t[i] = IF i <= Len(batch) THEN batch[i] ELSE Live(wire)[i - Len(batch)]
    BY <1>1, <1>3, ConcatProperties
  <2> QED BY <1>3, <2>1
<1> HIDE DEF t
<1>6. ASSUME NEW i \in 1 .. Len(unacked) PROVE Live(unacked)[i] = t[i]
  <2>1. i \in 1 .. Len(batch) + Len(wire)
    BY DEF Aligned
  <2>2. CASE i <= Len(batch)
    <3>1. i \in 1 .. Len(batch) /\ unacked[i].item = batch[i]
      BY <1>4, <2>2 DEF Aligned
    <3> QED BY <1>2, <1>5, <2>1, <2>2, <3>1
  <2>3. CASE ~(i <= Len(batch))
    <3>1. i - Len(batch) \in 1 .. Len(wire) /\ Len(batch) + (i - Len(batch)) = i
      BY <1>4, <2>1, <2>3
    <3>2. unacked[i] = wire[i - Len(batch)]
      BY <3>1 DEF Aligned
    <3> QED BY <1>2, <1>3, <1>5, <2>1, <2>3, <3>1, <3>2
  <2> QED BY <2>2, <2>3
<1>7. Live(unacked) = t
  <2>1. Len(Live(unacked)) = Len(t)
    BY <1>2, <1>5 DEF Aligned
  <2> QED BY <1>2, <1>5, <1>6, <2>1, SeqEqual
<1> QED BY <1>7 DEF t

\* A multiple ack settles the batch and nothing else.
LEMMA AckSettles ==
  ASSUME IngestTypeOK, Aligned, batch # <<>>
  PROVE  /\ Unsettled(tag) = wire
         /\ Range(unacked) = Range(wire) \cup {unacked[i] : i \in 1 .. Len(batch)}
<1>1. unacked \in Seq(Delivery) /\ wire \in Seq(Delivery) /\ tag \in Nat
  BY DEF IngestTypeOK
<1>2. Len(batch) \in Nat \ {0} /\ Len(wire) \in Nat /\ Len(unacked) = Len(batch) + Len(wire)
  BY EmptySeq, LenProperties DEF IngestTypeOK, Aligned
<1>3. DOMAIN unacked = 1 .. Len(unacked) /\ \A i \in 1 .. Len(unacked) : unacked[i].tag \in Nat
  BY <1>1, LedgerItems
<1>4. {i \in DOMAIN unacked : unacked[i].tag <= tag} = 1 .. Len(batch)
  <2>1. Len(batch) \in 1 .. Len(unacked) /\ tag = unacked[Len(batch)].tag
    BY <1>2 DEF Aligned
  <2>2. ASSUME NEW i \in 1 .. Len(unacked)
        PROVE  unacked[i].tag <= tag <=> i <= Len(batch)
    <3>1. CASE i < Len(batch)
      BY <1>1, <1>2, <1>3, <2>1, <3>1 DEF Aligned
    <3>2. CASE i = Len(batch)
      BY <1>1, <1>2, <1>3, <2>1, <3>2
    <3>3. CASE i > Len(batch)
      <4>1. tag < unacked[i].tag
        BY <1>2, <2>1, <3>3 DEF Aligned
      <4> QED BY <1>1, <1>2, <1>3, <3>3, <4>1
    <3> QED BY <1>2, <3>1, <3>2, <3>3
  <2>3. 1 .. Len(batch) \subseteq 1 .. Len(unacked)
    BY <1>2
  <2>4. \A i \in 1 .. Len(unacked) : unacked[i].tag <= tag <=> i \in 1 .. Len(batch)
    BY <1>2, <2>2
  <2> QED BY <1>3, <2>3, <2>4
<1>5. Cardinality(1 .. Len(batch)) = Len(batch)
  <2>1. \A n \in Nat : Cardinality(1 .. n) = IF 1 > n THEN 0 ELSE n - 1 + 1
    BY FS_Interval
  <2> QED BY <1>2, <2>1
<1>6. Unsettled(tag) = SubSeq(unacked, Len(batch) + 1, Len(unacked))
  BY <1>4, <1>5 DEF Unsettled
<1> DEFINE t == SubSeq(unacked, Len(batch) + 1, Len(unacked))
<1>7. /\ t \in Seq(Delivery) /\ Len(t) = Len(unacked) - Len(batch)
      /\ \A j \in 1 .. Len(unacked) - Len(batch) : t[j] = unacked[Len(batch) + j]
      /\ Range(unacked) = Range(t) \cup {unacked[j] : j \in 1 .. Len(batch)}
  <2>1. Len(batch) \in 0 .. Len(unacked)
    BY <1>2
  <2> QED BY <1>1, <2>1, DropFirst
<1> HIDE DEF t
<1>8. t = wire
  <2>1. Len(t) = Len(wire) /\ \A j \in 1 .. Len(t) : t[j] = wire[j]
    BY <1>2, <1>7 DEF Aligned
  <2> QED BY <1>1, <1>7, <2>1, SeqEqual
<1> QED BY <1>6, <1>7, <1>8 DEF t

\* A delivery joins the ledger and the wire at their ends.
LEMMA DeliverAligned ==
  ASSUME IngestTypeOK, Aligned, Deliver
  PROVE  Aligned' /\ unacked' \in Seq(Delivery) /\ wire' \in Seq(Delivery)
<1> DEFINE d == [tag |-> nextTag, item |-> Head(queue)]
<1>1. /\ unacked' = Append(unacked, d) /\ wire' = Append(wire, d) /\ nextTag' = nextTag + 1
      /\ batch' = batch /\ tag' = tag
  BY DEF Deliver
<1>2. d \in Delivery
  BY DeliverKeeps
<1>3. d.tag = nextTag /\ nextTag \in Nat
  BY DEF IngestTypeOK
<1> HIDE DEF d
<1>4. unacked \in Seq(Delivery) /\ wire \in Seq(Delivery)
  BY DEF IngestTypeOK
<1>5. /\ Len(unacked) \in Nat /\ Len(wire) \in Nat /\ Len(batch) \in Nat
      /\ Len(unacked) = Len(batch) + Len(wire)
      /\ \A i \in 1 .. Len(unacked) : unacked[i].tag \in Nat
      /\ batch # <<>> => Len(batch) \in 1 .. Len(unacked)
  <2>1. Len(batch) \in Nat /\ (batch # <<>> => Len(batch) \in Nat \ {0})
    BY EmptySeq, LenProperties DEF IngestTypeOK
  <2>2. Len(unacked) = Len(batch) + Len(wire) /\ Len(wire) \in Nat
    BY <1>4, LenProperties DEF Aligned
  <2>3. \A i \in 1 .. Len(unacked) : unacked[i].tag \in Nat
    BY <1>4, LedgerItems
  <2> QED BY <2>1, <2>2, <2>3
<1>6. /\ unacked' \in Seq(Delivery) /\ Len(unacked') = Len(unacked) + 1
      /\ \A i \in 1 .. Len(unacked) : unacked'[i] = unacked[i]
      /\ unacked'[Len(unacked) + 1] = d
  BY <1>1, <1>2, <1>4, AppendProperties
<1>7. /\ wire' \in Seq(Delivery) /\ Len(wire') = Len(wire) + 1
      /\ \A i \in 1 .. Len(wire) : wire'[i] = wire[i]
      /\ wire'[Len(wire) + 1] = d
  BY <1>1, <1>2, <1>4, AppendProperties
<1>8. \A i \in 1 .. Len(batch) : unacked'[i].item = batch[i]
  BY <1>5, <1>6 DEF Aligned
<1>9. ASSUME NEW i \in 1 .. Len(wire') PROVE unacked'[Len(batch) + i] = wire'[i]
  <2>1. CASE i <= Len(wire)
    <3>1. i \in 1 .. Len(wire) /\ Len(batch) + i \in 1 .. Len(unacked)
      BY <1>5, <1>7, <2>1
    <3>2. unacked[Len(batch) + i] = wire[i]
      BY <3>1 DEF Aligned
    <3> QED BY <1>6, <1>7, <3>1, <3>2
  <2>2. CASE i = Len(wire) + 1
    <3>1. Len(batch) + i = Len(unacked) + 1
      BY <1>5, <2>2
    <3> QED BY <1>6, <1>7, <2>2, <3>1
  <2> QED BY <1>5, <1>7, <2>1, <2>2
<1>10. \A i, j \in 1 .. Len(unacked') : i < j => unacked'[i].tag < unacked'[j].tag
  <2>1. \A i, j \in 1 .. Len(unacked) : i < j => unacked[i].tag < unacked[j].tag
    BY DEF Aligned
  <2>2. \A i \in 1 .. Len(unacked) : unacked[i].tag < nextTag
    BY DEF Aligned
  <2>3. ASSUME NEW i \in 1 .. Len(unacked'), NEW j \in 1 .. Len(unacked'), i < j
        PROVE  unacked'[i].tag < unacked'[j].tag
    <3>1. i \in 1 .. Len(unacked) /\ unacked'[i] = unacked[i]
      BY <1>5, <1>6, <2>3
    <3>2. CASE j \in 1 .. Len(unacked)
      BY <1>6, <2>1, <2>3, <3>1, <3>2
    <3>3. CASE j = Len(unacked) + 1
      BY <1>3, <1>6, <2>2, <3>1, <3>3
    <3>4. j \in 1 .. Len(unacked) \/ j = Len(unacked) + 1
      BY <1>5, <1>6
    <3> QED BY <3>2, <3>3, <3>4
  <2> QED BY <2>3
<1>11. \A i \in 1 .. Len(unacked') : unacked'[i].tag < nextTag'
  <2>1. \A i \in 1 .. Len(unacked) : unacked'[i].tag < nextTag'
    BY <1>1, <1>3, <1>5, <1>6, SMTT(30) DEF Aligned
  <2> QED BY <1>1, <1>3, <1>5, <1>6, <2>1
<1>12. batch # <<>> => tag = unacked'[Len(batch)].tag
  BY <1>5, <1>6 DEF Aligned
<1>13. Len(unacked') = Len(batch) + Len(wire')
  BY <1>5, <1>6, <1>7
<1> QED BY <1>1, <1>6, <1>7, <1>8, <1>9, <1>10, <1>11, <1>12, <1>13 DEF Aligned

\* Accepting a frame moves the border between batch and wire by one.
LEMMA AcceptAligned ==
  ASSUME IngestTypeOK, AcceptFrame
  PROVE  /\ batch' \in Seq(FrameIds) /\ wire' \in Seq(Delivery) /\ Len(batch') = Len(batch) + 1
         /\ tag' \in Nat
         /\ Range(batch') = Range(batch) \cup {Head(wire).item}
         /\ Range(batch') \cup Held(wire') = Range(batch) \cup Held(wire)
         /\ Aligned => Aligned'
<1>1. /\ wire # <<>> /\ wire' = Tail(wire) /\ batch' = Append(batch, Head(wire).item)
      /\ tag' = Head(wire).tag /\ Head(wire).item \notin Poison
      /\ unacked' = unacked /\ nextTag' = nextTag
  BY DEF AcceptFrame, HighestTag, queueVars
<1>2. wire \in Seq(Delivery) /\ unacked \in Seq(Delivery) /\ batch \in Seq(FrameIds)
  BY DEF IngestTypeOK
<1>3. /\ Head(wire) \in Delivery /\ wire' \in Seq(Delivery) /\ Len(wire') = Len(wire) - 1
      /\ \A i \in 1 .. Len(wire') : wire'[i] = wire[i + 1]
      /\ Len(wire) \in Nat \ {0} /\ Head(wire) = wire[1]
  BY <1>1, <1>2, HeadTailProperties, EmptySeq
<1>4. Head(wire).item \in FrameIds /\ Head(wire).tag \in Nat
  BY <1>1, <1>3 DEF Delivery, Items
<1>5. /\ batch' \in Seq(FrameIds) /\ Len(batch') = Len(batch) + 1
      /\ \A i \in 1 .. Len(batch) : batch'[i] = batch[i]
      /\ batch'[Len(batch) + 1] = Head(wire).item
      /\ Range(batch') = Range(batch) \cup {Head(wire).item}
  <2>1. Range(batch') = Range(batch) \cup {Head(wire).item}
    BY <1>1, <1>2, <1>4, RangeAppend
  <2> QED BY <1>1, <1>2, <1>4, <2>1, AppendProperties
<1>6. Held(wire) = {Head(wire).item} \cup Held(wire')
  <2>1. Range(wire) = {Head(wire)} \cup Range(wire')
    BY <1>1, <1>2, RangeHeadTail
  <2>2. Held(wire) = {d.item : d \in Range(wire)} /\ Held(wire') = {d.item : d \in Range(wire')}
    BY <1>2, <1>3, HeldRange
  <2> QED BY <2>1, <2>2
<1>7. ASSUME Aligned PROVE Aligned'
  <2>1. Len(batch) \in Nat /\ Len(unacked) = Len(batch) + Len(wire)
    BY <1>2, <1>7, LenProperties DEF Aligned
  <2>2. unacked[Len(batch) + 1] = Head(wire)
    BY <1>3, <1>7 DEF Aligned
  <2>3. \A i \in 1 .. Len(batch') : unacked[i].item = batch'[i]
    <3> TAKE i \in 1 .. Len(batch')
    <3>1. CASE i \in 1 .. Len(batch)
      BY <1>5, <1>7, <3>1 DEF Aligned
    <3>2. CASE i = Len(batch) + 1
      BY <1>5, <2>2, <3>2
    <3> QED BY <1>5, <2>1, <3>1, <3>2
  <2>4. \A i \in 1 .. Len(wire') : unacked[Len(batch') + i] = wire'[i]
    <3> TAKE i \in 1 .. Len(wire')
    <3>1. i + 1 \in 1 .. Len(wire) /\ Len(batch') + i = Len(batch) + (i + 1)
      BY <1>3, <1>5, <2>1
    <3>2. unacked[Len(batch) + (i + 1)] = wire[i + 1]
      BY <1>7, <3>1 DEF Aligned
    <3> QED BY <1>3, <3>1, <3>2
  <2>5. tag' = unacked[Len(batch')].tag
    BY <1>1, <1>5, <2>2
  <2>6. Len(unacked) = Len(batch') + Len(wire')
    BY <1>3, <1>5, <2>1
  <2> QED BY <1>1, <1>7, <2>3, <2>4, <2>5, <2>6 DEF Aligned
<1> QED BY <1>1, <1>3, <1>4, <1>5, <1>6, <1>7

\* Dead-lettering takes the first delivery of the wire out of the ledger.
LEMMA RejectAligned ==
  ASSUME IngestTypeOK, RejectPoison
  PROVE  /\ wire' \in Seq(Delivery) /\ unacked' \in Seq(Delivery) /\ dlq' \in Seq(Poison)
         /\ Held(wire') \subseteq Held(wire)
         /\ ingestConn = "up" /\ Aligned =>
              /\ Aligned' /\ Range(dlq') = Range(dlq) \cup {Head(wire).item}
              /\ Held(unacked) = Held(unacked') \cup {Head(wire).item}
         /\ ingestConn # "up" => UNCHANGED <<unacked, dlq>>
<1>1. /\ wire # <<>> /\ wire' = Tail(wire) /\ Head(wire).item \in Poison
      /\ batch' = batch /\ tag' = tag /\ nextTag' = nextTag
      /\ IF ingestConn = "up" THEN Reject(Head(wire)) ELSE UNCHANGED <<unacked, dlq>>
  BY DEF RejectPoison
<1>2. wire \in Seq(Delivery) /\ unacked \in Seq(Delivery) /\ dlq \in Seq(Poison)
  BY DEF IngestTypeOK
<1>3. /\ wire' \in Seq(Delivery) /\ Len(wire') = Len(wire) - 1
      /\ \A i \in 1 .. Len(wire') : wire'[i] = wire[i + 1]
      /\ Len(wire) \in Nat \ {0} /\ Head(wire) = wire[1]
  BY <1>1, <1>2, HeadTailProperties, EmptySeq
<1>4. Held(wire') \subseteq Held(wire)
  <2>1. Range(wire) = {Head(wire)} \cup Range(wire')
    BY <1>1, <1>2, RangeHeadTail
  <2>2. Held(wire) = {d.item : d \in Range(wire)} /\ Held(wire') = {d.item : d \in Range(wire')}
    BY <1>2, <1>3, HeldRange
  <2> QED BY <2>1, <2>2
<1>5. CASE ingestConn # "up"
  BY <1>1, <1>2, <1>3, <1>4, <1>5
<1>6. CASE ingestConn = "up"
  <2>1. PICK i \in DOMAIN unacked :
          unacked[i].tag = Head(wire).tag /\ unacked' = RemoveAt(unacked, i)
    BY <1>1, <1>6 DEF Reject
  <2>2. dlq' = Append(dlq, Head(wire).item)
    BY <1>1, <1>6 DEF Reject
  <2>3. dlq' \in Seq(Poison) /\ Range(dlq') = Range(dlq) \cup {Head(wire).item}
    BY <1>1, <1>2, <2>2, AppendProperties, RangeAppend
  <2>4. /\ i \in 1 .. Len(unacked) /\ Len(unacked) \in Nat
        /\ \A j \in 1 .. Len(unacked) : unacked[j].tag \in Nat
    BY <1>2, <2>1, LedgerItems
  <2>5. unacked' = RemoveAt(unacked, i)
    BY <2>1
  <2>6. /\ unacked' \in Seq(Delivery) /\ Len(unacked') = Len(unacked) - 1
        /\ \A j \in 1 .. Len(unacked) - 1 :
             unacked'[j] = IF j < i THEN unacked[j] ELSE unacked[j + 1]
        /\ Range(unacked) = Range(unacked') \cup {unacked[i]}
    <3>1. unacked \in Seq(Delivery) /\ i \in 1 .. Len(unacked)
      BY <1>2, <2>4
    <3>2. /\ RemoveAt(unacked, i) \in Seq(Delivery)
          /\ Len(RemoveAt(unacked, i)) = Len(unacked) - 1
          /\ Range(unacked) = Range(RemoveAt(unacked, i)) \cup {unacked[i]}
      BY <3>1, TakeOut
    <3>3. \A j \in 1 .. Len(unacked) - 1 :
            RemoveAt(unacked, i)[j] = IF j < i THEN unacked[j] ELSE unacked[j + 1]
      BY <3>1, TakeOut
    <3> QED BY <2>5, <3>2, <3>3
  <2>7. ASSUME Aligned
        PROVE  Aligned' /\ Held(unacked) = Held(unacked') \cup {Head(wire).item}
    <3>1. Len(batch) \in Nat /\ Len(unacked) = Len(batch) + Len(wire)
      BY <2>7, LenProperties DEF IngestTypeOK, Aligned
    <3>2. unacked[Len(batch) + 1] = Head(wire) /\ Len(batch) + 1 \in 1 .. Len(unacked)
      BY <1>3, <2>7, <3>1 DEF Aligned
    <3>3. i = Len(batch) + 1
      <4>1. unacked[i].tag = unacked[Len(batch) + 1].tag
        BY <2>1, <3>2
      <4>2. \A a, b \in 1 .. Len(unacked) : a < b => unacked[a].tag < unacked[b].tag
        BY <2>7 DEF Aligned
      <4>3. unacked[i].tag \in Nat
        BY <2>4
      <4>4. ~(i < Len(batch) + 1) /\ ~(Len(batch) + 1 < i)
        BY <2>4, <3>2, <4>1, <4>2, <4>3
      <4> QED BY <2>4, <3>1, <4>4
    <3>4. Held(unacked) = Held(unacked') \cup {Head(wire).item}
      <4>1. /\ Held(unacked) = {d.item : d \in Range(unacked)}
            /\ Held(unacked') = {d.item : d \in Range(unacked')}
        BY <1>2, <2>6, HeldRange
      <4> QED BY <2>6, <3>2, <3>3, <4>1
    <3>5. /\ \A j \in 1 .. Len(batch) : unacked'[j] = unacked[j] /\ unacked[j].item = batch[j]
          /\ \A j \in Len(batch) + 1 .. Len(unacked) - 1 : unacked'[j] = unacked[j + 1]
      <4>1. \A j \in 1 .. Len(batch) : j \in 1 .. Len(unacked) - 1 /\ j < i
        BY <1>3, <3>1, <3>3
      <4>2. \A j \in Len(batch) + 1 .. Len(unacked) - 1 :
              j \in 1 .. Len(unacked) - 1 /\ ~(j < i)
        BY <3>1, <3>3
      <4>3. \A j \in 1 .. Len(batch) : unacked[j].item = batch[j]
        BY <2>7 DEF Aligned
      <4> QED BY <2>6, <4>1, <4>2, <4>3
    <3>6. \A j \in 1 .. Len(wire') : unacked'[Len(batch) + j] = wire'[j]
      <4> TAKE j \in 1 .. Len(wire')
      <4>1. /\ j + 1 \in 1 .. Len(wire) /\ Len(batch) + j \in Len(batch) + 1 .. Len(unacked) - 1
            /\ (Len(batch) + j) + 1 = Len(batch) + (j + 1)
        BY <1>3, <3>1
      <4>2. unacked[Len(batch) + (j + 1)] = wire[j + 1]
        BY <2>7, <4>1 DEF Aligned
      <4> QED BY <1>3, <3>5, <4>1, <4>2
    <3>7. \A a, b \in 1 .. Len(unacked') : a < b => unacked'[a].tag < unacked'[b].tag
      <4>1. ASSUME NEW a \in 1 .. Len(unacked'), NEW b \in 1 .. Len(unacked'), a < b
            PROVE  unacked'[a].tag < unacked'[b].tag
        <5> DEFINE p == IF a < i THEN a ELSE a + 1
                   q == IF b < i THEN b ELSE b + 1
        <5>1. p \in 1 .. Len(unacked) /\ q \in 1 .. Len(unacked) /\ p < q
          BY <2>4, <2>6, <4>1
        <5>2. unacked'[a] = unacked[p] /\ unacked'[b] = unacked[q]
          BY <2>6
        <5> HIDE DEF p, q
        <5> QED BY <2>7, <5>1, <5>2 DEF Aligned
      <4> QED BY <4>1
    <3>8. \A j \in 1 .. Len(unacked') : unacked'[j].tag < nextTag
      <4> TAKE j \in 1 .. Len(unacked')
      <4> DEFINE p == IF j < i THEN j ELSE j + 1
      <4>1. p \in 1 .. Len(unacked) /\ unacked'[j] = unacked[p]
        BY <2>4, <2>6
      <4> HIDE DEF p
      <4> QED BY <2>7, <4>1 DEF Aligned
    <3>9. batch # <<>> => tag = unacked'[Len(batch)].tag
      <4>1. batch # <<>> => Len(batch) \in 1 .. Len(batch)
        BY EmptySeq DEF IngestTypeOK
      <4> QED BY <2>7, <3>5, <4>1 DEF Aligned
    <3>10. Len(unacked') = Len(batch) + Len(wire')
      BY <1>3, <2>6, <3>1
    <3> QED BY <1>1, <3>4, <3>5, <3>6, <3>7, <3>8, <3>9, <3>10 DEF Aligned
  <2> QED BY <1>3, <1>4, <1>6, <2>3, <2>6, <2>7
<1> QED BY <1>5, <1>6

-----------------------------------------------------------------------------
(* What a step leaves of the invariant.                                     *)

\* The accounting is not touched and nothing leaves the database.
LEMMA HistoryKept ==
  ASSUME HistoryInv, UNCHANGED gapVars, rows \subseteq rows'
  PROVE  HistoryInv'
BY DEF HistoryInv, History, gapVars

\* Nothing leaves the broker, and what lands is there.
LEMMA PendingKept ==
  ASSUME IngestTypeOK, PendingInv, UNCHANGED gapVars,
         AtBroker \subseteq AtBroker', rows' \subseteq rows \cup AtBroker',
         ingestPhase' = "down" \/ (ingestPhase # "down" /\ ingestPhase' # "account")
           \/ UNCHANGED <<ingestPhase, done, batch>>
  PROVE  PendingInv'
<1>1. UNCHANGED well
  BY DEF gapVars
<1>2. ingestPhase' # "down" => ingestPhase # "down"
  OBVIOUS
<1> QED BY <1>1, <1>2 DEF PendingInv

LEMMA CustodyKept ==
  ASSUME IngestTypeOK, IngestCustody, AtBroker \subseteq AtBroker', rows \subseteq rows',
         UNCHANGED limbo,
         Range(batch') \cup Held(wire') \subseteq Range(batch) \cup Held(wire),
         ingestPhase' = "account" => UNCHANGED <<ingestPhase, batch>>
  PROVE  IngestCustody'
BY DEF IngestCustody

\* The end of a session: its locals go, the broker keeps what it held.
LEMMA SessionEnds ==
  ASSUME IngestTypeOK, LedgerInv, IngestCustody, EndIngest, queue' = queue
  PROVE  /\ AtBroker' = AtBroker /\ LedgerInv'
         /\ Range(batch') = {} /\ Held(wire') = {}
         /\ ingestPhase' = "down" /\ ingestConn' = "none" /\ tag' = 0 /\ nextTag' = 1
         /\ wire' = <<>> /\ batch' = <<>> /\ done' = 0
         /\ unacked' \in Seq(Delivery) /\ orphans' \in Seq(Seq(Delivery))
<1>1. Abandon /\ ingestPhase' = "down" /\ ingestConn' = "none" /\ wire' = <<>> /\ batch' = <<>>
  BY DEF EndIngest
<1>2. AtBroker' = AtBroker /\ unacked' \in Seq(Delivery) /\ orphans' \in Seq(Seq(Delivery))
  BY <1>1, AbandonKeeps
<1>3. unacked' = <<>>
  BY <1>1 DEF Abandon
<1>4. LedgerInv'
  BY <1>1, <1>3 DEF LedgerInv
<1> QED BY <1>1, <1>2, <1>4, NothingHeld DEF EndIngest

LEMMA EndedType ==
  ASSUME IngestTypeOK, LedgerInv, IngestCustody, EndIngest, queue' = queue, dlq' = dlq,
         well' \in Well, floor' \in Nat, rows' \subseteq FrameIds, limbo' \subseteq SUBSET FrameIds
  PROVE  IngestTypeOK'
<1>1. /\ ingestPhase' = "down" /\ ingestConn' = "none" /\ tag' = 0 /\ nextTag' = 1
      /\ wire' = <<>> /\ batch' = <<>> /\ done' = 0
      /\ unacked' \in Seq(Delivery) /\ orphans' \in Seq(Seq(Delivery))
  BY SessionEnds
<1>2. Len(<<>>) = 0 /\ <<>> \in Seq(Delivery) /\ <<>> \in Seq(FrameIds)
  BY EmptySeq
<1> QED BY <1>1, <1>2 DEF IngestTypeOK

-----------------------------------------------------------------------------
(* The steps of the broker.                                                 *)

LEMMA InitClassic == IngestInit => ClassicInv
<1> SUFFICES ASSUME IngestInit PROVE ClassicInv
  OBVIOUS
<1>1. History(NoWell, 0, {})
  BY NoHistory
<1>2. IngestTypeOK
  <2>1. well \in Well
    BY <1>1, HistoryType DEF IngestInit
  <2>2. Len(<<>>) = 0
    OBVIOUS
  <2> QED BY <2>1, <2>2 DEF IngestInit, IngestTypeOK
<1>3. LedgerInv
  BY DEF IngestInit, LedgerInv
<1>4. IngestCustody
  BY NothingHeld DEF IngestInit, IngestCustody
<1>5. HistoryInv
  BY <1>1 DEF IngestInit, HistoryInv
<1>6. PendingInv
  BY DEF IngestInit, PendingInv
<1> QED BY <1>2, <1>3, <1>4, <1>5, <1>6 DEF ClassicInv

LEMMA PublishClassic ==
  ASSUME ClassicInv, NEW i \in Items, EnqueueItem(i)
  PROVE  ClassicInv'
<1>1. /\ UNCHANGED <<unacked, orphans, dlq, ingestConn, ingestPhase, sessionVars, gapVars, dbVars>>
  BY DEF EnqueueItem
<1>2. AtBroker' = AtBroker \cup {i} /\ queue' \in Seq(Items)
  BY PublishKeeps DEF ClassicInv
<1>3. IngestTypeOK'
  BY <1>1, <1>2 DEF ClassicInv, IngestTypeOK, sessionVars, gapVars, dbVars
<1>4. LedgerInv'
  BY <1>1 DEF ClassicInv, LedgerInv, Aligned, sessionVars
<1>5. IngestCustody'
  BY <1>1, <1>2, CustodyKept DEF ClassicInv, sessionVars, dbVars
<1>6. HistoryInv'
  BY <1>1, HistoryKept DEF ClassicInv, dbVars
<1>7. PendingInv'
  BY <1>1, <1>2, PendingKept DEF ClassicInv, sessionVars, dbVars
<1> QED BY <1>3, <1>4, <1>5, <1>6, <1>7 DEF ClassicInv

LEMMA DeliverClassic ==
  ASSUME ClassicInv, Deliver
  PROVE  ClassicInv'
<1>1. /\ UNCHANGED <<orphans, dlq, ingestConn, ingestPhase, batch, tag, done, gapVars, dbVars>>
      /\ ingestConn = "up" /\ nextTag' = nextTag + 1
      /\ wire' = Append(wire, [tag |-> nextTag, item |-> Head(queue)])
  BY DEF Deliver
<1>2. /\ AtBroker' = AtBroker /\ queue' \in Seq(Items)
      /\ [tag |-> nextTag, item |-> Head(queue)] \in Delivery
  BY DeliverKeeps DEF ClassicInv
<1>3. Aligned' /\ unacked' \in Seq(Delivery) /\ wire' \in Seq(Delivery)
  BY <1>1, DeliverAligned DEF ClassicInv, LedgerInv
<1>4. IngestTypeOK'
  BY <1>1, <1>2, <1>3 DEF ClassicInv, IngestTypeOK, gapVars, dbVars
<1>5. LedgerInv'
  BY <1>1, <1>3 DEF ClassicInv, LedgerInv, IngestTypeOK
<1>6. IngestCustody'
  <2>1. Held(wire') \subseteq AtBroker
    <3>1. Held(wire') = Held(wire) \cup {Head(queue)}
      <4> DEFINE d == [tag |-> nextTag, item |-> Head(queue)]
      <4>1. Range(wire') = Range(wire) \cup {d}
        BY <1>1, <1>2, RangeAppend DEF ClassicInv, IngestTypeOK
      <4>2. d.item = Head(queue)
        OBVIOUS
      <4> HIDE DEF d
      <4> QED BY <1>3, <4>1, <4>2, HeldRange DEF ClassicInv, IngestTypeOK
    <3>2. Head(queue) \in Range(queue)
      BY RangeHeadTail DEF ClassicInv, IngestTypeOK, Deliver
    <3> QED BY <3>1, <3>2 DEF ClassicInv, IngestCustody, AtBroker
  <2> QED BY <1>1, <1>2, <2>1 DEF ClassicInv, IngestCustody, dbVars
<1>7. HistoryInv'
  BY <1>1, HistoryKept DEF ClassicInv, dbVars
<1>8. PendingInv'
  BY <1>1, <1>2, PendingKept DEF ClassicInv, dbVars
<1> QED BY <1>4, <1>5, <1>6, <1>7, <1>8 DEF ClassicInv

LEMMA BreakClassic ==
  ASSUME ClassicInv, IngestBreak \/ Requeue
  PROVE  ClassicInv'
<1>1. /\ UNCHANGED <<dlq, ingestPhase, sessionVars, gapVars, dbVars>>
      /\ AtBroker' = AtBroker
  BY AbandonKeeps, RequeueKeeps DEF IngestBreak, Requeue, ClassicInv
<1>2. /\ queue' \in Seq(Items) /\ unacked' \in Seq(Delivery)
      /\ orphans' \in Seq(Seq(Delivery))
  <2>1. CASE IngestBreak
    BY <2>1, AbandonKeeps DEF IngestBreak, ClassicInv, IngestTypeOK
  <2>2. CASE Requeue
    BY <2>2, RequeueKeeps DEF Requeue, ClassicInv, IngestTypeOK
  <2> QED BY <2>1, <2>2
<1>3. /\ ingestConn' \in {"none", "up", "half", "closed"}
      /\ ingestConn' = "none" <=> ingestConn = "none"
      /\ ingestConn' = "up" => ingestConn = "up" /\ unacked' = unacked
      /\ ingestConn' # "up" => unacked' = <<>>
  <2>1. CASE IngestBreak
    BY <2>1 DEF IngestBreak, Abandon
  <2>2. CASE Requeue
    BY <2>2 DEF Requeue, ClassicInv, IngestTypeOK, LedgerInv
  <2> QED BY <2>1, <2>2
<1>4. IngestTypeOK'
  BY <1>1, <1>2, <1>3 DEF ClassicInv, IngestTypeOK, sessionVars, gapVars, dbVars
<1>5. LedgerInv'
  BY <1>1, <1>3 DEF ClassicInv, LedgerInv, Aligned, sessionVars
<1>6. IngestCustody'
  BY <1>1, CustodyKept DEF ClassicInv, sessionVars, dbVars
<1>7. HistoryInv'
  BY <1>1, HistoryKept DEF ClassicInv, dbVars
<1>8. PendingInv'
  BY <1>1, PendingKept DEF ClassicInv, sessionVars, dbVars
<1> QED BY <1>4, <1>5, <1>6, <1>7, <1>8 DEF ClassicInv

-----------------------------------------------------------------------------
(* The steps of a session.                                                  *)

\* Seeded from the newest frame stored, the accounting has nothing pending:
\* what it is ahead of has landed already.
LEMMA StartClassic ==
  ASSUME ClassicInv, StartSession
  PROVE  ClassicInv'
<1>1. /\ ingestPhase = "down" /\ ingestPhase' = "loop" /\ ingestConn' = "up"
      /\ UNCHANGED <<queue, unacked, orphans, dlq, sessionVars, dbVars>>
  BY DEF StartSession
<1>2. AtBroker' = AtBroker
  BY <1>1 DEF AtBroker
<1>3. ingestConn = "none" /\ unacked = <<>> /\ batch = <<>> /\ wire = <<>>
  BY <1>1 DEF ClassicInv, IngestTypeOK, LedgerInv
<1>4. LedgerInv'
  <2>1. Len(<<>>) = 0
    OBVIOUS
  <2> QED BY <1>1, <1>3, <2>1 DEF LedgerInv, Aligned, sessionVars
<1>5. IngestCustody'
  BY <1>1, <1>2, CustodyKept DEF ClassicInv, sessionVars, dbVars
<1>6. CASE rows = {} \/ Known(well)
  <2>1. UNCHANGED gapVars
    BY <1>6 DEF StartSession
  <2>2. IngestTypeOK'
    BY <1>1, <2>1 DEF ClassicInv, IngestTypeOK, sessionVars, gapVars, dbVars
  <2>3. HistoryInv'
    BY <1>1, <2>1, HistoryKept DEF ClassicInv, dbVars
  <2>4. PendingInv'
    BY <1>1, <1>2, <1>6, <2>1 DEF ClassicInv, PendingInv, gapVars, dbVars
  <2> QED BY <1>4, <1>5, <2>2, <2>3, <2>4 DEF ClassicInv
<1>7. CASE ~(rows = {} \/ Known(well))
  <2>1. PICK f \in rows : /\ Newest(f) /\ well' = SeedWell(well, f.epoch, f.seq)
                          /\ floor' = f.seq
    BY <1>7 DEF StartSession
  <2>2. f.epoch \in Nat /\ f.seq \in Nat \ {0}
    BY FrameFields DEF ClassicInv, IngestTypeOK
  <2>3. well' = NewWell(f.epoch, f.seq + 1)
    BY <1>7, <2>1 DEF SeedWell
  <2>4. History(well', floor', rows')
    <3>1. History(NewWell(f.epoch, f.seq + 1), f.seq, rows')
      BY <2>2, SeededHistory
    <3> QED BY <2>1, <2>3, <3>1
  <2>5. HistoryInv'
    BY <2>4 DEF HistoryInv
  <2>6. IngestTypeOK'
    <3>1. well' \in Well /\ floor' \in Nat
      BY <2>1, <2>2, <2>4, HistoryType
    <3> QED BY <1>1, <3>1 DEF ClassicInv, IngestTypeOK, sessionVars, dbVars
  <2>7. PendingInv'
    <3>1. ASSUME NEW g \in rows PROVE ~Pending(well', g.epoch, g.seq)
      <4>1. g.epoch \in Nat /\ g.seq \in Nat \ {0}
        BY FrameFields DEF ClassicInv, IngestTypeOK
      <4>2. g.epoch < f.epoch \/ (g.epoch = f.epoch /\ g.seq <= f.seq)
        BY <2>1 DEF Newest
      <4>3. /\ well'.epoch = f.epoch /\ well'.next = f.seq + 1 /\ well'.open = {}
            /\ ReportedMissing(well') = {}
        BY <2>3 DEF NewWell, ReportedMissing
      <4> HIDE DEF Known
      <4>4. Known(well')
        BY <2>2, <4>3 DEF Known
      <4> QED BY <2>2, <4>1, <4>2, <4>3, <4>4 DEF Pending
    <3> QED BY <1>1, <3>1 DEF PendingInv, dbVars
  <2> QED BY <1>4, <1>5, <2>5, <2>6, <2>7 DEF ClassicInv
<1> QED BY <1>6, <1>7

LEMMA FullIsNotEmpty ==
  ASSUME NEW b \in Seq(FrameIds), Len(b) >= BatchMax
  PROVE  b # <<>>
BY IngestAssumption

LEMMA AcceptClassic ==
  ASSUME ClassicInv, AcceptFrame
  PROVE  ClassicInv'
<1>1. /\ ingestPhase = "loop" /\ ingestPhase' = (IF Len(batch') >= BatchMax THEN "commit" ELSE "loop")
      /\ UNCHANGED <<queue, unacked, orphans, dlq, ingestConn, nextTag, done, gapVars, dbVars>>
  BY DEF AcceptFrame, queueVars
<1>2. /\ batch' \in Seq(FrameIds) /\ wire' \in Seq(Delivery) /\ Len(batch') = Len(batch) + 1
      /\ tag' \in Nat
      /\ Range(batch') \cup Held(wire') = Range(batch) \cup Held(wire)
      /\ Aligned => Aligned'
  BY AcceptAligned DEF ClassicInv
<1>3. AtBroker' = AtBroker
  BY <1>1 DEF AtBroker
<1>4. IngestTypeOK'
  <2>1. ingestPhase' = "commit" => batch' # <<>>
    BY <1>1, <1>2, FullIsNotEmpty
  <2>2. done' \in 0 .. Len(batch')
    BY <1>1, <1>2, LenProperties DEF ClassicInv, IngestTypeOK
  <2>3. ingestPhase' \in {"loop", "commit"} /\ ingestConn # "none"
    BY <1>1 DEF ClassicInv, IngestTypeOK
  <2> QED BY <1>1, <1>2, <2>1, <2>2, <2>3 DEF ClassicInv, IngestTypeOK, gapVars, dbVars
<1>5. LedgerInv'
  BY <1>1, <1>2 DEF ClassicInv, LedgerInv
<1>6. IngestCustody'
  BY <1>1, <1>2, <1>3, CustodyKept DEF ClassicInv, dbVars
<1>7. HistoryInv'
  BY <1>1, HistoryKept DEF ClassicInv, dbVars
<1>8. PendingInv'
  BY <1>1, <1>3, PendingKept DEF ClassicInv, dbVars
<1> QED BY <1>4, <1>5, <1>6, <1>7, <1>8 DEF ClassicInv

\* Nothing that has landed is poison.
LEMMA RejectClassic ==
  ASSUME ClassicInv, RejectPoison
  PROVE  /\ ClassicInv'
         /\ Head(wire).item \in Poison
         /\ \/ AtBroker' = AtBroker /\ dlq' = dlq
            \/ /\ AtBroker = AtBroker' \cup {Head(wire).item}
               /\ Range(dlq') = Range(dlq) \cup {Head(wire).item}
<1>1. /\ ingestPhase = "loop" /\ Head(wire).item \in Poison
      /\ UNCHANGED <<queue, orphans, ingestConn, ingestPhase, batch, tag, nextTag, done, gapVars, dbVars>>
  BY DEF RejectPoison
<1>2. /\ wire' \in Seq(Delivery) /\ unacked' \in Seq(Delivery) /\ dlq' \in Seq(Poison)
      /\ Held(wire') \subseteq Held(wire)
      /\ ingestConn = "up" /\ Aligned =>
           /\ Aligned' /\ Range(dlq') = Range(dlq) \cup {Head(wire).item}
           /\ Held(unacked) = Held(unacked') \cup {Head(wire).item}
      /\ ingestConn # "up" => UNCHANGED <<unacked, dlq>>
  BY RejectAligned DEF ClassicInv
<1>3. IngestTypeOK'
  BY <1>1, <1>2 DEF ClassicInv, IngestTypeOK, gapVars, dbVars
<1>4. LedgerInv'
  BY <1>1, <1>2 DEF ClassicInv, LedgerInv
<1>5. \/ AtBroker' = AtBroker /\ dlq' = dlq
      \/ /\ AtBroker = AtBroker' \cup {Head(wire).item}
         /\ Range(dlq') = Range(dlq) \cup {Head(wire).item}
  <2>1. CASE ingestConn = "up"
    BY <1>1, <1>2, <2>1 DEF ClassicInv, LedgerInv, AtBroker
  <2>2. CASE ingestConn # "up"
    BY <1>1, <1>2, <2>2 DEF AtBroker
  <2> QED BY <2>1, <2>2
<1>6. Range(batch) \subseteq FrameIds /\ rows \subseteq FrameIds /\ \A b \in limbo : b \subseteq FrameIds
  BY BatchItems DEF ClassicInv, IngestTypeOK
<1>7. AtBroker \subseteq AtBroker' \cup Poison
  BY <1>1, <1>5
<1>8. IngestCustody'
  <2>1. Range(batch) \subseteq AtBroker'
    BY <1>6, <1>7, PoisonAssumption DEF ClassicInv, IngestCustody
  <2>2. \A b \in limbo : b \subseteq AtBroker' \cup rows
    BY <1>6, <1>7, PoisonAssumption DEF ClassicInv, IngestCustody
  <2>3. Held(wire') \subseteq AtBroker'
    <3>1. CASE ingestConn = "up"
      <4>1. Aligned' /\ Len(batch) \in Nat
        BY <1>2, <3>1, BatchItems DEF ClassicInv, LedgerInv
      <4>2. Held(wire') = {wire'[i].item : i \in 1 .. Len(wire')} /\ Len(wire') \in Nat
        BY <1>2, LedgerItems
      <4>3. Held(unacked') = {unacked'[i].item : i \in 1 .. Len(unacked')}
        BY <1>2, LedgerItems
      <4>4. ASSUME NEW i \in 1 .. Len(wire') PROVE wire'[i].item \in Held(unacked')
        <5>1. batch' = batch
          BY <1>1
        <5>2. Len(unacked') = Len(batch) + Len(wire') /\ unacked'[Len(batch) + i] = wire'[i]
          BY <4>1, <5>1 DEF Aligned
        <5>3. Len(batch) + i \in 1 .. Len(unacked')
          BY <4>1, <4>2, <5>2
        <5> QED BY <4>3, <5>2, <5>3
      <4> QED BY <4>2, <4>4 DEF AtBroker
    <3>2. CASE ingestConn # "up"
      <4>1. AtBroker' = AtBroker
        BY <1>1, <1>2, <3>2 DEF AtBroker
      <4> QED BY <1>2, <4>1 DEF ClassicInv, IngestCustody
    <3> QED BY <3>1, <3>2
  <2> QED BY <1>1, <2>1, <2>2, <2>3 DEF ClassicInv, IngestCustody, dbVars
<1>9. HistoryInv'
  BY <1>1, HistoryKept DEF ClassicInv, dbVars
<1>10. PendingInv'
  BY <1>1, <1>6, <1>7, PoisonAssumption DEF ClassicInv, PendingInv, gapVars, dbVars
<1> QED BY <1>1, <1>3, <1>4, <1>5, <1>8, <1>9, <1>10 DEF ClassicInv

LEMMA TurnClassic ==
  ASSUME ClassicInv, FlushTick \/ SessionLost
  PROVE  ClassicInv'
<1>1. CASE FlushTick
  <2>1. /\ ingestPhase = "loop" /\ ingestPhase' = "commit" /\ batch # <<>>
        /\ UNCHANGED <<queueVars, sessionVars, gapVars, dbVars>>
    BY <1>1 DEF FlushTick
  <2>2. AtBroker' = AtBroker
    BY <2>1 DEF AtBroker, queueVars
  <2>3. IngestTypeOK'
    BY <2>1 DEF ClassicInv, IngestTypeOK, queueVars, sessionVars, gapVars, dbVars
  <2>4. LedgerInv'
    BY <2>1 DEF ClassicInv, LedgerInv, Aligned, queueVars, sessionVars
  <2>5. IngestCustody'
    BY <2>1, <2>2, CustodyKept DEF ClassicInv, sessionVars, dbVars
  <2>6. HistoryInv'
    BY <2>1, HistoryKept DEF ClassicInv, dbVars
  <2>7. PendingInv'
    BY <2>1, <2>2, PendingKept DEF ClassicInv, sessionVars, dbVars
  <2> QED BY <2>3, <2>4, <2>5, <2>6, <2>7 DEF ClassicInv
<1>2. CASE SessionLost
  <2>1. EndIngest /\ UNCHANGED <<queue, dlq, gapVars, dbVars>>
    BY <1>2 DEF SessionLost
  <2>2. /\ AtBroker' = AtBroker /\ LedgerInv' /\ Range(batch') = {} /\ Held(wire') = {}
        /\ ingestPhase' = "down"
    BY <2>1, SessionEnds DEF ClassicInv
  <2>3. IngestTypeOK'
    BY <2>1, EndedType DEF ClassicInv, IngestTypeOK, gapVars, dbVars
  <2>4. IngestCustody'
    BY <2>1, <2>2, CustodyKept DEF ClassicInv, dbVars
  <2>5. HistoryInv'
    BY <2>1, HistoryKept DEF ClassicInv, dbVars
  <2>6. PendingInv'
    BY <2>1, <2>2, PendingKept DEF ClassicInv, dbVars
  <2> QED BY <2>2, <2>3, <2>4, <2>5, <2>6 DEF ClassicInv
<1> QED BY <1>1, <1>2

-----------------------------------------------------------------------------
(* The steps of a flush.                                                    *)

LEMMA CommitClassic ==
  ASSUME ClassicInv, Commit
  PROVE  ClassicInv' /\ AtBroker' = AtBroker /\ Range(batch) \subseteq AtBroker
<1>1. /\ ingestPhase = "commit" /\ ingestPhase' = "account" /\ done' = 0
      /\ rows' = rows \cup Range(batch)
      /\ UNCHANGED <<queueVars, wire, batch, tag, nextTag, gapVars, limbo>>
  BY DEF Commit
<1>2. AtBroker' = AtBroker
  BY <1>1 DEF AtBroker, queueVars
<1>3. Range(batch) \subseteq AtBroker /\ Range(batch) \subseteq FrameIds
  BY BatchItems DEF ClassicInv, IngestCustody
<1>4. IngestTypeOK'
  <2>1. 0 \in 0 .. Len(batch)
    BY BatchItems DEF ClassicInv
  <2> QED BY <1>1, <1>3, <2>1 DEF ClassicInv, IngestTypeOK, queueVars, gapVars
<1>5. LedgerInv'
  BY <1>1 DEF ClassicInv, LedgerInv, Aligned, queueVars
<1>6. IngestCustody'
  BY <1>1, <1>2 DEF ClassicInv, IngestCustody
<1>7. HistoryInv'
  BY <1>1, HistoryKept DEF ClassicInv
<1>8. PendingInv'
  <2>1. UNCHANGED well /\ ingestPhase # "down"
    BY <1>1 DEF gapVars
  <2> QED BY <1>1, <1>2, <1>3, <2>1 DEF ClassicInv, PendingInv
<1> QED BY <1>2, <1>3, <1>4, <1>5, <1>6, <1>7, <1>8 DEF ClassicInv

\* A commit whose reply is lost is of frames that are still at the broker.
LEMMA UnknownCustody ==
  ASSUME ClassicInv, CommitUnknown
  PROVE  limbo' \subseteq SUBSET FrameIds /\ \A b \in limbo' : b \subseteq AtBroker \cup rows
<1>1. Range(batch) \subseteq AtBroker /\ Range(batch) \subseteq FrameIds
  BY BatchItems DEF ClassicInv, IngestCustody
<1>2. limbo' \subseteq limbo \cup {Range(batch)}
  BY DEF CommitUnknown
<1> QED BY <1>1, <1>2 DEF ClassicInv, IngestCustody, IngestTypeOK

LEMMA FailureClassic ==
  ASSUME ClassicInv, CommitFails \/ Crash
  PROVE  ClassicInv' /\ AtBroker' = AtBroker
<1>1. /\ EndIngest /\ UNCHANGED <<queue, dlq, rows>>
      /\ CommitUnknown \/ UNCHANGED limbo
      /\ UNCHANGED gapVars \/ (well' = NoWell /\ floor' = 0)
  BY DEF CommitFails, Crash
<1>2. /\ AtBroker' = AtBroker /\ LedgerInv' /\ Range(batch') = {} /\ Held(wire') = {}
      /\ ingestPhase' = "down"
  BY <1>1, SessionEnds DEF ClassicInv
<1>3. limbo' \subseteq SUBSET FrameIds /\ \A b \in limbo' : b \subseteq AtBroker \cup rows
  BY <1>1, UnknownCustody DEF ClassicInv, IngestCustody, IngestTypeOK
<1>4. History(NoWell, 0, rows')
  BY NoHistory
<1>5. IngestTypeOK'
  <2>1. well' \in Well /\ floor' \in Nat
    BY <1>1, <1>4, HistoryType DEF ClassicInv, IngestTypeOK, gapVars
  <2>2. rows' \subseteq FrameIds
    BY <1>1 DEF ClassicInv, IngestTypeOK
  <2> QED BY <1>1, <1>3, <2>1, <2>2, EndedType DEF ClassicInv
<1>6. IngestCustody'
  BY <1>1, <1>2, <1>3 DEF IngestCustody
<1>7. HistoryInv'
  <2>1. CASE UNCHANGED gapVars
    BY <1>1, <2>1, HistoryKept DEF ClassicInv
  <2>2. CASE well' = NoWell /\ floor' = 0
    BY <1>4, <2>2 DEF HistoryInv
  <2> QED BY <1>1, <2>1, <2>2
<1>8. PendingInv'
  <2>1. CASE UNCHANGED gapVars
    BY <1>1, <1>2, <2>1, PendingKept DEF ClassicInv
  <2>2. CASE well' = NoWell /\ floor' = 0
    <3>1. ~Known(well')
      BY <2>2 DEF Known, NoWell, NewWell
    <3> HIDE DEF Known
    <3> QED BY <1>2, <3>1 DEF PendingInv
  <2> QED BY <1>1, <2>1, <2>2
<1> QED BY <1>2, <1>5, <1>6, <1>7, <1>8 DEF ClassicInv

LEMMA LateClassic ==
  ASSUME ClassicInv, LateCommit
  PROVE  /\ ClassicInv' /\ AtBroker' = AtBroker
         /\ \E b \in SUBSET (AtBroker \cup rows) : b \subseteq FrameIds /\ rows' = rows \cup b
<1>1. PICK b \in limbo : rows' = rows \cup b /\ limbo' = limbo \ {b}
  BY DEF LateCommit
<1>2. UNCHANGED <<queueVars, ingestPhase, sessionVars, gapVars>>
  BY DEF LateCommit
<1>3. AtBroker' = AtBroker
  BY <1>2 DEF AtBroker, queueVars
<1>4. b \subseteq AtBroker \cup rows /\ b \subseteq FrameIds
  BY <1>1 DEF ClassicInv, IngestCustody, IngestTypeOK
<1>5. IngestTypeOK'
  BY <1>1, <1>2, <1>4 DEF ClassicInv, IngestTypeOK, queueVars, sessionVars, gapVars
<1>6. LedgerInv'
  BY <1>2 DEF ClassicInv, LedgerInv, Aligned, queueVars, sessionVars
<1>7. IngestCustody'
  BY <1>1, <1>2, <1>3 DEF ClassicInv, IngestCustody, sessionVars
<1>8. HistoryInv'
  BY <1>1, <1>2, HistoryKept DEF ClassicInv
<1>9. PendingInv'
  BY <1>1, <1>2, <1>3, <1>4, PendingKept DEF ClassicInv, sessionVars
<1> QED BY <1>1, <1>3, <1>4, <1>5, <1>6, <1>7, <1>8, <1>9 DEF ClassicInv

\* A frame is accounted after it has landed, and accounting it settles it.
LEMMA AccountClassic ==
  ASSUME ClassicInv, AccountFrame
  PROVE  ClassicInv' /\ AtBroker' = AtBroker
<1> DEFINE f == batch[done + 1]
<1>1. /\ ingestPhase = "account" /\ done < Len(batch) /\ done' = done + 1
      /\ well' = ObserveWell(well, f.epoch, f.seq)
      /\ floor' = IF well'.epoch > well.epoch THEN 0 ELSE floor
      /\ UNCHANGED <<queueVars, ingestPhase, wire, batch, tag, nextTag, dbVars>>
  BY DEF AccountFrame
<1>2. /\ Len(batch) \in Nat /\ done \in Nat /\ done + 1 \in 1 .. Len(batch)
      /\ \A i \in 1 .. Len(batch) : batch[i] \in rows /\ batch[i] \in FrameIds
  BY <1>1, BatchItems DEF ClassicInv, IngestTypeOK, IngestCustody
<1>3. f \in rows /\ f.epoch \in Nat /\ f.seq \in Nat \ {0} /\ f = [epoch |-> f.epoch, seq |-> f.seq]
  BY <1>2, FrameFields
<1> HIDE DEF f
<1>4. floor \in Nat /\ History(well, floor, rows)
  BY DEF ClassicInv, IngestTypeOK, HistoryInv
<1>5. PICK S : WellInv(well, S)
  BY <1>4 DEF History
<1>6. History(well', floor', rows)
  <2>1. f.epoch \in Nat /\ f.seq \in Nat \ {0} /\ [epoch |-> f.epoch, seq |-> f.seq] \in rows
    BY <1>3
  <2> QED BY <1>1, <1>4, <2>1, AccountHistory
<1>7. HistoryInv'
  BY <1>1, <1>6 DEF HistoryInv, dbVars
<1>8. AtBroker' = AtBroker
  BY <1>1 DEF AtBroker, queueVars
<1>9. IngestTypeOK'
  <2>1. floor' \in Nat /\ done' \in 0 .. Len(batch) /\ well' \in Well
    BY <1>1, <1>2, <1>4, <1>6, HistoryType
  <2> QED BY <1>1, <2>1 DEF ClassicInv, IngestTypeOK, queueVars, dbVars
<1>10. LedgerInv'
  BY <1>1 DEF ClassicInv, LedgerInv, Aligned, queueVars
<1>11. IngestCustody'
  BY <1>1, <1>8 DEF ClassicInv, IngestCustody, dbVars
<1>12. PendingInv'
  <2>1. ASSUME NEW d \in Nat, NEW n \in Nat \ {0}, Pending(well', d, n)
        PROVE  Pending(well, d, n)
    BY <1>1, <1>3, <1>5, <2>1, PendingShrinks
  <2>2. ~Pending(well', f.epoch, f.seq)
    BY <1>1, <1>3, <1>5, ObserveSettles
  <2>3. ASSUME NEW g \in rows, Pending(well', g.epoch, g.seq)
        PROVE  g \in AtBroker
    <3>1. g.epoch \in Nat /\ g.seq \in Nat \ {0}
      BY FrameFields DEF ClassicInv, IngestTypeOK
    <3>2. Pending(well, g.epoch, g.seq)
      BY <2>1, <2>3, <3>1
    <3> QED BY <1>1, <3>2 DEF ClassicInv, PendingInv
  <2>4. ASSUME NEW i \in 1 .. done' PROVE ~Pending(well', batch[i].epoch, batch[i].seq)
    <3>1. CASE i \in 1 .. done
      <4>1. i \in 1 .. Len(batch)
        BY <1>2, <3>1
      <4>2. batch[i].epoch \in Nat /\ batch[i].seq \in Nat \ {0}
        BY <1>2, <4>1, FrameFields
      <4>3. ~Pending(well, batch[i].epoch, batch[i].seq)
        BY <1>1, <3>1 DEF ClassicInv, PendingInv
      <4> QED BY <2>1, <4>2, <4>3
    <3>2. CASE i = done + 1
      BY <2>2, <3>2 DEF f
    <3> QED BY <1>1, <1>2, <3>1, <3>2
  <2> QED BY <1>1, <1>8, <2>3, <2>4 DEF PendingInv, dbVars
<1> QED BY <1>7, <1>8, <1>9, <1>10, <1>11, <1>12 DEF ClassicInv

\* What an ack takes out of the broker has landed and is accounted.
LEMMA AckClassic ==
  ASSUME ClassicInv, Ack
  PROVE  ClassicInv' /\ AtBroker' \subseteq AtBroker /\ AtBroker \subseteq AtBroker' \cup rows
<1>1. /\ ingestPhase = "account" /\ done = Len(batch) /\ batch # <<>>
      /\ UNCHANGED <<queue, dlq, gapVars, dbVars>>
  BY DEF Ack, ClassicInv, IngestTypeOK
<1> DEFINE Written ==
      /\ ingestConn \in {"up", "half"} /\ unacked' = Unsettled(tag)
      /\ batch' = <<>> /\ ingestPhase' = "loop" /\ done' = 0
      /\ UNCHANGED <<orphans, ingestConn, wire, tag, nextTag>>
<1>2. CASE EndIngest
  <2>1. /\ AtBroker' = AtBroker /\ LedgerInv' /\ Range(batch') = {} /\ Held(wire') = {}
        /\ ingestPhase' = "down"
    BY <1>1, <1>2, SessionEnds DEF ClassicInv
  <2>2. IngestTypeOK'
    BY <1>1, <1>2, EndedType DEF ClassicInv, IngestTypeOK, gapVars, dbVars
  <2>3. IngestCustody'
    BY <1>1, <2>1, CustodyKept DEF ClassicInv, dbVars
  <2>4. HistoryInv'
    BY <1>1, HistoryKept DEF ClassicInv, dbVars
  <2>5. PendingInv'
    BY <1>1, <2>1, PendingKept DEF ClassicInv, dbVars
  <2> QED BY <2>1, <2>2, <2>3, <2>4, <2>5 DEF ClassicInv
<1>3. CASE Written /\ ingestConn # "up"
  <2>1. unacked = <<>>
    BY <1>3 DEF ClassicInv, LedgerInv
  <2>2. unacked' = <<>>
    <3>1. {i \in DOMAIN unacked : unacked[i].tag <= tag} = {}
      BY <2>1
    <3>2. Cardinality({}) = 0
      BY FS_EmptySet
    <3>3. Len(unacked) = 0 /\ SubSeq(unacked, 1, 0) = <<>>
      BY <2>1
    <3>4. Unsettled(tag) = SubSeq(unacked, 0 + 1, 0)
      BY <3>1, <3>2, <3>3 DEF Unsettled
    <3> QED BY <1>3, <3>3, <3>4
  <2>3. AtBroker' = AtBroker
    BY <1>1, <1>3, <2>1, <2>2 DEF AtBroker
  <2>4. IngestTypeOK'
    <3>1. Len(<<>>) = 0 /\ <<>> \in Seq(Delivery) /\ <<>> \in Seq(FrameIds)
      BY EmptySeq
    <3> QED BY <1>1, <1>3, <2>2, <3>1 DEF ClassicInv, IngestTypeOK, gapVars, dbVars
  <2>5. LedgerInv'
    BY <1>3, <2>2 DEF LedgerInv
  <2>6. IngestCustody'
    BY <1>1, <1>3, <2>3, CustodyKept, NothingHeld DEF ClassicInv, dbVars
  <2>7. HistoryInv'
    BY <1>1, HistoryKept DEF ClassicInv, dbVars
  <2>8. PendingInv'
    BY <1>1, <1>3, <2>3, PendingKept DEF ClassicInv, dbVars
  <2> QED BY <2>3, <2>4, <2>5, <2>6, <2>7, <2>8 DEF ClassicInv
<1>4. CASE Written /\ ingestConn = "up"
  <2>1. Aligned /\ unacked \in Seq(Delivery) /\ wire \in Seq(Delivery)
    BY <1>4 DEF ClassicInv, LedgerInv, IngestTypeOK
  <2>2. /\ unacked' = wire
        /\ Range(unacked) = Range(wire) \cup {unacked[i] : i \in 1 .. Len(batch)}
    BY <1>1, <1>4, <2>1, AckSettles DEF ClassicInv
  <2>3. /\ Len(batch) \in Nat /\ Len(wire) \in Nat
        /\ Range(batch) = {batch[i] : i \in 1 .. Len(batch)}
        /\ Range(batch) \subseteq rows
    BY <1>1, <2>1, BatchItems, LenProperties DEF ClassicInv, IngestCustody
  <2>4. Held(unacked) = Held(wire) \cup Range(batch)
    <3>1. /\ Held(unacked) = {d.item : d \in Range(unacked)}
          /\ Held(wire) = {d.item : d \in Range(wire)}
      BY <2>1, HeldRange
    <3>2. \A i \in 1 .. Len(batch) : unacked[i].item = batch[i]
      BY <2>1 DEF Aligned
    <3> QED BY <2>2, <2>3, <3>1, <3>2
  <2>5. AtBroker = AtBroker' \cup Range(batch)
    BY <1>1, <1>4, <2>2, <2>4 DEF AtBroker
  <2>6. Aligned'
    <3>1. Len(<<>>) = 0
      OBVIOUS
    <3>2. /\ batch' = <<>> /\ Len(batch') = 0 /\ wire' = wire /\ unacked' = wire
          /\ nextTag' = nextTag
      BY <1>4, <2>2, <3>1
    <3>3. \A i \in 1 .. Len(wire) :
            Len(batch) + i \in 1 .. Len(unacked) /\ wire[i] = unacked[Len(batch) + i]
      BY <2>1, <2>3 DEF Aligned
    <3>4. ASSUME NEW i \in 1 .. Len(wire), NEW j \in 1 .. Len(wire), i < j
          PROVE  wire[i].tag < wire[j].tag
      <4>1. Len(batch) + i < Len(batch) + j
        BY <2>3, <3>4
      <4> DEFINE a == Len(batch) + i
                 b == Len(batch) + j
      <4>2. a \in 1 .. Len(unacked) /\ b \in 1 .. Len(unacked) /\ a < b
            /\ wire[i] = unacked[a] /\ wire[j] = unacked[b]
        BY <3>3, <4>1
      <4> HIDE DEF a, b
      <4> QED BY <2>1, <4>2 DEF Aligned
    <3>5. \A i \in 1 .. Len(wire) : wire[i].tag < nextTag
      BY <2>1, <3>3 DEF Aligned
    <3>6. \A i \in 1 .. Len(wire') : unacked'[Len(batch') + i] = wire'[i]
      BY <2>3, <3>2
    <3>7. \A i, j \in 1 .. Len(unacked') : i < j => unacked'[i].tag < unacked'[j].tag
      BY <3>2, <3>4
    <3>8. Len(unacked') = Len(batch') + Len(wire')
      BY <2>3, <3>2
    <3>9. \A i \in 1 .. Len(batch') : FALSE
      BY <3>2
    <3>10. \A i \in 1 .. Len(unacked') : unacked'[i].tag < nextTag'
      BY <3>2, <3>5
    <3> QED BY <3>2, <3>6, <3>7, <3>8, <3>9, <3>10 DEF Aligned
  <2>7. IngestTypeOK'
    <3>1. Len(<<>>) = 0 /\ <<>> \in Seq(FrameIds)
      BY EmptySeq
    <3> QED BY <1>1, <1>4, <2>1, <2>2, <3>1 DEF ClassicInv, IngestTypeOK, gapVars, dbVars
  <2>8. LedgerInv'
    BY <1>4, <2>6 DEF LedgerInv
  <2>9. IngestCustody'
    <3>1. Range(batch') = {} /\ wire' = wire /\ Held(unacked') = Held(wire)
      BY <1>4, <2>2, NothingHeld
    <3>2. Held(wire') \subseteq AtBroker'
      BY <3>1 DEF AtBroker
    <3> QED BY <1>1, <1>4, <2>3, <2>5, <3>1, <3>2 DEF ClassicInv, IngestCustody, dbVars
  <2>10. HistoryInv'
    BY <1>1, HistoryKept DEF ClassicInv, dbVars
  <2>11. PendingInv'
    <3>1. \A f \in Range(batch) : ~Pending(well, f.epoch, f.seq)
      BY <1>1, <2>3 DEF ClassicInv, PendingInv
    <3>2. \A f \in rows : Pending(well, f.epoch, f.seq) => f \in AtBroker'
      BY <1>1, <2>5, <3>1 DEF ClassicInv, PendingInv
    <3> QED BY <1>1, <1>4, <3>2 DEF PendingInv, gapVars, dbVars
  <2> QED BY <2>3, <2>5, <2>7, <2>8, <2>9, <2>10, <2>11 DEF ClassicInv
<1> QED BY <1>2, <1>3, <1>4 DEF Ack

LEMMA NextClassic ==
  ASSUME ClassicInv, [IngestNext]_ingestVars
  PROVE  ClassicInv'
<1>1. CASE (\E i \in Items : EnqueueItem(i)) \/ Deliver \/ IngestBreak \/ Requeue
  BY <1>1, PublishClassic, DeliverClassic, BreakClassic
<1>2. CASE Session
  BY <1>2, StartClassic, AcceptClassic, RejectClassic, TurnClassic, CommitClassic,
     FailureClassic, AccountClassic, AckClassic DEF Session
<1>3. CASE LateCommit \/ Crash
  BY <1>3, LateClassic, FailureClassic
<1>4. CASE UNCHANGED ingestVars
  BY <1>4 DEF ingestVars, queueVars, sessionVars, gapVars, dbVars, ClassicInv, IngestTypeOK, LedgerInv,
              Aligned, IngestCustody, HistoryInv, PendingInv, AtBroker
<1> QED BY <1>1, <1>2, <1>3, <1>4 DEF IngestNext, Consume

-----------------------------------------------------------------------------
(* What follows of every behaviour.                                         *)

\* The five parts of the invariant hold in every reachable state.
THEOREM ClassicInvariant == IngestSpec => []ClassicInv
<1>1. IngestInit => ClassicInv
  BY InitClassic
<1>2. ClassicInv /\ [IngestNext]_ingestVars => ClassicInv'
  BY NextClassic
<1> QED BY <1>1, <1>2, PTL DEF IngestSpec

\* The state of the consumer, its connection and its tables keeps its type
\* (run_classic, accept and flush).
THEOREM ClassicTypeCorrect == IngestSpec => []IngestTypeOK
<1>1. ClassicInv => IngestTypeOK
  BY DEF ClassicInv
<1> QED BY <1>1, ClassicInvariant, PTL

\* What the broker counts against the prefetch of a live connection is the
\* batch and what has not been accepted, in this order: the multiple ack at
\* the end of flush settles the batch and nothing else.
THEOREM LedgerAlwaysMatches == IngestSpec => []LedgerMatches
<1>1. ClassicInv => LedgerMatches
  BY AlignedMatches DEF ClassicInv, LedgerInv, LedgerMatches
<1> QED BY <1>1, ClassicInvariant, PTL

\* While no gap went untracked, every seq below the watermark has landed, is
\* reported missing, or is older than what the process was seeded with.
THEOREM EveryHoleIsReported == IngestSpec => []EveryHoleReported
<1>1. ASSUME ClassicInv, well.untracked = 0, NEW s \in floor + 1 .. well.next - 1
      PROVE  [epoch |-> well.epoch, seq |-> s] \in rows \cup ReportedGaps
  <2>1. [epoch |-> well.epoch, seq |-> s] \in rows \/ s \in ReportedMissing(well)
    BY <1>1, HistoryReports DEF ClassicInv, IngestTypeOK, HistoryInv
  <2> QED BY <2>1 DEF ReportedGaps
<1>2. ClassicInv => EveryHoleReported
  BY <1>1 DEF EveryHoleReported
<1> QED BY <1>2, ClassicInvariant, PTL

LEMMA PhantomsAtBroker ==
  ASSUME ClassicInv
  PROVE  PhantomsHeal
<1> SUFFICES ASSUME NEW f \in ReportedGaps \cap rows PROVE f \in AtBroker
  BY DEF PhantomsHeal
<1>1. PICK s \in ReportedMissing(well) : f = [epoch |-> well.epoch, seq |-> s]
  BY DEF ReportedGaps
<1>2. f.epoch = well.epoch /\ f.seq = s
  BY <1>1
<1>3. Pending(well, f.epoch, f.seq)
  BY <1>1, <1>2 DEF Pending
<1>4. Known(well)
  <2>1. PICK S : WellInv(well, S)
    BY DEF ClassicInv, HistoryInv, History
  <2> QED BY <1>1, <2>1, ReportedKnown
<1> QED BY <1>3, <1>4 DEF ClassicInv, PendingInv

\* A gap reported of a frame that has landed heals: the frame is still at the
\* broker and comes again.
THEOREM PhantomGapsHeal == IngestSpec => []PhantomsHeal
<1>1. ClassicInv => PhantomsHeal
  BY PhantomsAtBroker
<1> QED BY <1>1, ClassicInvariant, PTL

-----------------------------------------------------------------------------
(* The consumer implements the delivery hop.                                *)

Owed    == AtBroker \ (rows \cup Range(dlq))
Counted == Range(dlq)

LEMMA HopDisjoint ==
  ASSUME ClassicInv
  PROVE  /\ Range(batch) \subseteq AtBroker /\ Range(batch) \cap Counted = {}
         /\ rows \subseteq FrameIds /\ Counted \subseteq Poison
<1>1. Counted \subseteq Poison
  <2>1. dlq \in Seq(Poison)
    BY DEF ClassicInv, IngestTypeOK
  <2>2. Range(dlq) = {dlq[i] : i \in 1 .. Len(dlq)}
    BY <2>1, RangeEquality
  <2>3. \A i \in 1 .. Len(dlq) : dlq[i] \in Poison
    BY <2>1, ElementOfSeq
  <2> QED BY <2>2, <2>3 DEF Counted
<1>2. Range(batch) \subseteq AtBroker /\ Range(batch) \subseteq FrameIds
  BY BatchItems DEF ClassicInv, IngestCustody
<1> QED BY <1>1, <1>2, PoisonAssumption DEF ClassicInv, IngestTypeOK

Stays    == Owed' = Owed /\ rows' = rows /\ Counted' = Counted
Lands(b) == /\ Owed' = Owed \ b /\ rows' = rows \cup b /\ Counted' = Counted
            /\ b \subseteq Owed
Counts(p) == /\ Owed' = Owed \ {p} /\ rows' = rows /\ Counted' = Counted \cup {p}
             /\ p \in Owed \cap Poison

\* But for a message enqueued, what was owed is owed, has landed or was
\* dead-lettered.
LEMMA ConsumeStep ==
  ASSUME ClassicInv, Consume \/ UNCHANGED ingestVars
  PROVE  Stays \/ (\E b : Lands(b)) \/ (\E p : Counts(p))
<1>1. ASSUME AtBroker' = AtBroker, rows' = rows, dlq' = dlq PROVE Stays
  BY <1>1 DEF Owed, Counted, Stays
<1>2. ASSUME NEW b, b \subseteq AtBroker \cup rows, b \subseteq FrameIds,
             AtBroker' = AtBroker, rows' = rows \cup b, dlq' = dlq
      PROVE  \E c : Lands(c)
  <2>1. b \cap Counted = {}
    BY <1>2, HopDisjoint, PoisonAssumption
  <2>2. Lands(b \cap Owed)
    BY <1>2, <2>1 DEF Owed, Counted, Lands
  <2> QED BY <2>2
<1>3. CASE Deliver
  BY <1>1, <1>3, DeliverKeeps DEF ClassicInv, Deliver, dbVars
<1>4. CASE IngestBreak \/ Requeue
  BY <1>1, <1>4, AbandonKeeps, RequeueKeeps DEF ClassicInv, IngestBreak, Requeue, dbVars
<1>5. CASE StartSession \/ AcceptFrame \/ FlushTick \/ UNCHANGED ingestVars
  <2>1. UNCHANGED <<queue, unacked, orphans, dlq, rows>>
    BY <1>5 DEF StartSession, AcceptFrame, FlushTick, ingestVars, queueVars, dbVars
  <2> QED BY <1>1, <2>1 DEF AtBroker
<1>6. CASE SessionLost
  BY <1>1, <1>6, SessionEnds DEF ClassicInv, SessionLost, dbVars
<1>7. CASE RejectPoison
  <2> DEFINE p == Head(wire).item
  <2>1. /\ p \in Poison /\ rows' = rows
        /\ \/ AtBroker' = AtBroker /\ dlq' = dlq
           \/ AtBroker = AtBroker' \cup {p} /\ Counted' = Counted \cup {p}
    BY <1>7, RejectClassic DEF RejectPoison, dbVars, Counted
  <2> HIDE DEF p
  <2>2. p \notin rows
    BY <2>1, HopDisjoint, PoisonAssumption
  <2>3. Stays \/ Counts(p)
    BY <2>1, <2>2 DEF Owed, Counted, Stays, Counts
  <2> QED BY <2>3
<1>8. CASE Commit
  BY <1>2, <1>8, CommitClassic, BatchItems DEF ClassicInv, Commit, queueVars
<1>9. CASE CommitFails \/ Crash
  BY <1>1, <1>9, FailureClassic DEF CommitFails, Crash
<1>10. CASE LateCommit
  BY <1>2, <1>10, LateClassic DEF LateCommit, queueVars
<1>11. CASE AccountFrame
  BY <1>1, <1>11, AccountClassic DEF AccountFrame, queueVars, dbVars
<1>12. CASE Ack
  <2>1. /\ AtBroker' \subseteq AtBroker /\ AtBroker \subseteq AtBroker' \cup rows
        /\ rows' = rows /\ dlq' = dlq
    BY <1>12, AckClassic DEF Ack, dbVars
  <2> QED BY <2>1 DEF Owed, Counted, Stays
<1> QED BY <1>3, <1>4, <1>5, <1>6, <1>7, <1>8, <1>9, <1>10, <1>11, <1>12
     DEF Consume, Session

LEMMA StepHop ==
  ASSUME ClassicInv, [IngestNext]_ingestVars
  PROVE  [IngestHop!Next]_(IngestHop!vars)
<1>1. Stays => [IngestHop!Next]_(IngestHop!vars)
  BY DEF IngestHop!vars, Owed, Counted, Stays
<1>2. ASSUME NEW b, Lands(b) PROVE IngestHop!Next
  <2>1. IngestHop!Land(b)
    BY <1>2 DEF IngestHop!Land, Owed, Counted, Lands
  <2>2. b \in SUBSET Owed
    BY <1>2 DEF Lands
  <2> QED BY <2>1, <2>2 DEF IngestHop!Next, Owed
<1>3. ASSUME NEW p, Counts(p) PROVE IngestHop!Next
  <2>1. IngestHop!Count(p) /\ p \in Owed
    BY <1>3 DEF IngestHop!Count, Owed, Counted, Counts
  <2> QED BY <2>1 DEF IngestHop!Next, Owed
<1>4. ASSUME NEW i \in Items, EnqueueItem(i) PROVE [IngestHop!Next]_(IngestHop!vars)
  <2>1. AtBroker' = AtBroker \cup {i} /\ rows' = rows /\ dlq' = dlq
    BY <1>4, PublishKeeps DEF ClassicInv, EnqueueItem, dbVars
  <2>2. CASE i \in Owed \cup rows \cup Counted
    BY <1>1, <2>1, <2>2 DEF Owed, Counted, Stays
  <2>3. CASE i \notin Owed \cup rows \cup Counted
    <3>1. IngestHop!Accept(i)
      BY <2>1, <2>3 DEF IngestHop!Accept, Owed, Counted
    <3> QED BY <3>1 DEF IngestHop!Next
  <2> QED BY <2>2, <2>3
<1> QED BY <1>1, <1>2, <1>3, <1>4, ConsumeStep DEF IngestNext

\* The classic consumer is an at-least-once hop: whatever fails, what the
\* broker accepted stays there until it is in the hypertable, or, if it does
\* not parse, in the dead-letter queue.
THEOREM ClassicIsHop == IngestSpec => IngestImplementsHop
<1>1. IngestInit => IngestHop!Init
  BY NothingHeld DEF IngestInit, IngestHop!Init, AtBroker
<1>2. ClassicInv /\ [IngestNext]_ingestVars => [IngestHop!Next]_(IngestHop!vars)
  BY StepHop
<1> QED BY <1>1, <1>2, ClassicInvariant, PTL DEF IngestSpec, IngestImplementsHop, IngestHop!Spec

-----------------------------------------------------------------------------
(* The seed of the accounting.                                              *)

\* What the accounting was seeded with is in the hypertable.
SeedInv ==
  /\ ~Known(well) => floor = 0
  /\ floor # 0 => [epoch |-> well.epoch, seq |-> floor] \in rows

LEMMA SeedStep ==
  ASSUME ClassicInv, SeedInv, [IngestNext]_ingestVars
  PROVE  SeedInv'
<1>1. CASE UNCHANGED gapVars /\ rows \subseteq rows'
  BY <1>1 DEF SeedInv, gapVars
<1>2. CASE StartSession /\ ~UNCHANGED gapVars
  <2>1. ~Known(well) /\ rows' = rows
    BY <1>2 DEF StartSession, dbVars
  <2>2. PICK f \in rows : well' = SeedWell(well, f.epoch, f.seq) /\ floor' = f.seq
    BY <1>2 DEF StartSession
  <2>3. f.seq \in Nat /\ f = [epoch |-> f.epoch, seq |-> f.seq]
    BY <2>2, FrameFields DEF ClassicInv, IngestTypeOK
  <2>4. well'.epoch = f.epoch /\ well'.next = f.seq + 1
    BY <2>1, <2>2 DEF SeedWell, NewWell
  <2> QED BY <2>1, <2>2, <2>3, <2>4 DEF SeedInv, Known
<1>3. CASE AccountFrame
  <2> DEFINE f == batch[done + 1]
  <2>1. /\ well' = ObserveWell(well, f.epoch, f.seq) /\ rows' = rows
        /\ floor' = IF well'.epoch > well.epoch THEN 0 ELSE floor
    BY <1>3 DEF AccountFrame, dbVars
  <2>2. f \in FrameIds
    BY <1>3, BatchItems DEF AccountFrame, ClassicInv, IngestTypeOK
  <2>3. f.epoch \in Nat /\ f.seq \in Nat \ {0} /\ well \in Well /\ well.epoch \in Nat
    BY <2>2, IngestAssumption DEF ClassicInv, IngestTypeOK, FrameIds, Well
  <2> HIDE DEF f
  <2>4. Known(well')
    BY <2>1, <2>3, ObserveKnown
  <2>5. well'.epoch = IF ~Known(well) \/ f.epoch > well.epoch THEN f.epoch ELSE well.epoch
    BY <2>1, <2>3, ObserveEpoch
  <2>6. CASE Known(well)
    <3>1. floor' # 0 => floor' = floor /\ well'.epoch = well.epoch
      BY <2>1, <2>3, <2>5, <2>6
    <3> QED BY <2>1, <2>4, <3>1 DEF SeedInv
  <2>7. CASE ~Known(well)
    BY <2>1, <2>4, <2>7 DEF SeedInv
  <2> QED BY <2>6, <2>7
<1>4. CASE Crash
  BY <1>4 DEF Crash, SeedInv
<1>5. \/ UNCHANGED gapVars /\ rows \subseteq rows'
      \/ StartSession \/ AccountFrame \/ Crash
  BY DEF IngestNext, Consume, Session, EnqueueItem, Deliver, IngestBreak, Requeue, AcceptFrame,
         RejectPoison, FlushTick, SessionLost, Commit, CommitFails, LateCommit, Ack,
         ingestVars, gapVars, dbVars
<1>6. StartSession => rows' = rows
  BY DEF StartSession, dbVars
<1> QED BY <1>1, <1>2, <1>3, <1>4, <1>5, <1>6

-----------------------------------------------------------------------------
(* A step of the pipeline is a step of each side.                           *)

pipeVars == <<vars, ingestVars>>

LEMMA EdgeRuns ==
  ASSUME [PipelineNext]_pipeVars
  PROVE  [Next]_vars
BY DEF PipelineNext, pipeVars, EdgeStep, Enqueue, IngestStep, Next, Broker

\* What the edge generates has an identity of the consumer's.
LEMMA LandingItem ==
  ASSUME CustodyInv, NEW f \in Generated
  PROVE  /\ f \in Frame /\ f \in [pad : Pads, seq : 1 .. MaxSeq]
         /\ Landing(f) \in FrameIds /\ FrameIds \subseteq Items
<1>1. PICK p \in Pads : f \in {[pad |-> p, seq |-> n] : n \in 1 .. gen[p]}
  BY DEF Generated
<1> PICK n \in 1 .. gen[p] : f = [pad |-> p, seq |-> n]
  BY <1>1
<1>2. gen[p] \in Nat /\ gen[p] <= MaxSeq /\ MaxSeq \in Nat
  BY BoundsAssumption DEF CustodyInv, TypeOK, OrderInv
<1>3. n \in 1 .. MaxSeq /\ n \in Nat
  BY <1>2
<1>4. f \in Frame /\ f.seq = n /\ f \in [pad : Pads, seq : 1 .. MaxSeq]
  BY <1>3 DEF Frame
<1>5. Landing(f) \in FrameIds
  BY <1>3, <1>4, PipelineAssumption DEF Landing, FrameIds
<1> QED BY <1>4, <1>5 DEF Items

\* There is one pad, so that frames that land alike are the same.
LEMMA LandingOnce ==
  ASSUME NEW f \in Frame, NEW g \in Frame, Landing(f) = Landing(g)
  PROVE  f = g
<1>1. f.seq = g.seq
  BY DEF Landing
<1>2. f = [pad |-> f.pad, seq |-> f.seq] /\ g = [pad |-> g.pad, seq |-> g.seq]
      /\ f.pad \in Pads /\ g.pad \in Pads
  BY DEF Frame
<1> QED BY <1>1, <1>2, PipelineAssumption

\* The broker enqueues for the ingest the frame it stores for the edge.
LEMMA EnqueueOne ==
  ASSUME CustodyInv, Enqueue
  PROVE  \E f \in Generated : EnqueueItem(Landing(f)) /\ stored' = stored \cup {f}
<1>1. /\ TypeOK /\ PendingTracksInflight /\ OrderInv
      /\ InEdge \cup Left \subseteq Generated
  BY DEF CustodyInv, OrderInv
<1>2. CASE BrokerStore /\ \E i \in DOMAIN inflight :
             NextOnWire(i) /\ EnqueueItem(Landing(inflight[i].frame))
  <2>1. PICK i \in DOMAIN inflight : NextOnWire(i) /\ EnqueueItem(Landing(inflight[i].frame))
    BY <1>2
  <2>2. PICK j \in DOMAIN inflight : NextOnWire(j) /\ stored' = stored \cup {inflight[j].frame}
    BY <1>2 DEF BrokerStore
  <2>3. /\ DOMAIN inflight = 1 .. Len(inflight) /\ DOMAIN pending = 1 .. Len(pending)
        /\ Len(inflight) \in Nat /\ Len(pending) = Len(inflight)
    BY <1>1, LenProperties DEF TypeOK, PendingTracksInflight
  <2>4. i = j
    BY <2>1, <2>2, <2>3 DEF NextOnWire
  <2>5. inflight[j].frame \in Frames(pending)
    BY <1>1, <2>3 DEF PendingTracksInflight, Frames
  <2>6. inflight[j].frame \in Generated
    BY <1>1, <2>5 DEF InEdge, Staged
  <2> QED BY <2>1, <2>2, <2>4, <2>6
<1>3. CASE \E w \in late \ {<<>>} : Arrives(w) /\ EnqueueItem(Landing(Head(w)))
  <2>1. PICK w \in late \ {<<>>} : Arrives(w) /\ EnqueueItem(Landing(Head(w)))
    BY <1>3
  <2>2. w \in Seq(Frame) /\ w # <<>>
    BY <1>1, <2>1 DEF TypeOK
  <2>3. Head(w) \in Range(w)
    BY <2>2, LenProperties, EmptySeq DEF Range
  <2>4. Head(w) \in Generated
    BY <1>1, <2>1, <2>3 DEF OnWire, Left
  <2> QED BY <2>1, <2>4 DEF Arrives
<1> QED BY <1>2, <1>3 DEF Enqueue

LEMMA IngestRuns ==
  ASSUME CustodyInv, [PipelineNext]_pipeVars
  PROVE  [IngestNext]_ingestVars
<1>1. CASE Enqueue
  BY <1>1, EnqueueOne, LandingItem DEF IngestNext
<1>2. CASE EdgeStep \/ IngestStep \/ UNCHANGED pipeVars
  BY <1>2 DEF EdgeStep, IngestStep, IngestNext, pipeVars
<1> QED BY <1>1, <1>2 DEF PipelineNext

\* Each side, in the pipeline, behaves as it does alone.
THEOREM EachSideRuns == PipelineSpec => []CustodyInv /\ []ClassicInv /\ []SeedInv
<1>1. PipelineSpec => Spec
  BY EdgeRuns, PTL DEF PipelineSpec, PipelineInit, pipeVars, Spec
<1>2. PipelineSpec => []CustodyInv
  BY <1>1, CustodySafe, PTL
<1>3. CustodyInv /\ [PipelineNext]_pipeVars => [IngestNext]_ingestVars
  BY IngestRuns
<1>4. PipelineSpec => IngestSpec
  BY <1>2, <1>3, PTL DEF PipelineSpec, PipelineInit, pipeVars, IngestSpec
<1>5. IngestSpec => []SeedInv
  <2>1. IngestInit => SeedInv
    BY DEF IngestInit, SeedInv
  <2>2. ClassicInv /\ SeedInv /\ [IngestNext]_ingestVars => SeedInv'
    BY SeedStep
  <2> QED BY <2>1, <2>2, ClassicInvariant, PTL DEF IngestSpec
<1> QED BY <1>2, <1>4, <1>5, ClassicInvariant, PTL

-----------------------------------------------------------------------------
(* The two sides joined.                                                    *)

\* What the broker stored for the edge is what it holds for the ingest or the
\* ingest has landed: no message is made up, and none is lost in between.
Joined == AtBroker \cup rows = Landings(stored)

LEMMA EdgeStores ==
  ASSUME EdgeStep
  PROVE  stored' = stored
BY DEF EdgeStep, Generate, Pump, Select, Supervise, Control, TakeRetry, TakeDup, TakeStaged,
       WindowFull, StartFill, PullPad, NextRound, FinishFill, PublishOk, PublishFail, Receive,
       ConfirmAck, ConfirmNack, ConfirmErr, Tick, ProbeFail, ReapConfirm, ReapTimeout,
       RequeueUnconfirmed, EndSession, BackoffElapsed, Connected, ConnectFail, SetupOk, SetupFail,
       BrokerNack, BrokerAck, Break, FailConfirms, brokerVars

LEMMA NoPoison ==
  ASSUME ClassicInv
  PROVE  Counted = {} /\ Owed \cup rows = AtBroker \cup rows /\ Owed = AtBroker \ rows
<1>1. Counted = {}
  BY HopDisjoint, PipelineAssumption
<1> QED BY <1>1 DEF Owed, Counted

LEMMA JoinedStep ==
  ASSUME CustodyInv, ClassicInv, ClassicInv', Joined, [PipelineNext]_pipeVars
  PROVE  Joined'
<1>1. CASE EdgeStep \/ UNCHANGED pipeVars
  <2>1. UNCHANGED <<stored, queue, unacked, orphans, rows>>
    BY <1>1, EdgeStores DEF EdgeStep, pipeVars, vars, brokerVars, ingestVars, queueVars, dbVars
  <2> QED BY <2>1 DEF Joined, AtBroker, Landings, Landing
<1>2. CASE Enqueue
  <2>1. PICK f \in Generated : EnqueueItem(Landing(f)) /\ stored' = stored \cup {f}
    BY <1>2, EnqueueOne
  <2>2. AtBroker' = AtBroker \cup {Landing(f)} /\ rows' = rows
    BY <2>1, LandingItem, PublishKeeps DEF ClassicInv, EnqueueItem, dbVars
  <2>3. Landings(stored') = Landings(stored) \cup {Landing(f)}
    BY <2>1 DEF Landings
  <2>4. Landings(stored)' = Landings(stored')
    BY DEF Landings, Landing
  <2> QED BY <2>2, <2>3, <2>4 DEF Joined
<1>3. CASE IngestStep
  <2>1. Landings(stored)' = Landings(stored)
    BY <1>3 DEF IngestStep, vars, brokerVars, Landings, Landing
  <2>2. Stays \/ \E b : Lands(b)
    <3>1. ~\E p : Counts(p)
      BY PipelineAssumption DEF Counts
    <3> QED BY <1>3, <3>1, ConsumeStep DEF IngestStep
  <2>3. Owed' \cup rows' = Owed \cup rows
    BY <2>2 DEF Stays, Lands
  <2>4. Owed' \cup rows' = AtBroker' \cup rows'
    <3>1. Counted' = {}
      BY <2>2, NoPoison DEF Stays, Lands
    <3> QED BY <3>1 DEF Owed, Counted
  <2> QED BY <2>1, <2>3, <2>4, NoPoison DEF Joined
<1> QED BY <1>1, <1>2, <1>3 DEF PipelineNext

\* The publisher's custody, the consumer's, and the queue between them agree.
PipeInv == CustodyInv /\ ClassicInv /\ SeedInv /\ Joined

\* In every reachable state of the pipeline, what the edge has handed over is
\* what the broker holds for the ingest and what is in the hypertable.
THEOREM PipelineInvariant == PipelineSpec => []PipeInv
<1>1. PipelineInit => Joined
  <2>1. ASSUME PipelineInit PROVE Joined
    <3>1. stored = {} /\ rows = {} /\ queue = <<>> /\ unacked = <<>> /\ orphans = <<>>
      BY <2>1 DEF PipelineInit, Init, IngestInit
    <3>2. AtBroker = {}
      BY <3>1, NothingHeld DEF AtBroker
    <3> QED BY <3>1, <3>2 DEF Joined, Landings
  <2> QED BY <2>1
<1>2. CustodyInv /\ ClassicInv /\ ClassicInv' /\ Joined /\ [PipelineNext]_pipeVars => Joined'
  BY JoinedStep
<1>3. PipelineSpec => []Joined
  BY <1>1, <1>2, EachSideRuns, PTL DEF PipelineSpec, pipeVars
<1> QED BY <1>3, EachSideRuns, PTL DEF PipeInv

-----------------------------------------------------------------------------
(* What follows.                                                            *)

\* Where a frame the edge has generated is.
LEMMA GeneratedWhere ==
  ASSUME PipeInv
  PROVE  /\ Generated = InEdge \cup stored \cup dropped
         /\ dropped \cap stored = {} /\ Generated \subseteq Frame
<1>1. Generated \subseteq InEdge \cup stored \cup dropped
  BY DEF PipeInv, CustodyInv, NoSilentLoss
<1>2. InEdge \cup stored \cup dropped \subseteq Generated
  BY DEF PipeInv, CustodyInv, OrderInv, Left, Released
<1>3. dropped \cap stored = {}
  BY DEF PipeInv, CustodyInv, LossInv
<1>4. Generated \subseteq Frame
  BY LandingItem DEF PipeInv
<1> QED BY <1>1, <1>2, <1>3, <1>4

\* A gap the accounting reports lies below a frame the edge has generated, and
\* the edge generates without a hole.
LEMMA GapGenerated ==
  ASSUME PipeInv, NEW g \in ReportedGaps
  PROVE  \E f \in Generated : g = Landing(f)
<1>1. PICK s \in ReportedMissing(well) : g = [epoch |-> well.epoch, seq |-> s]
  BY DEF ReportedGaps
<1>2. PICK S \in SUBSET Nat :
        /\ WellInv(well, S)
        /\ \A n \in S : n <= floor \/ [epoch |-> well.epoch, seq |-> n] \in rows
  BY DEF PipeInv, ClassicInv, HistoryInv, History
<1>3. PICK r \in well.open : s \in r.from .. r.to
  BY DEF ReportedMissing
<1>4. /\ r.from \in Nat /\ r.to \in Nat /\ well.next \in Nat /\ floor \in Nat
      /\ 1 <= r.from /\ r.to < well.next
  BY <1>2 DEF WellInv, Well, GapRange, Shaped, PipeInv, ClassicInv, IngestTypeOK
<1>5. s \in Nat /\ 1 <= s /\ s < well.next /\ s <= well.next - 1
  BY <1>3, <1>4
<1>6. well.next - 1 \in S
  BY <1>2, <1>4, <1>5 DEF WellInv, Watermarked
<1>7. \E n \in Nat : s <= n /\ [epoch |-> well.epoch, seq |-> n] \in rows
  <2>1. CASE well.next - 1 <= floor
    <3>1. floor # 0 /\ s <= floor
      BY <1>4, <1>5, <2>1
    <3> QED BY <1>4, <3>1 DEF PipeInv, SeedInv
  <2>2. CASE ~(well.next - 1 <= floor)
    BY <1>2, <1>4, <1>5, <1>6, <2>2
  <2> QED BY <2>1, <2>2
<1>8. PICK n \in Nat : s <= n /\ [epoch |-> well.epoch, seq |-> n] \in rows
  BY <1>7
<1>9. PICK f \in stored : [epoch |-> well.epoch, seq |-> n] = Landing(f)
  BY <1>8 DEF PipeInv, Joined, Landings
<1>10. well.epoch = Epoch /\ f.seq = n
  BY <1>9 DEF Landing
<1>11. f \in Generated
  BY GeneratedWhere
<1>12. PICK p \in Pads : f \in {[pad |-> p, seq |-> m] : m \in 1 .. gen[p]}
  BY <1>11 DEF Generated
<1>13. n \in 1 .. gen[p] /\ gen[p] \in Nat
  BY <1>10, <1>12 DEF PipeInv, CustodyInv, TypeOK
<1>14. s \in 1 .. gen[p]
  BY <1>5, <1>8, <1>13
<1>15. [pad |-> p, seq |-> s] \in Generated
  BY <1>14 DEF Generated
<1>16. g = Landing([pad |-> p, seq |-> s])
  BY <1>1, <1>10 DEF Landing
<1> QED BY <1>15, <1>16

\* A gap the ingest reports is explained: its frame is in the edge's custody,
\* or at the broker, or the edge has counted it as dropped, whatever failed
\* on either side.
THEOREM GapsAreExplained == PipelineSpec => []EveryGapExplained
<1>1. ASSUME PipeInv, NEW g \in ReportedGaps
      PROVE  g \in OnItsWay \cup Landings(dropped)
  <2>1. PICK f \in Generated : g = Landing(f)
    BY <1>1, GapGenerated
  <2>2. f \in InEdge \/ f \in stored \/ f \in dropped
    BY <1>1, GeneratedWhere
  <2>3. CASE f \in stored
    <3>1. g \in AtBroker \/ g \in rows
      BY <1>1, <2>1, <2>3 DEF PipeInv, Joined, Landings
    <3>2. PhantomsHeal
      BY <1>1, PhantomsAtBroker DEF PipeInv
    <3> QED BY <1>1, <3>1, <3>2 DEF PhantomsHeal, OnItsWay
  <2> QED BY <2>1, <2>2, <2>3 DEF OnItsWay, Landings
<1>2. PipeInv => EveryGapExplained
  BY <1>1 DEF EveryGapExplained
<1> QED BY <1>2, PipelineInvariant, PTL

\* What the pipeline owes is what the edge has generated, less what is in the
\* hypertable and what was dropped.
Debt == Landings(Generated) \ (rows \cup Landings(dropped))

DebtOwed == OnItsWay \ (rows \cup Landings(dropped)) = Debt

LEMMA Settled ==
  ASSUME PipeInv
  PROVE  /\ DebtOwed
         /\ rows \subseteq Landings(stored) /\ Landings(stored) \subseteq Landings(Generated)
         /\ Landings(stored) \cap Landings(dropped) = {}
<1>1. AtBroker \cup rows = Landings(stored)
  BY DEF PipeInv, Joined
<1>2. Landings(Generated) = Landings(InEdge) \cup Landings(stored) \cup Landings(dropped)
  BY GeneratedWhere DEF Landings
<1>3. Landings(stored) \cap Landings(dropped) = {}
  <2>1. \A f \in stored, g \in dropped : Landing(f) # Landing(g)
    BY GeneratedWhere, LandingOnce
  <2> QED BY <2>1 DEF Landings
<1> QED BY <1>1, <1>2, <1>3 DEF OnItsWay, Debt, DebtOwed

\* What a step of the edge does to what it has generated and dropped.
LEMMA EdgeDebt ==
  ASSUME PipeInv, PipeInv', [Next]_vars
  PROVE  \/ Generated' = Generated /\ dropped' = dropped
         \/ \E i \in [pad : Pads, seq : 1 .. MaxSeq] :
              i \notin Generated /\ Generated' = Generated \cup {i} /\ dropped' = dropped
         \/ \E i \in Generated \ (stored \cup dropped) :
              Generated' = Generated /\ dropped' = dropped \cup {i}
<1> DEFINE O == InEdge \ (stored \cup dropped)
<1>1. Generated = O \cup stored \cup dropped
  BY GeneratedWhere
<1>2. Generated' = O' \cup stored' \cup dropped'
  <2>1. Generated' = InEdge' \cup stored' \cup dropped'
    BY DEF PipeInv, CustodyInv, NoSilentLoss, OrderInv, Left, Released
  <2> QED BY <2>1
<1>3. CASE O' = O /\ stored' = stored /\ dropped' = dropped
  BY <1>1, <1>2, <1>3
<1>4. ASSUME NEW i \in [pad : Pads, seq : 1 .. MaxSeq], Hop!Accept(i)
      PROVE  i \notin Generated /\ Generated' = Generated \cup {i} /\ dropped' = dropped
  <2>1. /\ i \notin O \cup stored \cup dropped /\ O' = O \cup {i}
        /\ stored' = stored /\ dropped' = dropped
    BY <1>4 DEF Hop!Accept
  <2> QED BY <1>1, <1>2, <2>1
<1>5. ASSUME NEW b \in SUBSET O, Hop!Land(b)
      PROVE  Generated' = Generated /\ dropped' = dropped
  <2>1. O' = O \ b /\ stored' = stored \cup b /\ dropped' = dropped
    BY <1>5 DEF Hop!Land
  <2> QED BY <1>1, <1>2, <2>1
<1>6. ASSUME NEW i \in O, Hop!Count(i)
      PROVE  /\ i \in Generated \ (stored \cup dropped)
             /\ Generated' = Generated /\ dropped' = dropped \cup {i}
  <2>1. O' = O \ {i} /\ dropped' = dropped \cup {i} /\ stored' = stored
    BY <1>6 DEF Hop!Count
  <2> QED BY <1>1, <1>2, <2>1
<1>7. [Hop!Next]_(Hop!vars)
  BY HopStep DEF PipeInv
<1>8. \/ O' = O /\ stored' = stored /\ dropped' = dropped
      \/ \E i \in [pad : Pads, seq : 1 .. MaxSeq] : Hop!Accept(i)
      \/ \E b \in SUBSET O : Hop!Land(b)
      \/ \E i \in O : Hop!Count(i)
  BY <1>7 DEF Hop!Next, Hop!vars
<1> HIDE DEF O
<1> QED BY <1>3, <1>4, <1>5, <1>6, <1>8

LEMMA EndToEndStep ==
  ASSUME PipeInv, PipeInv', DebtOwed, DebtOwed', [PipelineNext]_pipeVars
  PROVE  [EndToEnd!Next]_(EndToEnd!vars)
<1> DEFINE L == Landings(dropped)
           O == OnItsWay \ (rows \cup L)
           G == Landings(Generated)
<1>1. /\ O = G \ (rows \cup L) /\ O' = G' \ (rows' \cup L')
      /\ rows \subseteq Landings(stored) /\ Landings(stored) \subseteq G
      /\ Landings(stored) \cap L = {} /\ L \subseteq G
  <2>1. L \subseteq G
    BY GeneratedWhere DEF Landings
  <2> QED BY <2>1, Settled DEF DebtOwed, Debt
<1>2. L' = Landings(dropped') /\ G' = Landings(Generated')
  BY DEF Landings, Landing
<1>3. ASSUME rows' = rows, Generated' = Generated, dropped' = dropped
      PROVE  [EndToEnd!Next]_(EndToEnd!vars)
  <2>1. O' = O /\ L' = L
    BY <1>1, <1>2, <1>3
  <2> QED BY <1>3, <2>1 DEF EndToEnd!vars
<1>4. ASSUME rows' = rows, dropped' = dropped, NEW i \in [pad : Pads, seq : 1 .. MaxSeq],
             i \notin Generated, Generated' = Generated \cup {i}
      PROVE  [EndToEnd!Next]_(EndToEnd!vars)
  <2> DEFINE l == Landing(i)
  <2>1. i \in Frame /\ l \in FrameIds
    <3>1. i \in Frame /\ i.seq \in 1 .. MaxSeq
      BY DEF Frame
    <3> QED BY <3>1, PipelineAssumption DEF Landing, FrameIds
  <2>2. l \notin G
    BY <1>4, <2>1, GeneratedWhere, LandingOnce DEF Landings
  <2>3. G' = G \cup {l} /\ L' = L
    BY <1>2, <1>4 DEF Landings
  <2> HIDE DEF l, G
  <2>4. l \notin O \cup rows \cup L /\ O' = O \cup {l}
    BY <1>1, <1>4, <2>2, <2>3
  <2>5. EndToEnd!Accept(l)
    BY <1>4, <2>3, <2>4 DEF EndToEnd!Accept
  <2> QED BY <2>1, <2>5 DEF EndToEnd!Next
<1>5. ASSUME rows' = rows, Generated' = Generated,
             NEW i \in Generated \ (stored \cup dropped), dropped' = dropped \cup {i}
      PROVE  [EndToEnd!Next]_(EndToEnd!vars)
  <2> DEFINE l == Landing(i)
  <2>1. l \in G /\ l \notin Landings(stored) \cup L
    BY <1>5, GeneratedWhere, LandingOnce DEF Landings
  <2>2. G' = G /\ L' = L \cup {l}
    BY <1>2, <1>5 DEF Landings
  <2> HIDE DEF l, G
  <2>3. l \in O /\ O' = O \ {l}
    BY <1>1, <1>5, <2>1, <2>2
  <2>4. EndToEnd!Count(l)
    BY <1>5, <2>2, <2>3 DEF EndToEnd!Count
  <2> QED BY <2>3, <2>4 DEF EndToEnd!Next
<1>6. ASSUME NEW b \in SUBSET AtBroker, b \cap rows = {}, rows' = rows \cup b,
             Generated' = Generated, dropped' = dropped
      PROVE  [EndToEnd!Next]_(EndToEnd!vars)
  <2>1. b \subseteq Landings(stored)
    BY <1>6 DEF PipeInv, Joined
  <2>2. G' = G /\ L' = L
    BY <1>2, <1>6
  <2> HIDE DEF G
  <2>3. b \subseteq O /\ O' = O \ b
    BY <1>1, <1>6, <2>1, <2>2
  <2>4. EndToEnd!Land(b)
    BY <1>6, <2>2, <2>3 DEF EndToEnd!Land
  <2> QED BY <2>3, <2>4 DEF EndToEnd!Next
<1>7. CASE EdgeStep \/ Enqueue \/ UNCHANGED pipeVars
  <2>1. rows' = rows
    BY <1>7, EnqueueOne DEF EdgeStep, EnqueueItem, PipeInv, pipeVars, ingestVars, dbVars
  <2> QED BY <1>3, <1>4, <1>5, <2>1, EdgeRuns, EdgeDebt
<1>8. CASE IngestStep
  <2>1. Generated' = Generated /\ dropped' = dropped
    BY <1>8 DEF IngestStep, vars, genVars, Generated
  <2>2. ~\E p : Counts(p)
    BY PipelineAssumption DEF Counts
  <2>3. Stays \/ \E b : Lands(b)
    BY <1>8, <2>2, ConsumeStep DEF IngestStep, PipeInv
  <2>4. CASE Stays
    BY <1>3, <2>1, <2>4 DEF Stays
  <2>5. CASE \E b : Lands(b)
    <3>1. PICK b : Lands(b)
      BY <2>5
    <3>2. b \in SUBSET AtBroker /\ b \cap rows = {} /\ rows' = rows \cup b
      BY <3>1 DEF Lands, Owed
    <3> QED BY <1>6, <2>1, <3>2
  <2> QED BY <2>3, <2>4, <2>5
<1> QED BY <1>7, <1>8 DEF PipelineNext

\* The pipeline is one at-least-once hop from the generator to the hypertable:
\* what the edge has generated is owed until it is stored, once, or counted in
\* buffer_dropped, whatever fails on either side and at the broker.
THEOREM PipelineIsHop == PipelineSpec => ImplementsHopEndToEnd
<1>1. PipelineInit => EndToEnd!Init
  <2>1. ASSUME PipelineInit PROVE EndToEnd!Init
    <3>1. InEdge = {} /\ dropped = {}
      BY <2>1, NothingYet DEF PipelineInit
    <3>2. rows = {} /\ queue = <<>> /\ unacked = <<>> /\ orphans = <<>>
      BY <2>1 DEF PipelineInit, IngestInit
    <3>3. AtBroker = {}
      BY <3>2, NothingHeld DEF AtBroker
    <3> QED BY <3>1, <3>2, <3>3 DEF EndToEnd!Init, OnItsWay, Landings
  <2> QED BY <2>1
<1>2. PipeInv => DebtOwed
  BY Settled
<1>3. PipeInv /\ PipeInv' /\ DebtOwed /\ DebtOwed' /\ [PipelineNext]_pipeVars
        => [EndToEnd!Next]_(EndToEnd!vars)
  BY EndToEndStep
<1> QED BY <1>1, <1>2, <1>3, PipelineInvariant, PTL
     DEF PipelineSpec, pipeVars, ImplementsHopEndToEnd, EndToEnd!Spec
=============================================================================
