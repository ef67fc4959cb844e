------------------------ MODULE TelemetryFeed_proofs ------------------------
(***************************************************************************)
(* The telemetry plane: the hub's bounded queues are exact, rows are       *)
(* unique, a drained dashboard is fresh and none goes back, for any number *)
(* of dashboards and messages, any queue and prefetch, and any schedule of *)
(* lost connections, crashes and failed inserts.                           *)
(***************************************************************************)
EXTENDS TelemetryFeed, FiniteSetTheorems, SequenceTheorems, TLAPS

Message  == [no : 1 .. MaxSent, kind : {"metrics", "event"}, redelivered : BOOLEAN]
Snapshot == Message \cup {NoSnap}
Offered  == [no : Nat, snap : Snapshot]
Client   == [stage : {"gone", "accepting", "open", "mute"}, hello : Snapshot,
             queue : Seq(Offered), sending : Seq(Offered), offered : Nat,
             taken : Nat, dropped : Nat, stale : BOOLEAN]

\* A dashboard's end of the hub: the queue is bounded and without a hole, and
\* what was offered is taken, dropped or queued.
ClientInv(c) ==
  /\ c \in Client
  /\ Len(c.queue) <= QueueCap
  /\ \A i \in DOMAIN c.queue : c.queue[i].no = c.offered - Len(c.queue) + i
  /\ c.taken + c.dropped + Len(c.queue) = c.offered
  /\ Len(c.sending) <= 1 /\ (c.stage # "open" => c.sending = <<>>)
  /\ c.stage \in {"gone", "accepting"} => c.queue = <<>>
  /\ c.stage # "accepting" => c.hello = NoSnap

\* What is on its way to a dashboard, from what it shows to what the api has
\* last remembered: each snapshot that is no redelivery is newer than all that
\* is ahead of it.
Follows(x, y) == y = NoSnap \/ y.redelivered \/ x = y \/ x.no < y.no
Coming(c) == {c.queue[i].snap : i \in DOMAIN c.queue}
Taken(c)  == {c.sending[i].snap : i \in DOMAIN c.sending}
Snaps(c)  == Coming(c) \cup Taken(c) \cup {c.hello}
Ordered(c, shown, last) ==
  /\ Follows(shown, last)
  /\ \A y \in Snaps(c) : Follows(shown, y) /\ Follows(y, last)
  /\ \A x \in Taken(c), y \in Coming(c) : Follows(x, y)
  /\ \A i, j \in DOMAIN c.queue : i < j => Follows(c.queue[i].snap, c.queue[j].snap)

\* The latest snapshot is shown, or on its way with nothing but other
\* messages behind it.
Quiet(s, k) == \A i \in DOMAIN s : i > k => s[i].snap = NoSnap
Arriving(c, shown, last) ==
  \/ \E k \in DOMAIN c.queue : c.queue[k].snap = last /\ Quiet(c.queue, k)
  \/ /\ Quiet(c.queue, 0)
     /\ \/ \E k \in DOMAIN c.sending : c.sending[k].snap = last
        \/ Quiet(c.sending, 0) /\ shown = last
Fresh(c, shown, last) ==
  c.stage = "open" /\ c.dropped = 0 /\ ~c.stale /\ last # NoSnap
    => Arriving(c, shown, last)

Dashboard(c, shown, last) ==
  ClientInv(c) /\ Ordered(c, shown, last) /\ Fresh(c, shown, last)

\* The state of the api and of the broker.
TypeOK ==
  /\ sent \in 0 .. MaxSent /\ ready \subseteq Message /\ held \subseteq Message
  /\ tasks \subseteq Message \X Nat /\ session \in Nat
  /\ rows \in [1 .. MaxSent -> Nat]
  /\ latest \in Snapshot /\ view \in [Dashboards -> Snapshot]
  /\ client \in [Dashboards -> Client]
DashboardsInv == \A d \in Dashboards : Dashboard(client[d], view[d], latest)

\* What is ready for the first time is newer than all that was delivered.
InHand    == {t[1] : t \in tasks}
OnScreen  == UNION {Snaps(client[d]) \cup {view[d]} : d \in Dashboards}
Delivered == {latest} \cup held \cup InHand \cup OnScreen
Queued(R, D, n) ==
  /\ \A m \in R : ~m.redelivered => /\ \A x \in D : x.no < m.no
                                    /\ \A x \in R : x.no = m.no => x = m
  /\ \A x \in R \cup D : x.no <= n
QueueInv == Queued(ready, Delivered, sent)

\* One row per message, as long as the broker never kept a queue the api had
\* lost: what is ready is neither with a handler nor stored, and what a
\* handler inserts is not stored.
OnceInv ==
  /\ ~halved =>
       /\ ~dead /\ (ready = {} \/ up)
       /\ \A m \in ready : rows[m.no] = 0 /\ \A x \in InHand : x.no # m.no
       /\ \A m, x \in ready : m.no = x.no => m = x
       /\ \A t, u \in tasks : t[1].no = u[1].no => t = u
       /\ \A t \in tasks : rows[t[1].no] = 0
       /\ \A n \in 1 .. MaxSent : rows[n] <= 1
  /\ \A n \in 1 .. MaxSent : n > sent => rows[n] = 0

FeedInv == TypeOK /\ DashboardsInv /\ QueueInv /\ OnceInv

-----------------------------------------------------------------------------
(* One client.                                                              *)

LEMMA SnapshotType ==
  ASSUME NEW x \in Snapshot
  PROVE  x.no \in Nat /\ x.redelivered \in BOOLEAN
<1>1. CASE x \in Message
  BY <1>1, FeedAssumption DEF Message
<1>2. CASE x = NoSnap
  BY <1>2 DEF NoSnap
<1> QED BY <1>1, <1>2 DEF Snapshot

LEMMA NoSnapIsNone == NoSnap \notin Message /\ NoSnap.no = 0 /\ NoSnap \in Snapshot
<1>1. NoSnap.kind = "none"
  BY DEF NoSnap
<1>2. \A m \in Message : m.kind # "none"
  BY DEF Message
<1> QED BY <1>1, <1>2 DEF Snapshot, NoSnap

LEMMA ClientTypes ==
  ASSUME NEW c, ClientInv(c)
  PROVE  /\ c.queue \in Seq(Offered) /\ Len(c.queue) \in Nat
         /\ DOMAIN c.queue = 1 .. Len(c.queue)
         /\ \A i \in 1 .. Len(c.queue) : c.queue[i] \in Offered /\ c.queue[i].snap \in Snapshot
         /\ c.sending \in Seq(Offered) /\ Len(c.sending) \in Nat
         /\ DOMAIN c.sending = 1 .. Len(c.sending)
         /\ \A i \in 1 .. Len(c.sending) : c.sending[i] \in Offered /\ c.sending[i].snap \in Snapshot
         /\ c.offered \in Nat /\ c.taken \in Nat /\ c.dropped \in Nat
         /\ c.hello \in Snapshot /\ c.stale \in BOOLEAN
<1>1. /\ c.queue \in Seq(Offered) /\ c.sending \in Seq(Offered)
      /\ c.offered \in Nat /\ c.taken \in Nat /\ c.dropped \in Nat
      /\ c.hello \in Snapshot /\ c.stale \in BOOLEAN
  BY DEF ClientInv, Client
<1>2. \A o \in Offered : o.snap \in Snapshot
  BY DEF Offered
<1>3. /\ Len(c.queue) \in Nat /\ DOMAIN c.queue = 1 .. Len(c.queue)
      /\ \A i \in 1 .. Len(c.queue) : c.queue[i] \in Offered
  BY <1>1, LenProperties, ElementOfSeq
<1>4. /\ Len(c.sending) \in Nat /\ DOMAIN c.sending = 1 .. Len(c.sending)
      /\ \A i \in 1 .. Len(c.sending) : c.sending[i] \in Offered
  BY <1>1, LenProperties, ElementOfSeq
<1> QED BY <1>1, <1>2, <1>3, <1>4

\* What put_nowait does: k is the number of messages it drops first.
LEMMA OfferParts ==
  ASSUME NEW c, ClientInv(c), NEW snap \in Snapshot
  PROVE  \E k \in {0, 1} :
    LET o == Offer(c, snap) IN
    /\ o.stage = c.stage /\ o.hello = c.hello /\ o.sending = c.sending
    /\ o.taken = c.taken /\ o.offered = c.offered + 1 /\ o.dropped = c.dropped + k
    /\ o.stale = (c.stale /\ snap = NoSnap)
    /\ k = 1 <=> Len(c.queue) = QueueCap
    /\ o.queue \in Seq(Offered) /\ Len(o.queue) = Len(c.queue) + 1 - k
    /\ \A i \in 1 .. Len(c.queue) - k : o.queue[i] = c.queue[i + k]
    /\ o.queue[Len(c.queue) + 1 - k] = [no |-> c.offered + 1, snap |-> snap]
    /\ o \in Client
<1> DEFINE e == [no |-> c.offered + 1, snap |-> snap]
           full == Len(c.queue) = QueueCap
           kept == IF full THEN Tail(c.queue) ELSE c.queue
           k == IF full THEN 1 ELSE 0
           o == Offer(c, snap)
<1> USE FeedAssumption
<1>1. /\ c.queue \in Seq(Offered) /\ Len(c.queue) \in Nat /\ c.offered \in Nat
      /\ c.dropped \in Nat /\ c.stale \in BOOLEAN /\ c \in Client
  BY ClientTypes DEF ClientInv
<1>2. e \in Offered
  BY <1>1 DEF Offered
<1>3. /\ kept \in Seq(Offered) /\ Len(kept) = Len(c.queue) - k
      /\ \A i \in 1 .. Len(c.queue) - k : kept[i] = c.queue[i + k]
  <2>1. CASE full
    <3>1. c.queue # <<>>
      BY <2>1, EmptySeq
    <3>2. /\ Tail(c.queue) \in Seq(Offered) /\ Len(Tail(c.queue)) = Len(c.queue) - 1
          /\ \A i \in 1 .. Len(Tail(c.queue)) : Tail(c.queue)[i] = c.queue[i + 1]
      BY <1>1, <3>1, HeadTailProperties
    <3> QED BY <2>1, <3>2
  <2>2. CASE ~full
    BY <1>1, <2>2
  <2> QED BY <2>1, <2>2
<1>4. /\ o.stage = c.stage /\ o.hello = c.hello /\ o.sending = c.sending
      /\ o.taken = c.taken /\ o.offered = c.offered + 1 /\ o.dropped = c.dropped + k
      /\ o.stale = (c.stale /\ snap = NoSnap)
      /\ o.queue = Append(kept, e)
  BY <1>1 DEF Offer, Client
<1>5. /\ Append(kept, e) \in Seq(Offered) /\ Len(Append(kept, e)) = Len(kept) + 1
      /\ \A i \in 1 .. Len(kept) : Append(kept, e)[i] = kept[i]
      /\ Append(kept, e)[Len(kept) + 1] = e
  <2>1. kept \in Seq(Offered)
    BY <1>3
  <2> HIDE DEF kept, e, k, o, full
  <2> QED BY <1>2, <2>1, AppendProperties
<1>6. o \in Client
  <2> DEFINE q == Append(kept, e)
             n == IF full THEN c.dropped + 1 ELSE c.dropped
             b == c.stale /\ snap = NoSnap
  <2>1. o = [c EXCEPT !.offered = c.offered + 1, !.queue = q, !.dropped = n, !.stale = b]
    BY <1>1 DEF Offer, Client
  <2>2. q \in Seq(Offered) /\ n \in Nat /\ b \in BOOLEAN
    BY <1>1, <1>5
  <2> HIDE DEF q, n, b
  <2>3. o = [stage |-> c.stage, hello |-> c.hello, queue |-> q, sending |-> c.sending,
             offered |-> c.offered + 1, taken |-> c.taken, dropped |-> n, stale |-> b]
    <3> HIDE DEF o
    <3> QED BY <1>1, <2>1 DEF Client
  <2>4. /\ c.stage \in {"gone", "accepting", "open", "mute"} /\ c.hello \in Snapshot
        /\ c.sending \in Seq(Offered) /\ c.taken \in Nat /\ c.offered + 1 \in Nat
    BY <1>1 DEF Client
  <2> HIDE DEF o
  <2> QED BY <2>2, <2>3, <2>4 DEF Client
<1>7. k \in {0, 1} /\ (k = 1 <=> full)
  OBVIOUS
<1> HIDE DEF o, kept, k
<1>8. Len(o.queue) = Len(c.queue) + 1 - k
  BY <1>1, <1>3, <1>4, <1>5, <1>7
<1>9. /\ \A i \in 1 .. Len(c.queue) - k : o.queue[i] = c.queue[i + k]
      /\ o.queue[Len(c.queue) + 1 - k] = e
  <2>1. Len(kept) = Len(c.queue) - k /\ Len(kept) + 1 = Len(c.queue) + 1 - k
    BY <1>1, <1>3, <1>7
  <2> QED BY <1>3, <1>4, <1>5, <2>1
<1> QED BY <1>4, <1>5, <1>6, <1>7, <1>8, <1>9 DEF o

LEMMA OfferInv ==
  ASSUME NEW c, ClientInv(c), InHub(c), NEW snap \in Snapshot
  PROVE  ClientInv(Offer(c, snap))
<1> DEFINE o == Offer(c, snap)
<1> USE FeedAssumption
<1>1. PICK k \in {0, 1} :
        /\ o.stage = c.stage /\ o.hello = c.hello /\ o.sending = c.sending
        /\ o.taken = c.taken /\ o.offered = c.offered + 1 /\ o.dropped = c.dropped + k
        /\ o.stale = (c.stale /\ snap = NoSnap)
        /\ k = 1 <=> Len(c.queue) = QueueCap
        /\ o.queue \in Seq(Offered) /\ Len(o.queue) = Len(c.queue) + 1 - k
        /\ \A i \in 1 .. Len(c.queue) - k : o.queue[i] = c.queue[i + k]
        /\ o.queue[Len(c.queue) + 1 - k] = [no |-> c.offered + 1, snap |-> snap]
        /\ o \in Client
  BY OfferParts
<1>2. /\ Len(c.queue) \in Nat /\ DOMAIN c.queue = 1 .. Len(c.queue)
      /\ c.offered \in Nat /\ c.taken \in Nat /\ c.dropped \in Nat
  BY ClientTypes
<1> HIDE DEF o
<1>3. DOMAIN o.queue = 1 .. Len(o.queue)
  BY <1>1, LenProperties
<1>4. ASSUME NEW i \in 1 .. Len(o.queue)
      PROVE  o.queue[i].no = o.offered - Len(o.queue) + i
  <2>1. CASE i <= Len(c.queue) - k
    <3>1. i \in 1 .. Len(c.queue) - k /\ i + k \in 1 .. Len(c.queue)
      BY <1>1, <1>2, <2>1
    <3>2. o.queue[i] = c.queue[i + k]
      BY <1>1, <3>1
    <3>3. c.queue[i + k].no = c.offered - Len(c.queue) + (i + k)
      BY <1>2, <3>1 DEF ClientInv
    <3> QED BY <1>1, <1>2, <3>2, <3>3, SMTT(30)
  <2>2. CASE i > Len(c.queue) - k
    <3>1. i = Len(c.queue) + 1 - k
      BY <1>1, <1>2, <2>2, SMTT(30)
    <3>2. o.queue[i].no = c.offered + 1
      BY <1>1, <3>1
    <3> QED BY <1>1, <1>2, <3>1, <3>2, SMTT(30)
  <2> QED BY <1>1, <1>2, <2>1, <2>2
<1>5. Len(o.queue) <= QueueCap /\ o.taken + o.dropped + Len(o.queue) = o.offered
  <2>1. Len(c.queue) <= QueueCap /\ c.taken + c.dropped + Len(c.queue) = c.offered
    BY DEF ClientInv
  <2>2. /\ o.taken = c.taken /\ o.offered = c.offered + 1 /\ o.dropped = c.dropped + k
        /\ k = 1 <=> Len(c.queue) = QueueCap
        /\ Len(o.queue) = Len(c.queue) + 1 - k
    BY <1>1
  <2>3. CASE k = 0
    <3>1. Len(c.queue) # QueueCap /\ QueueCap \in Nat
      BY <2>2, <2>3
    <3>2. o.dropped = c.dropped /\ Len(o.queue) = Len(c.queue) + 1
      BY <1>2, <2>2, <2>3
    <3>3. Len(c.queue) + 1 <= QueueCap
      BY <1>2, <2>1, <3>1
    <3>4. c.taken + c.dropped + (Len(c.queue) + 1) = c.offered + 1
      BY <1>2, <2>1, SMTT(30)
    <3> QED BY <2>2, <3>2, <3>3, <3>4
  <2>4. CASE k = 1
    BY <1>2, <2>1, <2>2, <2>4, SMTT(30)
  <2> QED BY <2>3, <2>4
<1>6. /\ Len(o.sending) <= 1 /\ (o.stage # "open" => o.sending = <<>>)
      /\ o.stage \notin {"gone", "accepting"} /\ o.hello = NoSnap
  BY <1>1 DEF ClientInv, InHub
<1> QED BY <1>1, <1>3, <1>4, <1>5, <1>6 DEF ClientInv, o

\* A snapshot, or another message, is offered to a client of the hub.
LEMMA OfferOrdered ==
  ASSUME NEW c, NEW shown \in Snapshot, NEW last \in Snapshot,
         ClientInv(c), Ordered(c, shown, last),
         NEW snap \in Snapshot, NEW new \in Snapshot,
         \A x \in Snaps(c) \cup {shown} : Follows(x, snap) /\ Follows(x, new),
         Follows(snap, new)
  PROVE  /\ Ordered(Offer(c, snap), shown, new)
         /\ Snaps(Offer(c, snap)) \subseteq Snaps(c) \cup {snap}
<1> DEFINE o == Offer(c, snap)
<1>1. PICK k \in {0, 1} :
        /\ o.stage = c.stage /\ o.hello = c.hello /\ o.sending = c.sending
        /\ o.taken = c.taken /\ o.offered = c.offered + 1 /\ o.dropped = c.dropped + k
        /\ o.stale = (c.stale /\ snap = NoSnap)
        /\ k = 1 <=> Len(c.queue) = QueueCap
        /\ o.queue \in Seq(Offered) /\ Len(o.queue) = Len(c.queue) + 1 - k
        /\ \A i \in 1 .. Len(c.queue) - k : o.queue[i] = c.queue[i + k]
        /\ o.queue[Len(c.queue) + 1 - k] = [no |-> c.offered + 1, snap |-> snap]
        /\ o \in Client
  BY OfferParts
<1>2. Len(c.queue) \in Nat /\ DOMAIN c.queue = 1 .. Len(c.queue)
  BY ClientTypes
<1> HIDE DEF o
<1>3. DOMAIN o.queue = 1 .. Len(c.queue) + 1 - k
  BY <1>1, LenProperties
<1>4. \A i \in 1 .. Len(c.queue) - k : i + k \in DOMAIN c.queue /\ o.queue[i].snap = c.queue[i + k].snap
  BY <1>1, <1>2
<1>5. o.queue[Len(c.queue) + 1 - k].snap = snap
  BY <1>1
<1>6. \A i \in DOMAIN o.queue : i \in 1 .. Len(c.queue) - k \/ i = Len(c.queue) + 1 - k
  BY <1>1, <1>2, <1>3
<1>7. Coming(o) \subseteq Coming(c) \cup {snap}
  BY <1>4, <1>5, <1>6 DEF Coming
<1>8. Taken(o) = Taken(c) /\ o.hello = c.hello
  BY <1>1 DEF Taken
<1>9. Snaps(o) \subseteq Snaps(c) \cup {snap}
  BY <1>7, <1>8 DEF Snaps
<1>10. Follows(shown, new) /\ \A y \in Snaps(o) : Follows(shown, y) /\ Follows(y, new)
  BY <1>9 DEF Ordered
<1>11. \A x \in Taken(o), y \in Coming(o) : Follows(x, y)
  BY <1>7, <1>8 DEF Ordered, Snaps
<1>12. ASSUME NEW i \in DOMAIN o.queue, NEW j \in DOMAIN o.queue, i < j
       PROVE  Follows(o.queue[i].snap, o.queue[j].snap)
  <2>1. i \in 1 .. Len(c.queue) - k
    BY <1>1, <1>2, <1>3, <1>12
  <2>2. i + k \in DOMAIN c.queue /\ o.queue[i].snap = c.queue[i + k].snap
    BY <1>4, <2>1
  <2>3. CASE j = Len(c.queue) + 1 - k
    <3>1. c.queue[i + k].snap \in Snaps(c)
      BY <2>2 DEF Snaps, Coming
    <3> QED BY <1>5, <2>2, <2>3, <3>1
  <2>4. CASE j \in 1 .. Len(c.queue) - k
    <3>1. j + k \in DOMAIN c.queue /\ o.queue[j].snap = c.queue[j + k].snap
      BY <1>4, <2>4
    <3>2. i + k < j + k
      BY <1>1, <1>2, <1>12, <2>1, <2>4
    <3> QED BY <2>2, <3>1, <3>2 DEF Ordered
  <2> QED BY <1>6, <2>3, <2>4
<1>13. Ordered(o, shown, new)
  BY <1>10, <1>11, <1>12 DEF Ordered
<1> QED BY <1>9, <1>13 DEF o

LEMMA OfferFresh ==
  ASSUME NEW c, NEW shown \in Snapshot, NEW last \in Snapshot,
         ClientInv(c), Fresh(c, shown, last),
         NEW snap \in Snapshot, NEW new \in Snapshot,
         snap = new \/ (snap = NoSnap /\ new = last)
  PROVE  Fresh(Offer(c, snap), shown, new)
<1> DEFINE o == Offer(c, snap)
<1>1. PICK k \in {0, 1} :
        /\ o.stage = c.stage /\ o.hello = c.hello /\ o.sending = c.sending
        /\ o.taken = c.taken /\ o.offered = c.offered + 1 /\ o.dropped = c.dropped + k
        /\ o.stale = (c.stale /\ snap = NoSnap)
        /\ k = 1 <=> Len(c.queue) = QueueCap
        /\ o.queue \in Seq(Offered) /\ Len(o.queue) = Len(c.queue) + 1 - k
        /\ \A i \in 1 .. Len(c.queue) - k : o.queue[i] = c.queue[i + k]
        /\ o.queue[Len(c.queue) + 1 - k] = [no |-> c.offered + 1, snap |-> snap]
        /\ o \in Client
  BY OfferParts
<1>2. Len(c.queue) \in Nat /\ DOMAIN c.queue = 1 .. Len(c.queue) /\ c.dropped \in Nat
  BY ClientTypes
<1> HIDE DEF o
<1> SUFFICES ASSUME o.stage = "open", o.dropped = 0, ~o.stale, new # NoSnap
             PROVE  Arriving(o, shown, new)
  BY DEF Fresh, o
<1>3. k = 0 /\ c.dropped = 0 /\ c.stage = "open"
  BY <1>1, <1>2
<1>4. /\ DOMAIN o.queue = 1 .. Len(c.queue) + 1
      /\ \A i \in DOMAIN c.queue : o.queue[i] = c.queue[i]
      /\ o.queue[Len(c.queue) + 1].snap = snap
  <2>1. DOMAIN o.queue = 1 .. Len(o.queue)
    BY <1>1, LenProperties
  <2> QED BY <1>1, <1>2, <1>3, <2>1
<1>5. CASE snap = new
  <2>1. Len(c.queue) + 1 \in DOMAIN o.queue /\ Quiet(o.queue, Len(c.queue) + 1)
    BY <1>2, <1>4 DEF Quiet
  <2> QED BY <1>4, <1>5, <2>1 DEF Arriving
<1>6. CASE snap = NoSnap /\ new = last
  <2>1. Arriving(c, shown, last)
    BY <1>1, <1>3, <1>6 DEF Fresh
  <2>2. ASSUME NEW n \in Nat, Quiet(c.queue, n) PROVE Quiet(o.queue, n)
    BY <1>2, <1>4, <1>6, <2>2 DEF Quiet
  <2>3. CASE \E n \in DOMAIN c.queue : c.queue[n].snap = last /\ Quiet(c.queue, n)
    <3>1. PICK n \in DOMAIN c.queue : c.queue[n].snap = last /\ Quiet(c.queue, n)
      BY <2>3
    <3>2. n \in DOMAIN o.queue /\ o.queue[n].snap = last /\ n \in Nat
      BY <1>2, <1>4, <3>1
    <3>3. Quiet(o.queue, n)
      BY <2>2, <3>1, <3>2
    <3> QED BY <1>6, <3>2, <3>3 DEF Arriving
  <2>4. CASE /\ Quiet(c.queue, 0)
             /\ \/ \E n \in DOMAIN c.sending : c.sending[n].snap = last
                \/ Quiet(c.sending, 0) /\ shown = last
    <3>1. Quiet(o.queue, 0)
      BY <2>2, <2>4
    <3> QED BY <1>1, <1>6, <2>4, <3>1 DEF Arriving
  <2> QED BY <2>1, <2>3, <2>4 DEF Arriving
<1> QED BY <1>5, <1>6

\* A client that leaves, and one that comes.
LEMMA GoneDashboard ==
  ASSUME NEW shown \in Snapshot, NEW last \in Snapshot, Follows(shown, last)
  PROVE  Dashboard(Gone, shown, last) /\ Snaps(Gone) = {NoSnap}
<1>1. /\ Gone.stage = "gone" /\ Gone.hello = NoSnap /\ Gone.queue = <<>>
      /\ Gone.sending = <<>> /\ Gone.offered = 0 /\ Gone.taken = 0
      /\ Gone.dropped = 0 /\ Gone.stale = FALSE
  BY DEF Gone
<1>2. <<>> \in Seq(Offered) /\ Len(<<>>) = 0 /\ DOMAIN <<>> = {}
  BY EmptySeq
<1>3. Gone \in Client
  BY <1>2, NoSnapIsNone DEF Gone, Client
<1>4. ClientInv(Gone)
  BY <1>1, <1>2, <1>3, FeedAssumption DEF ClientInv
<1>5. Coming(Gone) = {} /\ Taken(Gone) = {} /\ Snaps(Gone) = {NoSnap}
  BY <1>1, <1>2 DEF Coming, Taken, Snaps
<1>6. Follows(NoSnap, last)
  <2>1. CASE last \in Message
    <3>1. last.no > 0
      BY <2>1, FeedAssumption DEF Message
    <3> QED BY <3>1, NoSnapIsNone DEF Follows
  <2> QED BY <2>1 DEF Snapshot, Follows
<1>7. Ordered(Gone, shown, last)
  BY <1>1, <1>2, <1>5, <1>6 DEF Ordered, Follows
<1>8. Fresh(Gone, shown, last)
  BY <1>1 DEF Fresh
<1> QED BY <1>4, <1>5, <1>7, <1>8 DEF Dashboard

LEMMA JoinDashboard ==
  ASSUME NEW shown \in Snapshot, NEW last \in Snapshot, Follows(shown, last),
         NEW c, c = [Gone EXCEPT !.stage = "accepting", !.hello = last]
  PROVE  Dashboard(c, shown, last) /\ Snaps(c) = {last}
<1>1. /\ c.stage = "accepting" /\ c.hello = last /\ c.queue = <<>>
      /\ c.sending = <<>> /\ c.offered = 0 /\ c.taken = 0
      /\ c.dropped = 0 /\ c.stale = FALSE
  BY DEF Gone
<1>2. <<>> \in Seq(Offered) /\ Len(<<>>) = 0 /\ DOMAIN <<>> = {}
  BY EmptySeq
<1>3. c \in Client
  BY <1>2 DEF Gone, Client
<1>4. ClientInv(c)
  BY <1>1, <1>2, <1>3, FeedAssumption DEF ClientInv
<1>5. Coming(c) = {} /\ Taken(c) = {} /\ Snaps(c) = {last}
  BY <1>1, <1>2 DEF Coming, Taken, Snaps
<1>6. Ordered(c, shown, last)
  BY <1>1, <1>2, <1>5 DEF Ordered, Follows
<1>7. Fresh(c, shown, last)
  BY <1>1 DEF Fresh
<1> QED BY <1>4, <1>5, <1>6, <1>7 DEF Dashboard

Admitted(hello, last) ==
  [Gone EXCEPT !.stage = "open", !.offered = 1,
               !.queue = <<[no |-> 1, snap |-> hello]>>, !.stale = (hello # last)]

LEMMA AcceptDashboard ==
  ASSUME NEW shown \in Snapshot, NEW last \in Snapshot, NEW b,
         Dashboard(b, shown, last), NEW c, c = Admitted(b.hello, last)
  PROVE  Dashboard(c, shown, last) /\ Snaps(c) \subseteq Snaps(b) \cup {NoSnap}
<1> DEFINE e == [no |-> 1, snap |-> b.hello]
<1>0. b.hello \in Snapshot
  BY ClientTypes DEF Dashboard
<1>1. /\ c.stage = "open" /\ c.hello = NoSnap /\ c.queue = <<e>>
      /\ c.sending = <<>> /\ c.offered = 1 /\ c.taken = 0
      /\ c.dropped = 0 /\ c.stale = (b.hello # last)
  BY DEF Gone, Admitted
<1>2. <<>> \in Seq(Offered) /\ Len(<<>>) = 0 /\ DOMAIN <<>> = {}
  BY EmptySeq
<1>3. e \in Offered /\ e.no = 1 /\ e.snap = b.hello
  BY <1>0 DEF Offered
<1> HIDE DEF e
<1>4. <<e>> \in Seq(Offered) /\ Len(<<e>>) = 1 /\ DOMAIN <<e>> = {1} /\ <<e>>[1] = e
  BY <1>3
<1>5. c \in Client
  BY <1>0, <1>2, <1>4, NoSnapIsNone DEF Gone, Client, Admitted, e
<1>6. ClientInv(c)
  BY <1>1, <1>2, <1>3, <1>4, <1>5, FeedAssumption DEF ClientInv
<1>7. Coming(c) = {b.hello} /\ Taken(c) = {} /\ Snaps(c) = {b.hello, NoSnap}
  BY <1>1, <1>2, <1>3, <1>4 DEF Coming, Taken, Snaps
<1>8. Follows(shown, last) /\ Follows(shown, b.hello) /\ Follows(b.hello, last)
  BY DEF Dashboard, Ordered, Snaps
<1>9. Follows(shown, NoSnap) /\ Follows(NoSnap, last)
  BY <1>8, GoneDashboard DEF Dashboard, Ordered
<1>10. Ordered(c, shown, last)
  <2>1. \A i, j \in DOMAIN c.queue : ~(i < j)
    BY <1>1, <1>4
  <2> QED BY <1>7, <1>8, <1>9, <2>1 DEF Ordered
<1>11. Fresh(c, shown, last)
  <2> SUFFICES ASSUME ~c.stale PROVE Arriving(c, shown, last)
    BY DEF Fresh
  <2>1. c.queue[1].snap = last
    BY <1>1, <1>3, <1>4
  <2>2. 1 \in DOMAIN c.queue /\ Quiet(c.queue, 1)
    BY <1>1, <1>4 DEF Quiet
  <2> QED BY <2>1, <2>2 DEF Arriving
<1>12. Snaps(c) \subseteq Snaps(b) \cup {NoSnap}
  BY <1>7 DEF Snaps
<1> QED BY <1>6, <1>10, <1>11, <1>12 DEF Dashboard

\* The sender takes a message, delivers it, or fails to.
LEMMA TakeDashboard ==
  ASSUME NEW shown \in Snapshot, NEW last \in Snapshot, NEW b,
         Dashboard(b, shown, last), b.stage = "open", b.sending = <<>>, b.queue # <<>>,
         NEW c, c = [b EXCEPT !.sending = <<Head(b.queue)>>, !.queue = Tail(b.queue),
                              !.taken = b.taken + 1]
  PROVE  Dashboard(c, shown, last) /\ Snaps(c) \subseteq Snaps(b)
<1> DEFINE e == Head(b.queue)
           q == Tail(b.queue)
<1>1. /\ b.queue \in Seq(Offered) /\ Len(b.queue) \in Nat
      /\ DOMAIN b.queue = 1 .. Len(b.queue)
      /\ b.offered \in Nat /\ b.taken \in Nat /\ b.dropped \in Nat /\ b \in Client
  BY ClientTypes DEF Dashboard, ClientInv
<1>2. /\ e \in Offered /\ q \in Seq(Offered) /\ Len(q) = Len(b.queue) - 1
      /\ \A i \in 1 .. Len(q) : q[i] = b.queue[i + 1]
  BY <1>1, HeadTailProperties
<1>3. Len(b.queue) >= 1 /\ e = b.queue[1]
  BY <1>1, EmptySeq
<1> HIDE DEF e, q
<1>4. DOMAIN q = 1 .. Len(q) /\ Len(q) \in Nat
  BY <1>2, LenProperties
<1>5. /\ <<e>> \in Seq(Offered) /\ Len(<<e>>) = 1 /\ DOMAIN <<e>> = {1} /\ <<e>>[1] = e
  BY <1>2
<1>6. c = [b EXCEPT !.sending = <<e>>, !.queue = q, !.taken = b.taken + 1]
  BY DEF e, q
<1>7. /\ c.stage = "open" /\ c.hello = b.hello /\ c.queue = q /\ c.sending = <<e>>
      /\ c.offered = b.offered /\ c.taken = b.taken + 1 /\ c.dropped = b.dropped
      /\ c.stale = b.stale
  BY <1>1, <1>6 DEF Client
<1>8. c \in Client
  <2> DEFINE s == <<e>>
             n == b.taken + 1
  <2>1. s \in Seq(Offered) /\ n \in Nat
    BY <1>1, <1>5
  <2>2. c = [b EXCEPT !.sending = s, !.queue = q, !.taken = n]
    BY <1>6
  <2> HIDE DEF s, n
  <2> QED BY <1>1, <1>2, <2>1, <2>2 DEF Client
<1>9. ClientInv(c)
  <2>1. /\ Len(b.queue) <= QueueCap
        /\ \A i \in 1 .. Len(b.queue) : b.queue[i].no = b.offered - Len(b.queue) + i
        /\ b.taken + b.dropped + Len(b.queue) = b.offered
    BY <1>1 DEF Dashboard, ClientInv
  <2>2. ASSUME NEW i \in 1 .. Len(q) PROVE q[i].no = b.offered - Len(q) + i
    <3>1. i + 1 \in 1 .. Len(b.queue)
      BY <1>1, <1>2
    <3>2. b.queue[i + 1].no = b.offered - Len(b.queue) + (i + 1)
      BY <2>1, <3>1
    <3>3. q[i] = b.queue[i + 1] /\ Len(q) = Len(b.queue) - 1
      BY <1>2
    <3>4. Len(b.queue) \in Nat /\ b.offered \in Nat
      BY <1>1
    <3>5. b.offered - Len(b.queue) + (i + 1) = b.offered - (Len(b.queue) - 1) + i
      BY <3>4, SMTT(30)
    <3> QED BY <3>2, <3>3, <3>5
  <2>3. Len(q) <= QueueCap /\ (b.taken + 1) + b.dropped + Len(q) = b.offered
    <3>1. /\ Len(b.queue) \in Nat /\ b.taken \in Nat /\ b.dropped \in Nat /\ b.offered \in Nat
          /\ Len(q) = Len(b.queue) - 1 /\ QueueCap \in Nat
      BY <1>1, <1>2, FeedAssumption
    <3>2. Len(b.queue) - 1 <= QueueCap
      BY <2>1, <3>1
    <3>3. (b.taken + 1) + b.dropped + (Len(b.queue) - 1) = b.offered
      BY <2>1, <3>1
    <3> QED BY <3>1, <3>2, <3>3
  <2>4. c.hello = NoSnap
    BY <1>7 DEF Dashboard, ClientInv
  <2> QED BY <1>4, <1>5, <1>7, <1>8, <2>2, <2>3, <2>4 DEF ClientInv
<1>10. Coming(c) \subseteq Coming(b)
  <2>1. \A i \in 1 .. Len(q) : i + 1 \in DOMAIN b.queue /\ q[i].snap = b.queue[i + 1].snap
    BY <1>1, <1>2
  <2> QED BY <1>4, <1>7, <2>1 DEF Coming
<1>11. Taken(c) = {b.queue[1].snap} /\ Taken(b) = {} /\ 1 \in DOMAIN b.queue
  <2>1. DOMAIN <<>> = {}
    BY EmptySeq
  <2> QED BY <1>1, <1>3, <1>5, <1>7, <2>1 DEF Taken
<1>12. Snaps(c) \subseteq Snaps(b)
  BY <1>7, <1>10, <1>11 DEF Snaps, Coming
<1>13. Ordered(c, shown, last)
  <2>1. \A i, j \in DOMAIN b.queue : i < j => Follows(b.queue[i].snap, b.queue[j].snap)
    BY DEF Dashboard, Ordered
  <2>2. ASSUME NEW x \in Taken(c), NEW y \in Coming(c) PROVE Follows(x, y)
    <3>1. PICK i \in 1 .. Len(q) : y = q[i].snap
      BY <1>4, <1>7 DEF Coming
    <3>2. i + 1 \in DOMAIN b.queue /\ y = b.queue[i + 1].snap /\ 1 < i + 1
      BY <1>1, <1>2, <3>1
    <3> QED BY <1>11, <2>1, <3>2
  <2>3. ASSUME NEW i \in DOMAIN c.queue, NEW j \in DOMAIN c.queue, i < j
        PROVE  Follows(c.queue[i].snap, c.queue[j].snap)
    <3>1. /\ i + 1 \in DOMAIN b.queue /\ j + 1 \in DOMAIN b.queue /\ i + 1 < j + 1
          /\ c.queue[i] = b.queue[i + 1] /\ c.queue[j] = b.queue[j + 1]
      BY <1>1, <1>2, <1>4, <1>7, <2>3, SMTT(30)
    <3> QED BY <2>1, <3>1
  <2>4. Follows(shown, last) /\ \A y \in Snaps(c) : Follows(shown, y) /\ Follows(y, last)
    BY <1>12 DEF Dashboard, Ordered
  <2> QED BY <2>2, <2>3, <2>4 DEF Ordered
<1>14. Fresh(c, shown, last)
  <2> SUFFICES ASSUME c.dropped = 0, ~c.stale, last # NoSnap PROVE Arriving(c, shown, last)
    BY DEF Fresh
  <2>1. Arriving(b, shown, last)
    BY <1>7 DEF Dashboard, Fresh
  <2>2. ASSUME NEW n \in Nat, Quiet(b.queue, n) PROVE \A m \in Nat : m + 1 >= n => Quiet(q, m)
    <3> SUFFICES ASSUME NEW m \in Nat, m + 1 >= n, NEW i \in 1 .. Len(q), i > m
                 PROVE  q[i].snap = NoSnap
      BY <1>4 DEF Quiet
    <3>1. i + 1 \in DOMAIN b.queue /\ i + 1 > n /\ q[i] = b.queue[i + 1]
      BY <1>1, <1>2
    <3> QED BY <2>2, <3>1 DEF Quiet
  <2>3. CASE \E k \in DOMAIN b.queue : b.queue[k].snap = last /\ Quiet(b.queue, k)
    <3>1. PICK k \in 1 .. Len(b.queue) : b.queue[k].snap = last /\ Quiet(b.queue, k)
      BY <1>1, <2>3
    <3>2. CASE k = 1
      <4>1. Quiet(q, 0)
        BY <2>2, <3>1, <3>2
      <4>2. 1 \in DOMAIN c.sending /\ c.sending[1].snap = last
        BY <1>3, <1>5, <1>7, <3>1, <3>2
      <4> QED BY <1>7, <4>1, <4>2 DEF Arriving
    <3>3. CASE k # 1
      <4>1. k - 1 \in DOMAIN q /\ q[k - 1] = b.queue[k] /\ k - 1 \in Nat /\ (k - 1) + 1 >= k
        <5>1. k - 1 \in 1 .. Len(q) /\ (k - 1) + 1 = k
          BY <1>1, <1>2, <3>1, <3>3
        <5> QED BY <1>2, <1>4, <5>1
      <4>2. Quiet(q, k - 1)
        BY <2>2, <3>1, <4>1
      <4> QED BY <1>7, <3>1, <4>1, <4>2 DEF Arriving
    <3> QED BY <3>2, <3>3
  <2>4. CASE /\ Quiet(b.queue, 0)
             /\ \/ \E k \in DOMAIN b.sending : b.sending[k].snap = last
                \/ Quiet(b.sending, 0) /\ shown = last
    <3>1. Quiet(q, 0)
      BY <2>2, <2>4
    <3>2. shown = last
      <4>1. DOMAIN b.sending = {}
        BY EmptySeq
      <4> QED BY <2>4, <4>1
    <3>3. Quiet(c.sending, 0)
      <4>1. b.queue[1].snap = NoSnap
        BY <1>11, <2>4 DEF Quiet
      <4> QED BY <1>3, <1>5, <1>7, <4>1 DEF Quiet
    <3> QED BY <1>7, <3>1, <3>2, <3>3 DEF Arriving
  <2> QED BY <2>1, <2>3, <2>4 DEF Arriving
<1> QED BY <1>9, <1>12, <1>13, <1>14 DEF Dashboard

LEMMA SentClient ==
  ASSUME NEW b, ClientInv(b), NEW stage \in {"open", "mute"}, b.stage = "open",
         NEW c, c = [b EXCEPT !.sending = <<>>, !.stage = stage]
  PROVE  /\ ClientInv(c) /\ c.stage = stage /\ c.queue = b.queue /\ c.sending = <<>>
         /\ c.hello = b.hello /\ c.dropped = b.dropped /\ c.stale = b.stale
         /\ Coming(c) = Coming(b) /\ Taken(c) = {} /\ Snaps(c) \subseteq Snaps(b)
<1>1. b \in Client
  BY DEF ClientInv
<1>2. <<>> \in Seq(Offered) /\ Len(<<>>) = 0 /\ DOMAIN <<>> = {}
  BY EmptySeq
<1>3. /\ c.stage = stage /\ c.queue = b.queue /\ c.sending = <<>> /\ c.hello = b.hello
      /\ c.offered = b.offered /\ c.taken = b.taken /\ c.dropped = b.dropped
      /\ c.stale = b.stale
  BY <1>1 DEF Client
<1>4. c \in Client
  BY <1>1, <1>2 DEF Client
<1>5. ClientInv(c)
  BY <1>2, <1>3, <1>4 DEF ClientInv
<1>6. Coming(c) = Coming(b) /\ Taken(c) = {}
  BY <1>2, <1>3 DEF Coming, Taken
<1> QED BY <1>3, <1>5, <1>6 DEF Snaps

LEMMA ShowDashboard ==
  ASSUME NEW shown \in Snapshot, NEW last \in Snapshot, NEW b,
         Dashboard(b, shown, last), b.sending # <<>>,
         NEW c, c = [b EXCEPT !.sending = <<>>],
         NEW v, v = IF b.sending[1].snap = NoSnap THEN shown ELSE b.sending[1].snap
  PROVE  /\ Dashboard(c, v, last) /\ Snaps(c) \subseteq Snaps(b)
         /\ b.sending[1].snap \in Snaps(b) /\ Follows(shown, b.sending[1].snap)
         /\ v \in Snapshot
<1> DEFINE snap == b.sending[1].snap
<1>1. ClientInv(b) /\ b.stage = "open" /\ b \in Client /\ b.sending \in Seq(Offered)
  BY DEF Dashboard, ClientInv, Client
<1>2. DOMAIN b.sending = {1} /\ snap \in Snapshot
  <2>1. Len(b.sending) \in Nat \ {0} /\ Len(b.sending) <= 1
    BY <1>1, EmptySeq DEF ClientInv
  <2>2. DOMAIN b.sending = 1 .. Len(b.sending)
    BY <1>1, LenProperties
  <2>3. DOMAIN b.sending = {1} /\ 1 \in 1 .. Len(b.sending)
    BY <2>1, <2>2
  <2> QED BY <1>1, <2>3, ClientTypes
<1>3. Taken(b) = {snap}
  BY <1>2 DEF Taken
<1>4. c = [b EXCEPT !.sending = <<>>, !.stage = "open"]
  BY <1>1 DEF Client
<1>5. /\ ClientInv(c) /\ c.stage = "open" /\ c.queue = b.queue /\ c.sending = <<>>
      /\ c.dropped = b.dropped /\ c.stale = b.stale
      /\ Coming(c) = Coming(b) /\ Taken(c) = {} /\ Snaps(c) \subseteq Snaps(b)
  BY <1>1, <1>4, SentClient, ZenonT(30)
<1>6. c.hello = b.hello
  BY <1>1 DEF Client
<1>7. /\ Follows(shown, snap) /\ Follows(snap, last) /\ snap \in Snaps(b)
      /\ \A y \in Coming(b) : Follows(snap, y)
  BY <1>3 DEF Dashboard, Ordered, Snaps
<1>8. v \in Snapshot /\ (v = snap \/ (snap = NoSnap /\ v = shown))
  BY <1>2
<1>9. c.hello = NoSnap
  BY <1>5 DEF ClientInv
<1>10. Snaps(c) = Coming(b) \cup {NoSnap}
  BY <1>5, <1>9 DEF Snaps
<1>11. Follows(v, last) /\ \A y \in Snaps(c) : Follows(v, y) /\ Follows(y, last)
  <2>1. \A y \in Coming(b) : Follows(shown, y) /\ Follows(y, last) /\ Follows(snap, y)
    BY <1>7 DEF Dashboard, Ordered, Snaps
  <2>2. Follows(shown, last) /\ Follows(v, NoSnap) /\ Follows(NoSnap, last)
    <3>1. Follows(shown, last)
      BY DEF Dashboard, Ordered
    <3>2. Follows(NoSnap, last)
      BY <3>1, GoneDashboard DEF Dashboard, Ordered
    <3> QED BY <3>1, <3>2 DEF Follows
  <2> HIDE DEF snap
  <2> QED BY <1>7, <1>8, <1>10, <2>1, <2>2
<1>12. Ordered(c, v, last)
  <2>1. \A i, j \in DOMAIN c.queue : i < j => Follows(c.queue[i].snap, c.queue[j].snap)
    BY <1>5 DEF Dashboard, Ordered
  <2> QED BY <1>5, <1>11, <2>1 DEF Ordered
<1>13. Fresh(c, v, last)
  <2> SUFFICES ASSUME c.dropped = 0, ~c.stale, last # NoSnap PROVE Arriving(c, v, last)
    BY DEF Fresh
  <2>1. Arriving(b, shown, last)
    BY <1>1, <1>5 DEF Dashboard, Fresh
  <2>2. CASE \E k \in DOMAIN b.queue : b.queue[k].snap = last /\ Quiet(b.queue, k)
    BY <1>5, <2>2 DEF Arriving
  <2>3. CASE /\ Quiet(b.queue, 0)
             /\ \/ \E k \in DOMAIN b.sending : b.sending[k].snap = last
                \/ Quiet(b.sending, 0) /\ shown = last
    <3>1. Quiet(c.sending, 0)
      <4>1. DOMAIN c.sending = {}
        BY <1>5, EmptySeq
      <4> QED BY <4>1 DEF Quiet
    <3>2. v = last
      <4>1. CASE \E k \in DOMAIN b.sending : b.sending[k].snap = last
        <5>1. snap = last
          BY <1>2, <4>1
        <5> HIDE DEF snap
        <5> QED BY <1>8, <2>3, <5>1
      <4>2. CASE Quiet(b.sending, 0) /\ shown = last
        <5>1. snap = NoSnap
          BY <1>2, <4>2 DEF Quiet
        <5> QED BY <4>2, <5>1
      <4> QED BY <2>3, <4>1, <4>2
    <3> QED BY <1>5, <2>3, <3>1, <3>2 DEF Arriving
  <2> QED BY <2>1, <2>2, <2>3 DEF Arriving
<1> QED BY <1>5, <1>7, <1>8, <1>12, <1>13 DEF Dashboard

\* The client stays in the hub, though nothing is sent to it any more.
LEMMA MuteDashboard ==
  ASSUME NEW shown \in Snapshot, NEW last \in Snapshot, NEW b,
         Dashboard(b, shown, last), b.stage = "open",
         NEW c, c = [b EXCEPT !.sending = <<>>, !.stage = "mute"]
  PROVE  Dashboard(c, shown, last) /\ Snaps(c) \subseteq Snaps(b)
<1>1. /\ ClientInv(c) /\ c.stage = "mute" /\ c.queue = b.queue
      /\ Coming(c) = Coming(b) /\ Taken(c) = {} /\ Snaps(c) \subseteq Snaps(b)
  BY SentClient, ZenonT(30) DEF Dashboard
<1>2. Ordered(c, shown, last)
  BY <1>1 DEF Dashboard, Ordered
<1>3. Fresh(c, shown, last)
  BY <1>1 DEF Fresh
<1> QED BY <1>1, <1>2, <1>3 DEF Dashboard

-----------------------------------------------------------------------------
(* The queue, by what it gives and takes back.                              *)

LEMMA Flagged ==
  ASSUME NEW x \in Message, NEW y, y = [x EXCEPT !.redelivered = TRUE]
  PROVE  y \in Message /\ y.redelivered /\ y.no = x.no
BY DEF Message

LEMMA QueuedLess ==
  ASSUME NEW R \in SUBSET Message, NEW D, NEW n \in Nat, Queued(R, D, n),
         NEW R2 \in SUBSET R, NEW D2 \in SUBSET (D \cup {NoSnap})
  PROVE  Queued(R2, D2, n)
<1>1. \A m \in R : m.no > 0
  BY FeedAssumption DEF Message
<1>2. \A x \in D2 : x \in D \/ x.no = 0
  BY NoSnapIsNone
<1> QED BY <1>1, <1>2 DEF Queued

\* The next message is delivered.
LEMMA QueuedNext ==
  ASSUME NEW R \in SUBSET Message, NEW D, NEW n \in Nat, Queued(R, D, n),
         NEW m \in R, \A x \in R : m.no <= x.no,
         NEW D2 \in SUBSET (D \cup {m, NoSnap})
  PROVE  Queued(R \ {m}, D2, n)
<1>1. \A x \in R : x.no \in Nat /\ x.no > 0
  BY FeedAssumption DEF Message
<1>2. \A x \in D2 : x \in D \/ x = m \/ x.no = 0
  BY NoSnapIsNone
<1>3. ASSUME NEW u \in R \ {m}, ~u.redelivered PROVE m.no < u.no
  <2>1. m.no # u.no
    BY <1>3 DEF Queued
  <2> QED BY <1>1, <2>1
<1> QED BY <1>1, <1>2, <1>3 DEF Queued

\* Messages delivered are ready again, and say so.
LEMMA QueuedBack ==
  ASSUME NEW R \in SUBSET Message, NEW D, NEW n \in Nat, Queued(R, D, n),
         NEW B \in SUBSET Message, B \subseteq D,
         NEW R2, R2 \subseteq R \cup {[x EXCEPT !.redelivered = TRUE] : x \in B},
         NEW D2 \in SUBSET (D \cup {NoSnap})
  PROVE  Queued(R2, D2, n) /\ R2 \subseteq Message
<1>1. ASSUME NEW x \in R2
      PROVE  /\ x \in R \/ (x.redelivered /\ \E y \in B : x.no = y.no)
             /\ x \in Message
  <2>1. CASE x \in R
    BY <2>1
  <2>2. CASE x \in {[y EXCEPT !.redelivered = TRUE] : y \in B}
    <3>1. PICK y \in B : x = [y EXCEPT !.redelivered = TRUE]
      BY <2>2
    <3>2. x \in Message /\ x.redelivered /\ x.no = y.no
      BY <3>1, Flagged
    <3> QED BY <3>2
  <2> QED BY <2>1, <2>2
<1>2. \A x \in Message : x.no \in Nat /\ x.no > 0
  BY FeedAssumption DEF Message
<1>3. \A x \in D2 : x \in D \/ x.no = 0
  BY NoSnapIsNone
<1>4. ASSUME NEW m \in R2, ~m.redelivered
      PROVE  (\A x \in D2 : x.no < m.no) /\ \A x \in R2 : x.no = m.no => x = m
  <2>1. m \in R
    BY <1>1, <1>4
  <2>2. \A x \in D : x.no < m.no
    BY <1>4, <2>1 DEF Queued
  <2>3. \A x \in D2 : x.no < m.no
    BY <1>2, <1>3, <2>1, <2>2
  <2>4. ASSUME NEW x \in R2, x.no = m.no PROVE x = m
    <3>1. x \in R
      BY <1>1, <1>2, <2>1, <2>2, <2>4
    <3> QED BY <1>4, <2>1, <2>4, <3>1 DEF Queued
  <2> QED BY <2>3, <2>4
<1>5. \A x \in R2 \cup D2 : x.no <= n
  <2>1. \A x \in R \cup D : x.no <= n
    BY DEF Queued
  <2> QED BY <1>1, <1>3, <2>1
<1> QED BY <1>1, <1>4, <1>5 DEF Queued

\* A message is published.
LEMMA QueuedNew ==
  ASSUME NEW R \in SUBSET Message, NEW D, NEW n \in Nat, Queued(R, D, n),
         \A x \in D : x.no \in Nat,
         NEW m \in Message, m.no = n + 1,
         NEW R2 \in SUBSET (R \cup {m})
  PROVE  Queued(R2, D, n + 1)
<1>1. \A x \in Message : x.no \in Nat
  BY FeedAssumption DEF Message
<1>2. \A x \in R \cup D : x.no <= n
  BY DEF Queued
<1>3. ASSUME NEW u \in R2, ~u.redelivered
      PROVE  (\A x \in D : x.no < u.no) /\ \A x \in R2 : x.no = u.no => x = u
  <2>1. CASE u \in R
    <3>1. u.no # m.no
      BY <1>1, <1>2, <2>1
    <3> QED BY <1>3, <2>1, <3>1 DEF Queued
  <2>2. CASE u = m
    BY <1>1, <1>2, <2>2
  <2> QED BY <2>1, <2>2
<1>4. \A x \in R2 \cup D : x.no <= n + 1
  BY <1>1, <1>2
<1> QED BY <1>3, <1>4 DEF Queued

-----------------------------------------------------------------------------
(* The dashboards together.                                                 *)

LEMMA OneDashboard ==
  ASSUME TypeOK, DashboardsInv, NEW d \in Dashboards, NEW c, NEW v \in Snapshot,
         Dashboard(c, v, latest),
         Snaps(c) \cup {v} \subseteq Snaps(client[d]) \cup {view[d], latest, NoSnap},
         client' = [client EXCEPT ![d] = c], view' = [view EXCEPT ![d] = v],
         latest' = latest
  PROVE  /\ DashboardsInv' /\ client' \in [Dashboards -> Client]
         /\ view' \in [Dashboards -> Snapshot]
         /\ OnScreen' \subseteq OnScreen \cup {latest, NoSnap}
<1>1. c \in Client
  BY DEF Dashboard, ClientInv
<1>2. client' \in [Dashboards -> Client] /\ view' \in [Dashboards -> Snapshot]
  BY <1>1 DEF TypeOK
<1>3. \A e \in Dashboards : /\ client'[e] = IF e = d THEN c ELSE client[e]
                            /\ view'[e] = IF e = d THEN v ELSE view[e]
  BY DEF TypeOK
<1>4. \A e \in Dashboards : Dashboard(client'[e], view'[e], latest')
  BY <1>3 DEF DashboardsInv
<1>5. \A e \in Dashboards : Snaps(client'[e]) \cup {view'[e]}
          \subseteq Snaps(client[e]) \cup {view[e], latest, NoSnap}
  BY <1>3
<1>6. OnScreen' = UNION {Snaps(client'[e]) \cup {view'[e]} : e \in Dashboards}
  BY DEF OnScreen
<1>7. OnScreen' \subseteq OnScreen \cup {latest, NoSnap}
  BY <1>5, <1>6 DEF OnScreen
<1> QED BY <1>2, <1>4, <1>7 DEF DashboardsInv

LEMMA BroadcastDashboards ==
  ASSUME TypeOK, DashboardsInv, NEW snap \in Snapshot, Broadcast(snap), view' = view,
         latest' \in Snapshot, snap = latest' \/ (snap = NoSnap /\ latest' = latest),
         \A x \in OnScreen : Follows(x, snap) /\ Follows(x, latest'),
         Follows(snap, latest')
  PROVE  /\ DashboardsInv' /\ client' \in [Dashboards -> Client]
         /\ OnScreen' \subseteq OnScreen \cup {snap}
<1>1. client' = [d \in Dashboards |->
               IF InHub(client[d]) THEN Offer(client[d], snap) ELSE client[d]]
  BY DEF Broadcast
<1> DEFINE new == latest'
<1>2. new \in Snapshot /\ Follows(snap, new) /\ (snap = new \/ (snap = NoSnap /\ new = latest))
  OBVIOUS
<1>3. ASSUME NEW d \in Dashboards
      PROVE  /\ Dashboard(client'[d], view[d], new) /\ client'[d] \in Client
             /\ Snaps(client'[d]) \subseteq Snaps(client[d]) \cup {snap}
  <2> DEFINE c == client[d]
             v == view[d]
  <2>1. /\ v \in Snapshot /\ latest \in Snapshot
        /\ Dashboard(c, v, latest)
    BY DEF TypeOK, DashboardsInv
  <2>2. \A x \in Snaps(c) \cup {v} : x \in OnScreen
    BY DEF OnScreen
  <2>3. \A x \in Snaps(c) \cup {v} : Follows(x, snap) /\ Follows(x, new)
    BY <2>2
  <2>4. client'[d] = IF InHub(c) THEN Offer(c, snap) ELSE c
    BY <1>1
  <2> HIDE DEF c, v, new
  <2>5. CASE InHub(c)
    <3>1. ClientInv(c) /\ Ordered(c, v, latest) /\ Fresh(c, v, latest)
      BY <2>1 DEF Dashboard
    <3>2. ClientInv(Offer(c, snap))
      BY <2>5, <3>1, OfferInv
    <3>3. /\ Ordered(Offer(c, snap), v, new)
          /\ Snaps(Offer(c, snap)) \subseteq Snaps(c) \cup {snap}
      BY <1>2, <2>1, <2>3, <3>1, OfferOrdered
    <3>4. Fresh(Offer(c, snap), v, new)
      BY <1>2, <2>1, <3>1, OfferFresh
    <3>5. Offer(c, snap) \in Client
      BY <3>2 DEF ClientInv
    <3> QED BY <2>4, <2>5, <3>2, <3>3, <3>4, <3>5 DEF Dashboard, c, v
  <2>6. CASE ~InHub(c)
    <3>1. ClientInv(c) /\ Ordered(c, v, latest)
      BY <2>1 DEF Dashboard
    <3>2. Ordered(c, v, new)
      BY <2>3, <3>1 DEF Ordered
    <3>3. Fresh(c, v, new)
      BY <2>6 DEF Fresh, InHub
    <3> QED BY <2>4, <2>6, <3>1, <3>2, <3>3 DEF Dashboard, ClientInv, c, v
  <2> QED BY <2>5, <2>6
<1>4. client' \in [Dashboards -> Client]
  BY <1>1, <1>3
<1>5. DashboardsInv'
  BY <1>3 DEF DashboardsInv
<1>6. OnScreen' = UNION {Snaps(client'[e]) \cup {view'[e]} : e \in Dashboards}
  BY DEF OnScreen
<1>7. OnScreen' \subseteq OnScreen \cup {snap}
  BY <1>3, <1>6 DEF OnScreen
<1> QED BY <1>4, <1>5, <1>7

-----------------------------------------------------------------------------
(* The steps.                                                               *)

FlowInv == TypeOK /\ DashboardsInv /\ QueueInv

LEMMA FlowTypes ==
  ASSUME FlowInv
  PROVE  /\ sent \in Nat /\ ready \subseteq Message /\ held \subseteq Message
         /\ InHand \subseteq Message /\ latest \in Snapshot
         /\ OnScreen \subseteq Snapshot /\ Delivered \subseteq Snapshot
<1>1. /\ sent \in Nat /\ ready \subseteq Message /\ held \subseteq Message
      /\ InHand \subseteq Message /\ latest \in Snapshot
  BY FeedAssumption DEF FlowInv, TypeOK, InHand
<1>2. ASSUME NEW d \in Dashboards PROVE Snaps(client[d]) \cup {view[d]} \subseteq Snapshot
  <2>1. ClientInv(client[d]) /\ view[d] \in Snapshot
    BY DEF FlowInv, TypeOK, DashboardsInv, Dashboard
  <2> QED BY <2>1, ClientTypes DEF Snaps, Coming, Taken
<1>3. OnScreen \subseteq Snapshot
  BY <1>2 DEF OnScreen
<1> QED BY <1>1, <1>3 DEF Delivered, Snapshot

\* A step of the hub alone.
LEMMA HubFlow ==
  ASSUME FlowInv, DashboardsInv', client' \in [Dashboards -> Client],
         view' \in [Dashboards -> Snapshot],
         OnScreen' \subseteq OnScreen \cup {latest, NoSnap},
         UNCHANGED <<sent, queueVars, apiVars>>
  PROVE  FlowInv'
<1>1. UNCHANGED <<sent, ready, held, tasks, session, rows, latest>>
  BY DEF queueVars, oldConn, apiVars
<1>2. TypeOK'
  BY <1>1 DEF FlowInv, TypeOK
<1>3. Delivered' \subseteq Delivered \cup {NoSnap}
  BY <1>1 DEF Delivered, InHand
<1>4. Queued(ready, Delivered', sent)
  BY <1>3, FlowTypes, QueuedLess DEF FlowInv, QueueInv
<1>5. QueueInv'
  BY <1>1, <1>4 DEF QueueInv
<1> QED BY <1>2, <1>5 DEF FlowInv

LEMMA JoinFlow == ASSUME FlowInv, NEW d \in Dashboards, Join(d) PROVE FlowInv'
<1> DEFINE c == [Gone EXCEPT !.stage = "accepting", !.hello = latest]
<1>1. /\ client' = [client EXCEPT ![d] = c] /\ view' = [view EXCEPT ![d] = view[d]]
      /\ latest' = latest /\ UNCHANGED <<sent, queueVars, apiVars>>
  BY DEF Join, apiVars, FlowInv, TypeOK
<1>2. view[d] \in Snapshot /\ latest \in Snapshot /\ Follows(view[d], latest)
  BY DEF FlowInv, TypeOK, DashboardsInv, Dashboard, Ordered
<1>3. Dashboard(c, view[d], latest) /\ Snaps(c) = {latest}
  BY <1>2, JoinDashboard
<1> HIDE DEF c
<1>4. /\ DashboardsInv' /\ client' \in [Dashboards -> Client]
      /\ view' \in [Dashboards -> Snapshot]
      /\ OnScreen' \subseteq OnScreen \cup {latest, NoSnap}
  BY <1>1, <1>2, <1>3, OneDashboard DEF FlowInv
<1> QED BY <1>1, <1>4, HubFlow

LEMMA AcceptFlow == ASSUME FlowInv, NEW d \in Dashboards, Accept(d) PROVE FlowInv'
<1> DEFINE b == client[d]
           c == Admitted(b.hello, latest)
<1>1. /\ client' = [client EXCEPT ![d] = c] /\ view' = [view EXCEPT ![d] = view[d]]
      /\ latest' = latest /\ UNCHANGED <<sent, queueVars, apiVars>>
  BY DEF Accept, Admitted, apiVars, FlowInv, TypeOK
<1>2. view[d] \in Snapshot /\ latest \in Snapshot /\ Dashboard(b, view[d], latest)
  BY DEF FlowInv, TypeOK, DashboardsInv
<1>3. Dashboard(c, view[d], latest) /\ Snaps(c) \subseteq Snaps(b) \cup {NoSnap}
  <2> HIDE DEF b
  <2> QED BY <1>2, AcceptDashboard
<1> HIDE DEF c
<1>4. /\ DashboardsInv' /\ client' \in [Dashboards -> Client]
      /\ view' \in [Dashboards -> Snapshot]
      /\ OnScreen' \subseteq OnScreen \cup {latest, NoSnap}
  BY <1>1, <1>2, <1>3, OneDashboard DEF FlowInv
<1> QED BY <1>1, <1>4, HubFlow

LEMMA DisconnectFlow == ASSUME FlowInv, NEW d \in Dashboards, Disconnect(d) PROVE FlowInv'
<1>1. /\ client' = [client EXCEPT ![d] = Gone] /\ view' = [view EXCEPT ![d] = view[d]]
      /\ latest' = latest /\ UNCHANGED <<sent, queueVars, apiVars>>
  BY DEF Disconnect, apiVars, FlowInv, TypeOK
<1>2. view[d] \in Snapshot /\ latest \in Snapshot /\ Follows(view[d], latest)
  BY DEF FlowInv, TypeOK, DashboardsInv, Dashboard, Ordered
<1>3. Dashboard(Gone, view[d], latest) /\ Snaps(Gone) = {NoSnap}
  BY <1>2, GoneDashboard
<1>4. /\ DashboardsInv' /\ client' \in [Dashboards -> Client]
      /\ view' \in [Dashboards -> Snapshot]
      /\ OnScreen' \subseteq OnScreen \cup {latest, NoSnap}
  BY <1>1, <1>2, <1>3, OneDashboard DEF FlowInv
<1> QED BY <1>1, <1>4, HubFlow

LEMMA TakeFlow == ASSUME FlowInv, NEW d \in Dashboards, Take(d) PROVE FlowInv'
<1> DEFINE b == client[d]
           c == [b EXCEPT !.sending = <<Head(b.queue)>>, !.queue = Tail(b.queue),
                          !.taken = b.taken + 1]
<1>1. /\ client' = [client EXCEPT ![d] = c] /\ view' = [view EXCEPT ![d] = view[d]]
      /\ latest' = latest /\ UNCHANGED <<sent, queueVars, apiVars>>
      /\ b.stage = "open" /\ b.sending = <<>> /\ b.queue # <<>>
  BY DEF Take, apiVars, FlowInv, TypeOK, Client
<1>2. view[d] \in Snapshot /\ latest \in Snapshot /\ Dashboard(b, view[d], latest)
  BY DEF FlowInv, TypeOK, DashboardsInv
<1>3. Dashboard(c, view[d], latest) /\ Snaps(c) \subseteq Snaps(b)
  <2> HIDE DEF b
  <2> QED BY <1>1, <1>2, TakeDashboard
<1> HIDE DEF c
<1>4. /\ DashboardsInv' /\ client' \in [Dashboards -> Client]
      /\ view' \in [Dashboards -> Snapshot]
      /\ OnScreen' \subseteq OnScreen \cup {latest, NoSnap}
  BY <1>1, <1>2, <1>3, OneDashboard DEF FlowInv
<1> QED BY <1>1, <1>4, HubFlow

\* What is shown next, when it is no redelivery, is newer than what is shown.
LEMMA ShowFlow ==
  ASSUME FlowInv, NEW d \in Dashboards, Show(d)
  PROVE  /\ FlowInv'
         /\ \A e \in Dashboards : view'[e] # view[e] => Follows(view[e], view'[e]) /\ view'[e] # NoSnap
<1> DEFINE b == client[d]
           c == [b EXCEPT !.sending = <<>>]
           snap == b.sending[1].snap
           v == IF snap = NoSnap THEN view[d] ELSE snap
<1>1. /\ client' = [client EXCEPT ![d] = c] /\ view' = [view EXCEPT ![d] = v]
      /\ latest' = latest /\ UNCHANGED <<sent, queueVars, apiVars>>
      /\ b.sending # <<>>
  BY DEF Show, apiVars, FlowInv, TypeOK
<1>2. view[d] \in Snapshot /\ latest \in Snapshot /\ Dashboard(b, view[d], latest)
  BY DEF FlowInv, TypeOK, DashboardsInv
<1>3. /\ Dashboard(c, v, latest) /\ Snaps(c) \subseteq Snaps(b)
      /\ snap \in Snaps(b) /\ Follows(view[d], snap) /\ v \in Snapshot
  <2> HIDE DEF b
  <2> QED BY <1>1, <1>2, ShowDashboard
<1>4. v = view[d] \/ (v = snap /\ snap # NoSnap)
  OBVIOUS
<1>5. Snaps(c) \cup {v} \subseteq Snaps(b) \cup {view[d]}
  BY <1>3, <1>4
<1> HIDE DEF c, v, snap
<1>6. /\ DashboardsInv' /\ client' \in [Dashboards -> Client]
      /\ view' \in [Dashboards -> Snapshot]
      /\ OnScreen' \subseteq OnScreen \cup {latest, NoSnap}
  BY <1>1, <1>2, <1>3, <1>5, OneDashboard DEF FlowInv
<1>7. FlowInv'
  BY <1>1, <1>6, HubFlow
<1>8. \A e \in Dashboards : view'[e] # view[e] => e = d /\ view'[e] = v
  BY <1>1 DEF FlowInv, TypeOK
<1> QED BY <1>3, <1>4, <1>7, <1>8

LEMMA SendRaisesFlow == ASSUME FlowInv, NEW d \in Dashboards, SendRaises(d) PROVE FlowInv'
<1> DEFINE b == client[d]
           c == [b EXCEPT !.sending = <<>>, !.stage = "mute"]
<1>1. /\ client' = [client EXCEPT ![d] = c] /\ view' = [view EXCEPT ![d] = view[d]]
      /\ latest' = latest /\ UNCHANGED <<sent, queueVars, apiVars>>
      /\ b.stage = "open"
  BY DEF SendRaises, apiVars, FlowInv, TypeOK, Client
<1>2. view[d] \in Snapshot /\ latest \in Snapshot /\ Dashboard(b, view[d], latest)
  BY DEF FlowInv, TypeOK, DashboardsInv
<1>3. Dashboard(c, view[d], latest) /\ Snaps(c) \subseteq Snaps(b)
  <2> HIDE DEF b
  <2> QED BY <1>1, <1>2, MuteDashboard
<1> HIDE DEF c
<1>4. /\ DashboardsInv' /\ client' \in [Dashboards -> Client]
      /\ view' \in [Dashboards -> Snapshot]
      /\ OnScreen' \subseteq OnScreen \cup {latest, NoSnap}
  BY <1>1, <1>2, <1>3, OneDashboard DEF FlowInv
<1> QED BY <1>1, <1>4, HubFlow

LEMMA PollFlow == ASSUME FlowInv, Poll PROVE FlowInv'
<1>1. Broadcast(NoSnap) /\ UNCHANGED <<sent, queueVars, apiVars, view>>
  BY DEF Poll
<1>2. latest' = latest /\ latest \in Snapshot /\ NoSnap \in Snapshot
  BY <1>1, NoSnapIsNone DEF apiVars, FlowInv, TypeOK
<1>3. ASSUME NEW x \in OnScreen PROVE Follows(x, NoSnap) /\ Follows(x, latest)
  <2>1. PICK d \in Dashboards : x \in Snaps(client[d]) \cup {view[d]}
    BY DEF OnScreen
  <2>2. Ordered(client[d], view[d], latest)
    BY DEF FlowInv, DashboardsInv, Dashboard
  <2> QED BY <2>1, <2>2 DEF Ordered, Follows
<1>4. Follows(NoSnap, latest)
  <2>1. Follows(latest, latest)
    BY DEF Follows
  <2> QED BY <1>2, <2>1, GoneDashboard DEF Dashboard, Ordered
<1>5. /\ DashboardsInv' /\ client' \in [Dashboards -> Client]
      /\ OnScreen' \subseteq OnScreen \cup {NoSnap}
  BY <1>1, <1>2, <1>3, <1>4, BroadcastDashboards DEF FlowInv
<1>6. view' \in [Dashboards -> Snapshot]
  BY <1>1 DEF FlowInv, TypeOK
<1> QED BY <1>1, <1>5, <1>6, HubFlow

\* A step of the broker or of the consumer that no dashboard sees.
LEMMA CalmFlow ==
  ASSUME FlowInv, UNCHANGED <<latest, client, view>>,
         sent' \in 0 .. MaxSent, ready' \subseteq Message, held' \subseteq Message,
         tasks' \subseteq Message \X Nat, session' \in Nat, rows' \in [1 .. MaxSent -> Nat],
         Queued(ready', Delivered', sent')
  PROVE  FlowInv'
<1>1. TypeOK'
  BY DEF FlowInv, TypeOK
<1>2. DashboardsInv'
  BY DEF FlowInv, DashboardsInv
<1> QED BY <1>1, <1>2 DEF FlowInv, QueueInv

LEMMA CalmDelivered ==
  ASSUME UNCHANGED <<latest, client, view>>
  PROVE  Delivered' = {latest} \cup held' \cup InHand' \cup OnScreen
<1>1. OnScreen' = OnScreen
  BY DEF OnScreen
<1> QED BY <1>1 DEF Delivered

LEMMA UnackedInHand == Unacked \subseteq InHand
BY DEF Unacked, InHand

LEMMA WithoutIsLess ==
  ASSUME NEW B, NEW shared
  PROVE  QueueWithout(B, shared) \subseteq ready \cup {[x EXCEPT !.redelivered = TRUE] : x \in B}
BY DEF QueueWithout, Requeued

LEMMA PublishFlow ==
  ASSUME FlowInv, NEW kind \in {"metrics", "event"}, Publish(kind) PROVE FlowInv'
<1> DEFINE m == [no |-> sent + 1, kind |-> kind, redelivered |-> FALSE]
<1>1. /\ sent < MaxSent /\ sent' = sent + 1 /\ ready' \subseteq ready \cup {m}
      /\ UNCHANGED <<held, tasks, session, rows, latest, client, view>>
  BY DEF Publish, oldConn, apiVars, hubVars
<1>2. sent \in Nat /\ sent + 1 \in 1 .. MaxSent /\ sent' \in 0 .. MaxSent
  BY <1>1, FeedAssumption DEF FlowInv, TypeOK
<1>3. m \in Message /\ m.no = sent + 1
  BY <1>2 DEF Message
<1> HIDE DEF m
<1>4. Delivered' = Delivered
  BY <1>1, CalmDelivered DEF Delivered, InHand
<1>5. \A x \in Delivered : x.no \in Nat
  BY FlowTypes, SnapshotType
<1>6. Queued(ready', Delivered, sent + 1)
  BY <1>1, <1>2, <1>3, <1>5, FlowTypes, QueuedNew DEF FlowInv, QueueInv
<1>7. ready' \subseteq Message
  BY <1>1, <1>3, FlowTypes
<1> QED BY <1>1, <1>2, <1>4, <1>6, <1>7, CalmFlow DEF FlowInv, TypeOK

LEMMA DeadTakesFlow == ASSUME FlowInv, DeadTakes PROVE FlowInv'
<1>1. PICK m \in ready : /\ IsNext(m) /\ held' = held \cup {m} /\ ready' = ready \ {m}
                         /\ UNCHANGED <<sent, tasks, session, rows, latest, client, view>>
  BY DEF DeadTakes, apiVars, hubVars
<1>2. Delivered' \subseteq Delivered \cup {m, NoSnap}
  BY <1>1, CalmDelivered DEF Delivered, InHand
<1>3. \A x \in ready : m.no <= x.no
  BY <1>1 DEF IsNext
<1>4. Queued(ready \ {m}, Delivered', sent)
  BY <1>2, <1>3, FlowTypes, QueuedNext DEF FlowInv, QueueInv
<1>5. held' \subseteq Message /\ ready' \subseteq Message
  BY <1>1, FlowTypes
<1> QED BY <1>1, <1>4, <1>5, CalmFlow DEF FlowInv, TypeOK

\* The connection is lost, to the broker or to the api: what it held is
\* ready again, or gone with the queue.
LEMMA BackFlow ==
  ASSUME FlowInv, NEW B \in SUBSET Delivered, B \subseteq Message, NEW shared,
         ready' = QueueWithout(B, shared), held' \subseteq held,
         UNCHANGED <<sent, tasks, session, rows, latest, client, view>>
  PROVE  FlowInv'
<1>1. ready' \subseteq ready \cup {[x EXCEPT !.redelivered = TRUE] : x \in B}
  BY WithoutIsLess
<1>2. Delivered' \subseteq Delivered \cup {NoSnap}
  BY CalmDelivered DEF Delivered, InHand
<1>3. Queued(ready', Delivered', sent) /\ ready' \subseteq Message
  BY <1>1, <1>2, FlowTypes, QueuedBack DEF FlowInv, QueueInv
<1> QED BY <1>3, CalmFlow DEF FlowInv, TypeOK

LEMMA DeadExpiresFlow == ASSUME FlowInv, DeadExpires PROVE FlowInv'
<1>1. /\ ready' = QueueWithout(held, up) /\ held' \subseteq held
      /\ UNCHANGED <<sent, tasks, session, rows, latest, client, view>>
  BY DEF DeadExpires, apiVars, hubVars
<1>2. held \subseteq Delivered /\ held \subseteq Message
  BY FlowTypes DEF Delivered
<1> QED BY <1>1, <1>2, BackFlow

LEMMA BreakFlow == ASSUME FlowInv, Break PROVE FlowInv'
<1>1. /\ ready' = QueueWithout(Unacked, dead) /\ held' \subseteq held
      /\ UNCHANGED <<sent, tasks, session, rows, latest, client, view>>
  BY DEF Break, oldConn, hubVars
<1>2. Unacked \subseteq Delivered /\ Unacked \subseteq Message
  BY FlowTypes, UnackedInHand DEF Delivered
<1> QED BY <1>1, <1>2, BackFlow

\* No more is ready, and nothing is in hand that was not.
LEMMA LessFlow ==
  ASSUME FlowInv, ready' = ready, held' \subseteq held \cup InHand, tasks' \subseteq tasks,
         session' \in Nat, rows' \in [1 .. MaxSent -> Nat],
         UNCHANGED <<sent, latest, client, view>>
  PROVE  FlowInv'
<1>1. InHand' \subseteq InHand
  BY DEF InHand
<1>2. Delivered' \subseteq Delivered \cup {NoSnap}
  BY <1>1, CalmDelivered DEF Delivered
<1>3. Queued(ready, Delivered', sent)
  BY <1>2, FlowTypes, QueuedLess DEF FlowInv, QueueInv
<1>4. held' \subseteq Message /\ tasks' \subseteq Message \X Nat /\ ready' \subseteq Message
  BY FlowTypes DEF FlowInv, TypeOK
<1> QED BY <1>3, <1>4, CalmFlow DEF FlowInv, TypeOK

LEMMA HalfBreakFlow == ASSUME FlowInv, HalfBreak PROVE FlowInv'
<1>1. /\ ready' = ready /\ held' = Unacked
      /\ UNCHANGED <<sent, session, tasks, rows, latest, client, view>>
  BY DEF HalfBreak, hubVars
<1> QED BY <1>1, UnackedInHand, LessFlow DEF FlowInv, TypeOK

LEMMA ConnectFlow == ASSUME FlowInv, Connect PROVE FlowInv'
<1>1. /\ session' = session + 1
      /\ UNCHANGED <<sent, ready, held, tasks, rows, latest, client, view>>
  BY DEF Connect, oldConn, apiVars, hubVars
<1>2. session' \in Nat /\ rows' \in [1 .. MaxSent -> Nat]
  BY <1>1 DEF FlowInv, TypeOK
<1> QED BY <1>1, <1>2, LessFlow

LEMMA InsertFlow == ASSUME FlowInv, Insert PROVE FlowInv'
<1>1. PICK t \in tasks : /\ rows' = [rows EXCEPT ![t[1].no] = @ + 1] /\ tasks' = tasks \ {t}
                         /\ UNCHANGED <<sent, ready, held, session, latest, client, view>>
  BY DEF Insert, Stored, queueVars, oldConn, hubVars
<1>2. t[1].no \in 1 .. MaxSent
  BY DEF FlowInv, TypeOK, Message
<1>3. rows' \in [1 .. MaxSent -> Nat]
  <2> DEFINE n == t[1].no
  <2>1. rows' = [rows EXCEPT ![n] = rows[n] + 1] /\ n \in 1 .. MaxSent
    BY <1>1, <1>2
  <2>2. rows \in [1 .. MaxSent -> Nat]
    BY DEF FlowInv, TypeOK
  <2> HIDE DEF n
  <2> QED BY <2>1, <2>2
<1>4. session' \in Nat
  BY <1>1 DEF FlowInv, TypeOK
<1> QED BY <1>1, <1>3, <1>4, LessFlow

LEMMA InsertRaisesFlow == ASSUME FlowInv, InsertRaises PROVE FlowInv'
<1>1. /\ tasks' \subseteq tasks
      /\ UNCHANGED <<sent, ready, held, session, rows, latest, client, view>>
  BY DEF InsertRaises, queueVars, oldConn, hubVars
<1> QED BY <1>1, LessFlow DEF FlowInv, TypeOK

LEMMA CrashFlow == ASSUME FlowInv, Crash PROVE FlowInv'
<1>1. /\ tasks' = {} /\ latest' = NoSnap /\ client' = [d \in Dashboards |-> Gone]
      /\ ready' = (IF up THEN QueueWithout(Unacked, dead) ELSE ready)
      /\ UNCHANGED <<sent, held, session, rows, view>>
  BY DEF Crash, oldConn
<1>2. ready' \subseteq ready \cup {[x EXCEPT !.redelivered = TRUE] : x \in Unacked}
  BY <1>1, WithoutIsLess
<1>3. ASSUME NEW d \in Dashboards
      PROVE  /\ Dashboard(Gone, view[d], NoSnap) /\ Snaps(Gone) = {NoSnap} /\ Gone \in Client
  <2>1. view[d] \in Snapshot /\ Follows(view[d], NoSnap)
    BY DEF FlowInv, TypeOK, Follows
  <2>2. Dashboard(Gone, view[d], NoSnap) /\ Snaps(Gone) = {NoSnap}
    BY <2>1, NoSnapIsNone, GoneDashboard
  <2> QED BY <2>2 DEF Dashboard, ClientInv
<1>4. DashboardsInv'
  BY <1>1, <1>3 DEF DashboardsInv
<1>5. client' \in [Dashboards -> Client]
  BY <1>1, <1>3
<1>6. Delivered' \subseteq Delivered \cup {NoSnap}
  <2>1. OnScreen' = UNION {Snaps(client'[d]) \cup {view'[d]} : d \in Dashboards}
    BY DEF OnScreen
  <2>2. OnScreen' \subseteq OnScreen \cup {NoSnap}
    BY <1>1, <1>3, <2>1 DEF OnScreen
  <2>3. InHand' = {}
    BY <1>1 DEF InHand
  <2> QED BY <1>1, <2>2, <2>3 DEF Delivered
<1>7. Unacked \subseteq Delivered /\ Unacked \subseteq Message
  BY FlowTypes, UnackedInHand DEF Delivered
<1>8. Queued(ready', Delivered', sent) /\ ready' \subseteq Message
  BY <1>2, <1>6, <1>7, FlowTypes, QueuedBack DEF FlowInv, QueueInv
<1>9. TypeOK'
  BY <1>1, <1>5, <1>8, NoSnapIsNone DEF FlowInv, TypeOK
<1> QED BY <1>1, <1>4, <1>8, <1>9 DEF FlowInv, QueueInv

\* What a delivery broadcasts follows all that is on the way to a dashboard.
LEMMA HandleFlow == ASSUME FlowInv, Handle PROVE FlowInv'
<1>1. PICK m \in ready :
        /\ IsNext(m)
        /\ latest' = IF m.kind = "metrics" THEN m ELSE latest
        /\ Broadcast(IF m.kind = "metrics" THEN m ELSE NoSnap)
        /\ tasks' = tasks \cup {<<m, session>>} /\ ready' = ready \ {m}
        /\ UNCHANGED <<sent, held, session, rows, view>>
  BY DEF Handle, oldConn
<1>2. m \in Message /\ m \in Snapshot /\ latest \in Snapshot
  BY FlowTypes DEF Snapshot
<1>3. \A x \in Delivered : Follows(x, m)
  <2>1. CASE m.redelivered
    BY <2>1 DEF Follows
  <2>2. CASE ~m.redelivered
    BY <2>2 DEF FlowInv, QueueInv, Queued, Follows
  <2> QED BY <2>1, <2>2
<1>4. \A x \in OnScreen : Follows(x, m) /\ Follows(x, NoSnap) /\ Follows(x, latest)
  <2>1. ASSUME NEW x \in OnScreen PROVE Follows(x, latest)
    <3>1. PICK d \in Dashboards : x \in Snaps(client[d]) \cup {view[d]}
      BY DEF OnScreen
    <3>2. Ordered(client[d], view[d], latest)
      BY DEF FlowInv, DashboardsInv, Dashboard
    <3> QED BY <3>1, <3>2 DEF Ordered
  <2> QED BY <1>3, <2>1 DEF Delivered, Follows
<1>5. Follows(NoSnap, latest) /\ Follows(m, m)
  <2>1. Follows(latest, latest) /\ Follows(m, m)
    BY DEF Follows
  <2> QED BY <1>2, <2>1, GoneDashboard DEF Dashboard, Ordered
<1>6. PICK snap \in {m, NoSnap} :
        /\ Broadcast(snap) /\ latest' \in {m, latest}
        /\ snap = latest' \/ (snap = NoSnap /\ latest' = latest)
  BY <1>1
<1>7. /\ DashboardsInv' /\ client' \in [Dashboards -> Client]
      /\ OnScreen' \subseteq OnScreen \cup {snap}
  <2>1. snap \in Snapshot /\ latest' \in Snapshot
    BY <1>2, <1>6, NoSnapIsNone
  <2>2. \A x \in OnScreen : Follows(x, snap) /\ Follows(x, latest')
    BY <1>4, <1>6
  <2>3. Follows(snap, latest')
    BY <1>5, <1>6
  <2>4. TypeOK /\ DashboardsInv /\ view' = view
    BY <1>1 DEF FlowInv
  <2> QED BY <1>6, <2>1, <2>2, <2>3, <2>4, BroadcastDashboards
<1>8. Delivered' \subseteq Delivered \cup {m, NoSnap}
  <2>1. InHand' \subseteq InHand \cup {m}
    BY <1>1 DEF InHand
  <2> QED BY <1>1, <1>6, <1>7, <2>1 DEF Delivered
<1>9. Queued(ready \ {m}, Delivered', sent)
  <2>1. \A x \in ready : m.no <= x.no
    BY <1>1 DEF IsNext
  <2> QED BY <1>8, <2>1, FlowTypes, QueuedNext DEF FlowInv, QueueInv
<1>10. TypeOK'
  <2>1. <<m, session>> \in Message \X Nat
    BY <1>2 DEF FlowInv, TypeOK
  <2> QED BY <1>1, <1>2, <1>6, <1>7, <2>1 DEF FlowInv, TypeOK
<1> QED BY <1>1, <1>7, <1>9, <1>10 DEF FlowInv, QueueInv

-----------------------------------------------------------------------------
(* One row per message.                                                     *)

LEMMA LessOnce ==
  ASSUME OnceInv, UNCHANGED <<rows, sent>>, halved => halved',
         ~halved' => /\ ~dead' /\ (ready' = {} \/ up')
                     /\ ready' \subseteq ready /\ tasks' \subseteq tasks
  PROVE  OnceInv'
<1>1. InHand' = {t[1] : t \in tasks'}
  BY DEF InHand
<1>2. CASE halved'
  BY <1>2 DEF OnceInv
<1>3. CASE ~halved'
  <2>1. ~halved /\ ready' \subseteq ready /\ tasks' \subseteq tasks /\ InHand' \subseteq InHand
    BY <1>1, <1>3 DEF InHand
  <2>2. \A m \in ready' : rows'[m.no] = 0 /\ \A x \in InHand' : x.no # m.no
    BY <2>1 DEF OnceInv
  <2>3. \A m, x \in ready' : m.no = x.no => m = x
    BY <2>1 DEF OnceInv
  <2>4. /\ \A t, u \in tasks' : t[1].no = u[1].no => t = u
        /\ \A t \in tasks' : rows'[t[1].no] = 0
    BY <2>1 DEF OnceInv
  <2>5. /\ \A n \in 1 .. MaxSent : rows'[n] <= 1
        /\ \A n \in 1 .. MaxSent : n > sent' => rows'[n] = 0
    BY <2>1 DEF OnceInv
  <2> QED BY <1>3, <2>2, <2>3, <2>4, <2>5 DEF OnceInv
<1> QED BY <1>2, <1>3

LEMMA PublishOnce ==
  ASSUME FlowInv, OnceInv, NEW kind \in {"metrics", "event"}, Publish(kind) PROVE OnceInv'
<1> DEFINE m == [no |-> sent + 1, kind |-> kind, redelivered |-> FALSE]
<1>1. /\ sent < MaxSent /\ sent' = sent + 1
      /\ ready' = ready \/ ((up \/ dead) /\ ready' = ready \cup {m})
      /\ UNCHANGED <<dead, halved, up, tasks, rows>>
  BY DEF Publish, oldConn, apiVars
<1>2. sent \in Nat /\ sent + 1 \in 1 .. MaxSent /\ m.no = sent + 1
  BY <1>1, FeedAssumption DEF FlowInv, TypeOK
<1>3. \A x \in ready \cup InHand : x.no \in Nat /\ x.no <= sent
  <2>1. \A x \in ready \cup InHand : x.no <= sent
    BY DEF FlowInv, QueueInv, Queued, Delivered
  <2>2. \A x \in Message : x.no \in Nat
    BY FeedAssumption DEF Message
  <2> QED BY <2>1, <2>2, FlowTypes
<1>4. rows[m.no] = 0
  BY <1>2 DEF OnceInv
<1> HIDE DEF m
<1>5. InHand' = InHand
  BY <1>1 DEF InHand
<1>6. \A n \in 1 .. MaxSent : n > sent' => rows'[n] = 0
  BY <1>1, <1>2 DEF OnceInv
<1>7. CASE halved
  BY <1>1, <1>6, <1>7 DEF OnceInv
<1>8. CASE ~halved
  <2>1. ~dead' /\ (ready' = {} \/ up')
    BY <1>1, <1>8 DEF OnceInv
  <2>2. \A x \in ready' : rows'[x.no] = 0 /\ \A y \in InHand' : y.no # x.no
    <3>1. \A x \in ready : rows[x.no] = 0 /\ \A y \in InHand : y.no # x.no
      BY <1>8 DEF OnceInv
    <3>2. \A y \in InHand : y.no # m.no
      BY <1>2, <1>3
    <3> QED BY <1>1, <1>4, <1>5, <3>1, <3>2
  <2>3. \A x, y \in ready' : x.no = y.no => x = y
    <3>1. \A x, y \in ready : x.no = y.no => x = y
      BY <1>8 DEF OnceInv
    <3>2. \A x \in ready : x.no # m.no
      BY <1>2, <1>3
    <3> QED BY <1>1, <3>1, <3>2
  <2> QED BY <1>1, <1>6, <1>8, <2>1, <2>2, <2>3 DEF OnceInv
<1> QED BY <1>7, <1>8

LEMMA HandleOnce == ASSUME FlowInv, OnceInv, Handle PROVE OnceInv'
<1>1. PICK m \in ready :
        /\ tasks' = tasks \cup {<<m, session>>} /\ ready' = ready \ {m}
        /\ up /\ UNCHANGED <<sent, dead, halved, up, rows>>
  BY DEF Handle, oldConn
<1>2. InHand' = InHand \cup {m}
  <2>1. InHand' = {t[1] : t \in tasks'}
    BY DEF InHand
  <2>2. tasks' = tasks \cup {<<m, session>>} /\ <<m, session>>[1] = m
    BY <1>1
  <2> QED BY <2>1, <2>2 DEF InHand
<1>3. CASE halved
  BY <1>1, <1>3 DEF OnceInv
<1>4. CASE ~halved
  <2>1. /\ \A x \in ready : rows[x.no] = 0 /\ \A y \in InHand : y.no # x.no
        /\ \A x, y \in ready : x.no = y.no => x = y
    BY <1>4 DEF OnceInv
  <2>2. \A x \in ready' : rows'[x.no] = 0 /\ \A y \in InHand' : y.no # x.no
    BY <1>1, <1>2, <2>1
  <2>3. \A x, y \in ready' : x.no = y.no => x = y
    BY <1>1, <2>1
  <2>4. \A t, u \in tasks' : t[1].no = u[1].no => t = u
    <3>1. \A t, u \in tasks : t[1].no = u[1].no => t = u
      BY <1>4 DEF OnceInv
    <3>2. \A t \in tasks : t[1].no # m.no
      BY <2>1 DEF InHand
    <3> QED BY <1>1, <3>1, <3>2
  <2>5. \A t \in tasks' : rows'[t[1].no] = 0
    BY <1>1, <1>4, <2>1 DEF OnceInv
  <2>6. ~dead' /\ up'
    BY <1>1, <1>4 DEF OnceInv
  <2> QED BY <1>1, <1>4, <2>2, <2>3, <2>4, <2>5, <2>6 DEF OnceInv
<1> QED BY <1>3, <1>4

LEMMA InsertOnce == ASSUME FlowInv, OnceInv, Insert PROVE OnceInv'
<1>1. PICK t \in tasks : /\ rows' = [rows EXCEPT ![t[1].no] = @ + 1] /\ tasks' = tasks \ {t}
                         /\ UNCHANGED <<sent, ready, dead, halved, up>>
  BY DEF Insert, queueVars, oldConn
<1> DEFINE n == t[1].no
<1>2. t[1] \in InHand /\ t[1] \in Message
  BY FlowTypes DEF InHand
<1>3. n \in 1 .. MaxSent /\ n <= sent /\ sent \in Nat
  BY <1>2, FlowTypes DEF Message, FlowInv, QueueInv, Queued, Delivered
<1>4. rows \in [1 .. MaxSent -> Nat]
  BY DEF FlowInv, TypeOK
<1>5. \A k \in 1 .. MaxSent : rows'[k] = IF k = n THEN rows[n] + 1 ELSE rows[k]
  BY <1>1, <1>4
<1>6. InHand' \subseteq InHand
  BY <1>1 DEF InHand
<1>7. \A u \in tasks : u[1].no \in 1 .. MaxSent
  BY DEF FlowInv, TypeOK, Message
<1>8. \A x \in ready : x.no \in 1 .. MaxSent
  BY FlowTypes DEF Message
<1>9. \A k \in 1 .. MaxSent : k > sent' => rows'[k] = 0
  BY <1>1, <1>3, <1>5 DEF OnceInv
<1>10. CASE halved
  BY <1>1, <1>9, <1>10 DEF OnceInv
<1>11. CASE ~halved
  <2>1. rows[n] = 0 /\ \A u \in tasks : u[1].no = n => u = t
    BY <1>11 DEF OnceInv
  <2>2. \A k \in 1 .. MaxSent : rows[k] <= 1
    BY <1>11 DEF OnceInv
  <2>3. \A x \in ready : rows[x.no] = 0 /\ x.no # n /\ \A y \in InHand : y.no # x.no
    BY <1>2, <1>11 DEF OnceInv
  <2>4. \A u \in tasks : rows[u[1].no] = 0
    BY <1>11 DEF OnceInv
  <2> HIDE DEF n
  <2>5. \A k \in 1 .. MaxSent : rows'[k] <= 1
    BY <1>3, <1>5, <2>1, <2>2
  <2>6. \A x \in ready' : rows'[x.no] = 0 /\ \A y \in InHand' : y.no # x.no
    BY <1>1, <1>5, <1>6, <1>8, <2>3
  <2>7. \A u \in tasks' : rows'[u[1].no] = 0
    BY <1>1, <1>5, <1>7, <2>1, <2>4
  <2>8. \A u, v \in tasks' : u[1].no = v[1].no => u = v
    BY <1>1, <1>11 DEF OnceInv
  <2> QED BY <1>1, <1>9, <1>11, <2>5, <2>6, <2>7, <2>8 DEF OnceInv
<1> QED BY <1>10, <1>11

\* What a lost connection held is requeued only where the queue has another
\* consumer, and that is a half-open one.
LEMMA LostOnce ==
  ASSUME OnceInv, NEW B, ready' = QueueWithout(B, dead), halved' = halved, dead' = dead,
         tasks' \subseteq tasks, UNCHANGED <<rows, sent>>
  PROVE  OnceInv'
<1>1. ~halved => ~dead /\ ready' = {}
  BY DEF OnceInv, QueueWithout
<1> QED BY <1>1, LessOnce

LEMMA ApiOnce ==
  ASSUME FlowInv, OnceInv, Connect \/ InsertRaises \/ Break \/ HalfBreak \/ Crash
  PROVE  OnceInv'
<1>1. CASE Connect
  <2>1. up' /\ UNCHANGED <<rows, sent, halved, dead, ready, tasks>>
    BY <1>1 DEF Connect, oldConn, apiVars
  <2> QED BY <2>1, LessOnce DEF OnceInv
<1>2. CASE InsertRaises
  <2>1. tasks' \subseteq tasks /\ UNCHANGED <<rows, sent, halved, dead, ready, up>>
    BY <1>2 DEF InsertRaises, queueVars, oldConn
  <2> QED BY <2>1, LessOnce DEF OnceInv
<1>3. CASE Break
  <2>1. /\ ready' = QueueWithout(Unacked, dead) /\ tasks' \subseteq tasks
        /\ UNCHANGED <<rows, sent, halved, dead>>
    BY <1>3 DEF Break, oldConn
  <2> QED BY <2>1, LostOnce
<1>4. CASE HalfBreak
  BY <1>4, LessOnce DEF HalfBreak
<1>5. CASE Crash
  <2>1. tasks' \subseteq tasks /\ UNCHANGED <<rows, sent, halved, dead>>
    BY <1>5 DEF Crash, oldConn
  <2>2. CASE up
    BY <1>5, <2>1, <2>2, LostOnce DEF Crash
  <2>3. CASE ~up
    BY <1>5, <2>1, <2>3, LessOnce DEF Crash, OnceInv
  <2> QED BY <2>2, <2>3
<1> QED BY <1>1, <1>2, <1>3, <1>4, <1>5

LEMMA BrokerOnce == ASSUME OnceInv, DeadTakes \/ DeadExpires PROVE OnceInv'
<1>1. dead /\ UNCHANGED <<rows, sent, halved>>
  BY DEF DeadTakes, DeadExpires, apiVars
<1>2. halved
  BY <1>1 DEF OnceInv
<1> QED BY <1>1, <1>2, LessOnce

LEMMA HubOnce == ASSUME OnceInv, UNCHANGED <<sent, queueVars, apiVars>> PROVE OnceInv'
<1>1. UNCHANGED <<sent, ready, dead, halved, up, tasks, rows>>
  BY DEF queueVars, oldConn, apiVars
<1> QED BY <1>1, LessOnce DEF OnceInv

-----------------------------------------------------------------------------
(* The invariant.                                                           *)

LEMMA InitFeed == Init => FeedInv
<1> SUFFICES ASSUME Init PROVE FeedInv
  OBVIOUS
<1> USE DEF Init
<1>1. ASSUME NEW d \in Dashboards
      PROVE  /\ Dashboard(client[d], view[d], latest) /\ Snaps(client[d]) = {NoSnap}
             /\ client[d] \in Client
  <2>1. client[d] = Gone /\ view[d] = NoSnap /\ latest = NoSnap /\ Follows(NoSnap, NoSnap)
    BY DEF Follows
  <2>2. Dashboard(Gone, NoSnap, NoSnap) /\ Snaps(Gone) = {NoSnap}
    BY <2>1, NoSnapIsNone, GoneDashboard
  <2> QED BY <2>1, <2>2 DEF Dashboard, ClientInv
<1>2. TypeOK
  <2>1. client \in [Dashboards -> Client]
    BY <1>1
  <2> QED BY <2>1, NoSnapIsNone, FeedAssumption DEF TypeOK
<1>3. DashboardsInv
  BY <1>1 DEF DashboardsInv
<1>4. Delivered \subseteq {NoSnap}
  <2>1. \A d \in Dashboards : Snaps(client[d]) \cup {view[d]} = {NoSnap}
    BY <1>1
  <2> QED BY <2>1 DEF Delivered, InHand, OnScreen
<1>5. QueueInv
  BY <1>4, NoSnapIsNone DEF QueueInv, Queued
<1>6. OnceInv
  BY DEF OnceInv
<1> QED BY <1>2, <1>3, <1>5, <1>6 DEF FeedInv

LEMMA HubFeed == ASSUME FlowInv, OnceInv, Hub PROVE FlowInv' /\ OnceInv'
<1>1. CASE Poll
  <2>1. UNCHANGED <<sent, queueVars, apiVars>>
    BY <1>1 DEF Poll
  <2> QED BY <1>1, <2>1, PollFlow, HubOnce
<1>2. ASSUME NEW d \in Dashboards,
             Join(d) \/ Accept(d) \/ Disconnect(d) \/ Take(d) \/ Show(d) \/ SendRaises(d)
      PROVE  FlowInv' /\ OnceInv'
  <2>1. UNCHANGED <<sent, queueVars, apiVars>>
    BY <1>2 DEF Join, Accept, Disconnect, Take, Show, SendRaises
  <2>2. FlowInv'
    BY <1>2, JoinFlow, AcceptFlow, DisconnectFlow, TakeFlow, ShowFlow, SendRaisesFlow
  <2> QED BY <2>1, <2>2, HubOnce
<1> QED BY <1>1, <1>2 DEF Hub

LEMMA NextFeed == FeedInv /\ [Next]_vars => FeedInv'
<1> SUFFICES ASSUME FlowInv, OnceInv, [Next]_vars PROVE FlowInv' /\ OnceInv'
  BY DEF FeedInv, FlowInv
<1>1. CASE Service
  BY <1>1, PublishFlow, PublishOnce DEF Service
<1>2. CASE Broker
  BY <1>2, DeadTakesFlow, DeadExpiresFlow, BrokerOnce DEF Broker
<1>3. CASE Hub
  BY <1>3, HubFeed
<1>4. CASE Api
  <2>1. CASE Handle
    BY <2>1, HandleFlow, HandleOnce
  <2>2. CASE Insert
    BY <2>2, InsertFlow, InsertOnce
  <2>3. CASE Connect \/ InsertRaises \/ Break \/ HalfBreak \/ Crash
    BY <2>3, ConnectFlow, InsertRaisesFlow, BreakFlow, HalfBreakFlow, CrashFlow, ApiOnce
  <2> QED BY <1>4, <2>1, <2>2, <2>3 DEF Api
<1>5. CASE UNCHANGED vars
  <2>1. FlowInv'
    BY <1>5, LessFlow DEF vars, queueVars, oldConn, apiVars, hubVars, FlowInv, TypeOK
  <2> QED BY <1>5, <2>1, HubOnce DEF vars
<1> QED BY <1>1, <1>2, <1>3, <1>4, <1>5 DEF Next

\* TypeOK, and where every snapshot and every row stands: for any number of
\* dashboards and messages.
THEOREM FeedIsSound == Spec => []FeedInv
<1> QED BY InitFeed, NextFeed, PTL DEF Spec

\* However many tasks broadcast to a slow dashboard, its queue holds the
\* newest messages without a hole, and `dropped` is what it lost (ws.py).
THEOREM QueuesAreExact == Spec => []FeedExact
<1>1. FeedInv => FeedExact
  BY DEF FeedInv, DashboardsInv, Dashboard, ClientInv, FeedExact
<1> QED BY <1>1, FeedIsSound, PTL

\* Two rows of one message take a half-open connection (broker.py, db.py).
THEOREM RowsAreUnique == Spec => []OneRowEach
<1>1. FeedInv => OneRowEach
  <2> SUFFICES ASSUME FeedInv, NEW n \in 1 .. MaxSent, rows[n] > 1, ~halved PROVE FALSE
    BY DEF OneRowEach
  <2>1. rows[n] \in Nat /\ rows[n] <= 1
    BY DEF FeedInv, TypeOK, OnceInv
  <2> QED BY <2>1
<1> QED BY <1>1, FeedIsSound, PTL

\* A dashboard that has read all it was sent and lost nothing shows the api's
\* latest snapshot, unless one came while its socket was being accepted.
THEOREM DrainedIsFresh == Spec => []FreshWhenDrained
<1>1. FeedInv => FreshWhenDrained
  <2> SUFFICES ASSUME FeedInv, NEW d \in Dashboards,
                      client[d].stage = "open", client[d].queue = <<>>,
                      client[d].sending = <<>>, client[d].dropped = 0,
                      ~client[d].stale, latest # NoSnap
               PROVE  view[d] = latest
    BY DEF FreshWhenDrained
  <2>1. Arriving(client[d], view[d], latest)
    BY DEF FeedInv, DashboardsInv, Dashboard, Fresh
  <2>2. DOMAIN client[d].queue = {} /\ DOMAIN client[d].sending = {}
    BY EmptySeq
  <2> QED BY <2>1, <2>2 DEF Arriving
<1> QED BY <1>1, FeedIsSound, PTL

\* No dashboard goes back to an older snapshot but through a redelivery:
\* hellos, drops, crashes and reconnections keep the order of publication.
THEOREM NoneGoesBack == Spec => NeverGoesBack
<1> DEFINE Onward == \A d \in Dashboards :
             view'[d] # view[d] => \/ view'[d].no > view[d].no
                                   \/ view'[d].redelivered
<1>1. FeedInv /\ [Next]_vars => [Onward]_view
  <2> SUFFICES ASSUME FeedInv, Next, view' # view PROVE Onward
    BY DEF vars, hubVars
  <2>1. PICK d \in Dashboards : Show(d)
    BY DEF Next, Service, Broker, Hub, Api, Publish, DeadTakes, DeadExpires, Poll, Join,
           Accept, Disconnect, Take, SendRaises, Connect, Handle, Insert, InsertRaises,
           Break, HalfBreak, Crash, hubVars
  <2>2. /\ FlowInv'
        /\ \A e \in Dashboards :
             view'[e] # view[e] => Follows(view[e], view'[e]) /\ view'[e] # NoSnap
    BY <2>1, ShowFlow DEF FeedInv, FlowInv
  <2>3. ASSUME NEW e \in Dashboards, view'[e] # view[e]
        PROVE  view'[e].no > view[e].no \/ view'[e].redelivered
    <3>1. view[e] \in Snapshot /\ view'[e] \in Snapshot
      BY <2>2 DEF FeedInv, FlowInv, TypeOK
    <3>2. view[e].no \in Nat /\ view'[e].no \in Nat
      BY <3>1, SnapshotType
    <3> QED BY <2>2, <2>3, <3>2 DEF Follows
  <2> QED BY <2>3
<1> QED BY <1>1, FeedIsSound, PTL DEF Spec, NeverGoesBack
=============================================================================
