-------------------------- MODULE EdgeStream_proofs --------------------------
(***************************************************************************)
(* Why no frame of the stream publisher is sent under two ids, none is     *)
(* stored twice unless a duplicate was injected, the retransmission stack  *)
(* stays within the confirm window, and a sweep loses nothing while no     *)
(* connection is lost and nothing is refused.                              *)
(***************************************************************************)
EXTENDS EdgeStream, Lemmas

\* Every message there is: in custody, on the wire, stored, or on its way out
\* of a broken connection.
Messages == Range(retryIds) \cup Range(inflight) \cup Range(net) \cup Range(log)
              \cup (UNION {Range(w) : w \in late})

\* Frames are taken from the buffer in the order they were generated, so the
\* ones the buffer still holds are the last ones.
Taken == gen - Len(src)
SrcInv == \A i \in 1 .. Len(src) : src[i] = Taken + i

\* One message per id and, of a frame, one message that is not a duplicate.
IdInv ==
  /\ \A m \in Messages : m \in Msg /\ m.id < nextId /\ 1 <= m.frame
                         /\ (m.dup \/ m.frame <= Taken)
  /\ \A m, n \in Messages : m.id = n.id => m = n
  /\ \A m, n \in Messages : ~m.dup /\ ~n.dup /\ m.frame = n.frame => m = n

\* A message is in custody in one place, and only what is in flight is staged.
CustodyInv ==
  /\ IsInjective(retryIds) /\ IsInjective(inflight)
  /\ Range(retryIds) \cap Range(inflight) = {}
  /\ \A m \in Range(retryIds) : ~m.dup
  /\ Range(staged) \subseteq Range(inflight)

\* The stream's ids grow, and high is not below any of them.
LogInv ==
  /\ \A i \in 1 .. Len(log) : log[i].id <= high
  /\ \A i, j \in 1 .. Len(log) : i < j => log[i].id < log[j].id

UplinkInv == TypeOK /\ SrcInv /\ IdInv /\ CustodyInv /\ LogInv /\ RetryBounded

\* What has been sent and is neither stored nor lost, in the order it arrives.
Pipe == net \o staged
Originals(s) == {m \in Range(s) : ~m.dup}

\* The order argument: of the ids not yet stored, each is on its way, and
\* behind every smaller one.
InTurn ==
  /\ \A k \in 1 .. Len(Pipe) : \A d \in Nat :
       high < d /\ d < Pipe[k].id => \E j \in 1 .. k - 1 : Pipe[j].id = d
  /\ \A d \in Nat : high < d /\ d < nextId => \E j \in 1 .. Len(Pipe) : Pipe[j].id = d

\* The ids up to high are all in the stream: it dropped nothing but copies.
Gapless == \A d \in Nat : d <= high => \E m \in Range(log) : m.id = d

\* Every frame is buffered, waiting or in flight as an original, or stored.
AllKept == \A f \in 1 .. gen :
  \/ f \in Range(src)
  \/ \E m \in Range(retryIds) \cup Originals(inflight) \cup Range(log) : m.frame = f

Calm ==
  /\ conn \in {"none", "up"} /\ late = {}
  /\ \A c \in Range(confs) : c[2] /\ c[1] <= high
  /\ InTurn /\ Gapless /\ AllKept
CalmInv ==
  /\ budget.breaks <= MaxBreaks /\ budget.nacks <= MaxNacks
  /\ Undisturbed => Calm
-----------------------------------------------------------------------------
(* Sets and sequences.                                                      *)

LEMMA MinOfTwo ==
  ASSUME NEW a \in Int, NEW b \in Int
  PROVE  Min({a, b}) = IF a <= b THEN a ELSE b
<1>1. \E x \in {a, b} : \A y \in {a, b} : x =< y
  OBVIOUS
<1>2. Min({a, b}) \in {a, b} /\ \A y \in {a, b} : Min({a, b}) =< y
  BY <1>1 DEF Min
<1> QED
  BY <1>2

\* What the head of a queue and the rest of it are.
LEMMA HeadRest ==
  ASSUME NEW S, NEW s \in Seq(S), s # <<>>
  PROVE  /\ Head(s) \in S /\ Tail(s) \in Seq(S) /\ Len(s) \in Nat \ {0}
         /\ Head(s) = s[1] /\ Len(Tail(s)) = Len(s) - 1
         /\ \A i \in 1 .. Len(s) - 1 : Tail(s)[i] = s[i + 1]
         /\ Range(s) = {Head(s)} \cup Range(Tail(s))
<1>1. Range(s) = {Head(s)} \cup Range(Tail(s))
  BY RangeHeadTail
<1>2. /\ Head(s) \in S /\ Tail(s) \in Seq(S)
      /\ Len(Tail(s)) = Len(s) - 1
      /\ \A i \in 1 .. Len(Tail(s)) : Tail(s)[i] = s[i + 1]
      /\ Head(s) = s[1]
  BY HeadTailProperties
<1>3. Len(s) \in Nat \ {0}
  BY EmptySeq, LenProperties
<1> QED
  BY <1>1, <1>2, <1>3

LEMMA ElementOf ==
  ASSUME NEW S, NEW s \in Seq(S)
  PROVE  /\ Range(s) \subseteq S /\ DOMAIN s = 1 .. Len(s) /\ Len(s) \in Nat
         /\ \A i \in 1 .. Len(s) : s[i] \in S /\ s[i] \in Range(s)
         /\ \A x \in Range(s) : \E i \in 1 .. Len(s) : s[i] = x
BY RangeEquality, ElementOfSeq, LenProperties

LEMMA MsgFields == \A m \in Msg : m.id \in Nat /\ m.frame \in Nat /\ m.dup \in BOOLEAN
BY DEF Msg

LEMMA EmptyRange == Range(<<>>) = {} /\ Len(<<>>) = 0 /\ IsInjective(<<>>)
BY DEF Range, IsInjective

-----------------------------------------------------------------------------
(* The batch.                                                               *)

\* The parts FillBatch names: how many of each, and what is sent.
Again  == Min({Room, Len(retryIds)})
Dups   == Min({Room - Again, Len(dupq)})
New    == Min({Room - Again - Dups, Len(src)})
Back   == SubSeq(retryIds, Len(retryIds) - Again + 1, Len(retryIds))
Resent == Reverse(Back)
Fresh  == [i \in 1 .. Dups + New |->
             IF i <= Dups THEN Message(nextId + i - 1, dupq[i], TRUE)
             ELSE Message(nextId + i - 1, src[i - Dups], FALSE)]

LEMMA BatchSizes ==
  ASSUME TypeOK
  PROVE  /\ Room \in Nat /\ (Room > 0 => Room + Len(inflight) <= ConfirmWindow)
         /\ Again \in 0 .. Len(retryIds) /\ Dups \in 0 .. Len(dupq) /\ New \in 0 .. Len(src)
         /\ Again + Dups + New <= Room
         /\ Again = Room \/ Again = Len(retryIds)
<1>1. /\ Len(inflight) \in Nat /\ Len(retryIds) \in Nat /\ Len(dupq) \in Nat /\ Len(src) \in Nat
      /\ ConfirmWindow \in Nat \ {0} /\ PublishBatch \in Nat \ {0}
  BY LenProperties, StreamBounds DEF TypeOK
<1>2. Room \in Nat /\ (Room > 0 => Room + Len(inflight) <= ConfirmWindow)
  <2>1. CASE Len(inflight) < ConfirmWindow
    <3>1. ConfirmWindow - Len(inflight) \in Nat
      BY <1>1, <2>1
    <3>2. Room = (IF ConfirmWindow - Len(inflight) <= PublishBatch
                  THEN ConfirmWindow - Len(inflight) ELSE PublishBatch)
      BY <1>1, <2>1, <3>1, MinOfTwo DEF Room
    <3> QED
      BY <1>1, <2>1, <3>1, <3>2
  <2>2. CASE ~(Len(inflight) < ConfirmWindow)
    BY <2>2 DEF Room
  <2> QED
    BY <2>1, <2>2
<1>3. Again = IF Room <= Len(retryIds) THEN Room ELSE Len(retryIds)
  BY <1>1, <1>2, MinOfTwo DEF Again
<1>4. Room - Again \in Nat /\ Again \in 0 .. Len(retryIds)
  BY <1>1, <1>2, <1>3
<1>5. Dups = IF Room - Again <= Len(dupq) THEN Room - Again ELSE Len(dupq)
  BY <1>1, <1>4, MinOfTwo DEF Dups
<1>6. Room - Again - Dups \in Nat /\ Dups \in 0 .. Len(dupq)
  BY <1>1, <1>2, <1>4, <1>5
<1>7. New = IF Room - Again - Dups <= Len(src) THEN Room - Again - Dups ELSE Len(src)
  BY <1>1, <1>6, MinOfTwo DEF New
<1>8. New \in 0 .. Len(src) /\ New <= Room - Again - Dups
  BY <1>1, <1>6, <1>7
<1>9. Again \in Int /\ Dups \in Int /\ New \in Int /\ Room \in Int
  BY <1>1, <1>2, <1>4, <1>6, <1>8
<1>10. Again + Dups + New <= Room
  BY <1>8, <1>9
<1>11. Again = Room \/ Again = Len(retryIds)
  BY <1>3
<1> QED
  BY <1>2, <1>4, <1>6, <1>8, <1>10, <1>11

LEMMA BatchSteps ==
  ASSUME FillBatch
  PROVE  /\ phase = "pump" /\ staged' = Resent \o Fresh /\ inflight' = inflight \o staged'
         /\ phase' = (IF staged' = <<>> THEN "select" ELSE "send")
         /\ retryIds' = SubSeq(retryIds, 1, Len(retryIds) - Again)
         /\ dupq' = SubSeq(dupq, Dups + 1, Len(dupq))
         /\ src' = SubSeq(src, New + 1, Len(src))
         /\ nextId' = nextId + Dups + New
         /\ UNCHANGED <<gen, confs, brokerVars, budget>>
BY Zenon DEF FillBatch, Again, Dups, New, Back, Resent, Fresh

\* What is sent for the first time: ids from nextId on, and the frames at the
\* front of the buffer.
LEMMA FreshFacts ==
  ASSUME TypeOK, SrcInv
  PROVE  /\ Fresh \in Seq(Msg) /\ Len(Fresh) = Dups + New
         /\ \A i \in 1 .. Dups + New :
              /\ Fresh[i].id = nextId + i - 1 /\ 1 <= Fresh[i].frame
              /\ Fresh[i].dup \/ Fresh[i].frame = Taken + (i - Dups)
              /\ ~Fresh[i].dup <=> i > Dups
<1>1. /\ Dups \in 0 .. Len(dupq) /\ New \in 0 .. Len(src) /\ nextId \in Nat
      /\ Len(dupq) \in Nat /\ Len(src) \in Nat
  BY BatchSizes, LenProperties DEF TypeOK
<1>2. Dups \in Nat /\ New \in Nat /\ Dups + New \in Nat
  BY <1>1
<1>3. /\ \A i \in 1 .. Len(dupq) : dupq[i] \in Nat /\ 1 <= dupq[i]
      /\ \A i \in 1 .. Len(src) : src[i] \in Nat /\ 1 <= src[i]
  <2>1. /\ \A f \in 1 .. gen : f \in Nat /\ 1 <= f
        /\ dupq \in Seq(1 .. gen) /\ src \in Seq(1 .. gen)
    BY StreamBounds, SMTT(30) DEF TypeOK
  <2> QED
    BY <2>1, ElementOfSeq
<1>4. ASSUME NEW i \in 1 .. Dups + New
      PROVE  /\ Fresh[i] \in Msg /\ Fresh[i].id = nextId + i - 1 /\ 1 <= Fresh[i].frame
             /\ Fresh[i].dup \/ Fresh[i].frame = Taken + (i - Dups)
             /\ ~Fresh[i].dup <=> i > Dups
  <2>0. i \in Nat /\ nextId + i - 1 \in Nat
    BY <1>1, <1>2
  <2>1. CASE i <= Dups
    <3>1. i \in 1 .. Len(dupq)
      BY <1>1, <2>0, <2>1
    <3>2. Fresh[i] = [id |-> nextId + i - 1, frame |-> dupq[i], dup |-> TRUE]
      BY <2>1 DEF Fresh, Message
    <3>3. ~(i > Dups)
      BY <1>2, <2>0, <2>1
    <3> QED
      BY <1>3, <2>0, <3>1, <3>2, <3>3 DEF Msg
  <2>2. CASE ~(i <= Dups)
    <3>1. i - Dups \in 1 .. Len(src) /\ i > Dups
      BY <1>1, <2>0, <2>2
    <3>2. Fresh[i] = [id |-> nextId + i - 1, frame |-> src[i - Dups], dup |-> FALSE]
      BY <2>2 DEF Fresh, Message
    <3>3. src[i - Dups] = Taken + (i - Dups) /\ src[i - Dups] \in Nat
          /\ 1 <= src[i - Dups]
      BY <1>3, <3>1 DEF SrcInv
    <3> QED
      BY <2>0, <3>1, <3>2, <3>3 DEF Msg
  <2> QED
    BY <2>1, <2>2
<1>5. Fresh \in [1 .. Dups + New -> Msg]
  BY <1>4 DEF Fresh
<1>6. Fresh \in Seq(Msg) /\ Len(Fresh) = Dups + New
  BY <1>2, <1>5, SeqDef, LenProperties
<1> QED
  BY <1>4, <1>6

\* The batch takes the top of the stack and sends it again; nothing is sent
\* twice, and nothing that was sent already gets a new id.
LEMMA BatchFacts ==
  ASSUME TypeOK, SrcInv, IdInv, CustodyInv, FillBatch
  PROVE  /\ staged' \in Seq(Msg) /\ inflight' \in Seq(Msg) /\ retryIds' \in Seq(Msg)
         /\ Len(staged') = Again + Dups + New
         /\ Len(inflight') = Len(inflight) + Again + Dups + New
         /\ Len(retryIds') = Len(retryIds) - Again
         /\ Resent \in Seq(Msg) /\ Len(Resent) = Again /\ Range(Resent) \subseteq Range(retryIds)
         /\ Range(staged') = Range(Resent) \cup Range(Fresh)
         /\ Range(inflight') = Range(inflight) \cup Range(staged')
         /\ Range(retryIds) = Range(retryIds') \cup Range(Resent)
         /\ CustodyInv'
<1>1. /\ Again \in 0 .. Len(retryIds) /\ Dups \in Nat /\ New \in Nat
      /\ nextId \in Nat /\ Len(retryIds) \in Nat /\ Len(inflight) \in Nat
      /\ retryIds \in Seq(Msg) /\ inflight \in Seq(Msg)
  BY BatchSizes, LenProperties DEF TypeOK
<1>0. /\ staged' = Resent \o Fresh /\ inflight' = inflight \o staged'
      /\ retryIds' = SubSeq(retryIds, 1, Len(retryIds) - Again)
  BY BatchSteps
<1> DEFINE n == Len(retryIds) - Again
           r == SubSeq(retryIds, 1, n)
           b == SubSeq(retryIds, n + 1, Len(retryIds))
<1>2. n \in 0 .. Len(retryIds) /\ Len(retryIds) - n = Again
  BY <1>1
<1>3. /\ r \in Seq(Msg) /\ Len(r) = n /\ b \in Seq(Msg) /\ Len(b) = Len(retryIds) - n
      /\ Range(retryIds) = Range(r) \cup Range(b)
      /\ IsInjective(r) /\ IsInjective(b) /\ Range(r) \cap Range(b) = {}
  <2> HIDE DEF n
  <2>1. /\ r \in Seq(Msg) /\ Len(r) = n /\ b \in Seq(Msg) /\ Len(b) = Len(retryIds) - n
        /\ Range(retryIds) = Range(r) \cup Range(b)
        /\ IsInjective(retryIds) =>
             IsInjective(r) /\ IsInjective(b) /\ Range(r) \cap Range(b) = {}
    BY <1>1, <1>2, Split
  <2> QED
    BY <2>1 DEF CustodyInv
<1>4. retryIds' = r /\ b = Back
  BY <1>0 DEF Back
<1> HIDE DEF n, r, b
<1>5. /\ Resent \in Seq(Msg) /\ Len(Resent) = Again /\ Range(Resent) = Range(b)
      /\ IsInjective(Resent)
  BY <1>2, <1>3, <1>4, ReverseSame DEF Resent
<1>6. /\ Fresh \in Seq(Msg) /\ Len(Fresh) = Dups + New
      /\ \A i \in 1 .. Dups + New : Fresh[i].id = nextId + i - 1
  BY FreshFacts
<1>7. staged' \in Seq(Msg) /\ Len(staged') = Again + Dups + New
      /\ Range(staged') = Range(Resent) \cup Range(Fresh)
  <2>1. /\ Resent \o Fresh \in Seq(Msg)
        /\ Len(Resent \o Fresh) = Len(Resent) + Len(Fresh)
        /\ Range(Resent \o Fresh) = Range(Resent) \cup Range(Fresh)
    <3>1. Resent \in Seq(Msg) /\ Fresh \in Seq(Msg)
      BY <1>5, <1>6
    <3> QED
      BY <3>1, ConcatRange
  <2>2. Len(Resent) + Len(Fresh) = Again + Dups + New
    BY <1>1, <1>5, <1>6
  <2> QED
    BY <1>0, <2>1, <2>2
<1>8. inflight' \in Seq(Msg) /\ Len(inflight') = Len(inflight) + Again + Dups + New
      /\ Range(inflight') = Range(inflight) \cup Range(staged')
  <2>1. /\ inflight \o staged' \in Seq(Msg)
        /\ Len(inflight \o staged') = Len(inflight) + Len(staged')
        /\ Range(inflight \o staged') = Range(inflight) \cup Range(staged')
    <3>1. inflight \in Seq(Msg) /\ staged' \in Seq(Msg)
      BY <1>1, <1>7
    <3> QED
      BY <3>1, ConcatRange
  <2>2. Len(inflight) + Len(staged') = Len(inflight) + Again + Dups + New
    BY <1>1, <1>7
  <2> QED
    BY <1>0, <2>1, <2>2
<1>9. \A m \in Range(Fresh) : m.id >= nextId
  BY <1>1, <1>6, ElementOf
<1>10. \A m \in Range(retryIds) \cup Range(inflight) : m.id < nextId
  BY DEF IdInv, Messages
<1>11. /\ Range(Fresh) \cap Range(retryIds) = {} /\ Range(Fresh) \cap Range(inflight) = {}
  <2>1. \A m \in Range(retryIds) \cup Range(inflight) : m.id \in Nat
    BY <1>1, ElementOf, MsgFields
  <2>2. \A m \in Range(Fresh) : m.id \in Nat
    BY <1>6, ElementOf, MsgFields
  <2>3. \A i, k \in Nat : ~(i < k /\ i >= k)
    OBVIOUS
  <2> QED
    BY <1>1, <1>9, <1>10, <2>1, <2>2, <2>3
<1>12. IsInjective(Fresh)
  <2>1. DOMAIN Fresh = 1 .. Dups + New
    BY <1>6, LenProperties
  <2>2. ASSUME NEW i \in 1 .. Dups + New, NEW j \in 1 .. Dups + New, Fresh[i] = Fresh[j]
        PROVE  i = j
    <3>1. nextId + i - 1 = nextId + j - 1
      BY <1>6, <2>2
    <3> QED
      BY <1>1, <3>1
  <2> QED
    BY <2>1, <2>2 DEF IsInjective
<1>13. IsInjective(staged')
  <2>1. Range(Resent) \cap Range(Fresh) = {}
    BY <1>3, <1>5, <1>11
  <2>2. IsInjective(Resent \o Fresh)
    BY <1>5, <1>6, <1>12, <2>1, ConcatInjective
  <2> QED
    BY <1>0, <2>2
<1>14. IsInjective(inflight')
  <2>1. Range(inflight) \cap Range(staged') = {}
    BY <1>3, <1>5, <1>7, <1>11 DEF CustodyInv
  <2>2. IsInjective(inflight)
    BY DEF CustodyInv
  <2> QED
    <3>1. IsInjective(inflight \o staged')
      BY <1>1, <1>7, <1>13, <2>1, <2>2, ConcatInjective
    <3> QED
      BY <1>0, <3>1
<1>15. Range(retryIds') \cap Range(inflight') = {}
  BY <1>3, <1>4, <1>5, <1>7, <1>8, <1>11 DEF CustodyInv
<1>16. CustodyInv'
  <2>1. \A m \in Range(retryIds') : ~m.dup
    BY <1>3, <1>4 DEF CustodyInv
  <2>2. Range(staged') \subseteq Range(inflight')
    BY <1>8
  <2>3. IsInjective(retryIds')
    BY <1>3, <1>4
  <2> QED
    BY <1>14, <1>15, <2>1, <2>2, <2>3 DEF CustodyInv
<1>17. Len(retryIds') = Len(retryIds) - Again
  BY <1>3, <1>4 DEF n
<1> QED
  BY <1>3, <1>4, <1>5, <1>7, <1>8, <1>16, <1>17

-----------------------------------------------------------------------------
(* The lemmas the steps share.                                              *)

\* Ids and frames stay apart while nothing is sent for the first time.
LEMMA FewerMessages ==
  ASSUME IdInv, Messages' \subseteq Messages, nextId' = nextId, Taken' = Taken
  PROVE  IdInv'
BY DEF IdInv

\* What goes back to the stack: the originals, once each, above what waits.
LEMMA StackedFacts ==
  ASSUME TypeOK, CustodyInv, NEW batch \in Seq(Msg), IsInjective(batch),
         Range(batch) \cap Range(retryIds) = {}, NEW s \in Stacked(batch)
  PROVE  /\ s \in Seq(Msg) /\ IsInjective(s) /\ Len(s) <= Len(retryIds) + Len(batch)
         /\ Range(s) = Range(retryIds) \cup Originals(batch)
         /\ \A m \in Range(s) : ~m.dup
<1>1. PICK o \in SetToSeqs(Originals(batch)) : s = retryIds \o o
  BY Zenon DEF Stacked, Originals
<1>2. Originals(batch) \in SUBSET Range(batch)
  BY DEF Originals
<1>3. /\ o \in Seq(Msg) /\ IsInjective(o) /\ Range(o) = Originals(batch)
      /\ Len(o) <= Len(batch)
  <2> DEFINE T == Originals(batch)
  <2>1. T \in SUBSET Range(batch) /\ o \in SetToSeqs(T)
    BY <1>2
  <2> HIDE DEF T
  <2>2. o \in Seq(Msg) /\ IsInjective(o) /\ Range(o) = T /\ Len(o) <= Len(batch)
    BY <2>1, InSomeOrder
  <2> QED
    BY <2>2 DEF T
<1>4. retryIds \in Seq(Msg) /\ IsInjective(retryIds)
  BY DEF TypeOK, CustodyInv
<1>5. /\ retryIds \o o \in Seq(Msg) /\ Len(retryIds \o o) = Len(retryIds) + Len(o)
      /\ Range(retryIds \o o) = Range(retryIds) \cup Range(o)
  <2>1. o \in Seq(Msg) /\ retryIds \in Seq(Msg)
    BY <1>3, <1>4
  <2> QED
    BY <2>1, ConcatRange
<1>6. IsInjective(s)
  <2>1. Range(retryIds) \cap Range(o) = {}
    BY <1>2, <1>3
  <2>2. /\ o \in Seq(Msg) /\ retryIds \in Seq(Msg)
        /\ IsInjective(o) /\ IsInjective(retryIds)
    BY <1>3, <1>4
  <2>3. IsInjective(retryIds \o o)
    BY <2>1, <2>2, ConcatInjective
  <2> QED
    BY <1>1, <2>3
<1>7. Len(retryIds) \in Nat /\ Len(o) \in Nat /\ Len(batch) \in Nat
  BY <1>3, <1>4, LenProperties
<1>8. Len(s) <= Len(retryIds) + Len(batch)
  BY <1>1, <1>3, <1>5, <1>7
<1>9. Range(s) = Range(retryIds) \cup Originals(batch)
  BY <1>1, <1>3, <1>5
<1>10. \A m \in Range(s) : ~m.dup
  BY <1>9 DEF CustodyInv, Originals
<1> QED
  BY <1>1, <1>5, <1>6, <1>8, <1>9, <1>10

\* The end of a session: what was in flight waits to be sent again.
LEMMA DrainFacts ==
  ASSUME TypeOK, CustodyInv, RetryBounded, NEW first, Drain(first)
  PROVE  /\ retryIds' \in Seq(Msg)
         /\ Range(retryIds') = Range(retryIds) \cup Originals(inflight)
         /\ CustodyInv' /\ RetryBounded'
         /\ inflight' = <<>> /\ staged' = <<>> /\ confs' = <<>>
         /\ phase' = "down" /\ conn' = "none"
<1>1. /\ retryIds' \in Stacked(inflight)
      /\ inflight' = <<>> /\ staged' = <<>> /\ confs' = <<>>
      /\ phase' = "down" /\ conn' = "none"
  BY Zenon DEF Drain
<1>2. /\ retryIds' \in Seq(Msg) /\ IsInjective(retryIds')
      /\ Len(retryIds') <= Len(retryIds) + Len(inflight)
      /\ Range(retryIds') = Range(retryIds) \cup Originals(inflight)
      /\ \A m \in Range(retryIds') : ~m.dup
  <2>1. /\ inflight \in Seq(Msg) /\ IsInjective(inflight)
        /\ Range(inflight) \cap Range(retryIds) = {}
    BY DEF TypeOK, CustodyInv
  <2> QED
    BY <1>1, <2>1, StackedFacts
<1>3. CustodyInv'
  BY <1>1, <1>2, EmptyRange DEF CustodyInv
<1>4. RetryBounded'
  <2>1. Len(retryIds) \in Nat /\ Len(inflight) \in Nat /\ Len(retryIds') \in Nat
    BY <1>2, LenProperties DEF TypeOK
  <2>2. Len(inflight') = 0
    BY <1>1, EmptyRange
  <2> QED
    BY <1>2, <2>1, <2>2, StreamBounds DEF RetryBounded
<1> QED
  BY <1>1, <1>2, <1>3, <1>4

\* The stream takes a message or drops it.
LEMMA StoreFacts ==
  ASSUME TypeOK, LogInv, NEW m \in Msg, Store(m)
  PROVE  /\ log' \in Seq(Msg) /\ high' \in Nat \cup {-1} /\ LogInv'
         /\ \/ m.id <= high /\ log' = log /\ high' = high
            \/ m.id > high /\ high' = m.id /\ Range(log') = Range(log) \cup {m}
<1>1. log \in Seq(Msg) /\ high \in Int /\ m.id \in Nat /\ Len(log) \in Nat
  BY MsgFields, LenProperties DEF TypeOK
<1>2. CASE ~(m.id > high)
  <2>1. log' = log /\ high' = high /\ m.id <= high
    BY <1>1, <1>2 DEF Store
  <2> QED
    BY <2>1 DEF LogInv, TypeOK
<1>3. CASE m.id > high
  <2>1. log' = Append(log, m) /\ high' = m.id
    BY <1>3 DEF Store
  <2>2. /\ log' \in Seq(Msg) /\ Len(log') = Len(log) + 1
        /\ \A i \in 1 .. Len(log) : log'[i] = log[i]
        /\ log'[Len(log) + 1] = m
    BY <1>1, <2>1, AppendProperties
  <2>3. Range(log') = Range(log) \cup {m}
    BY <1>1, <2>1, RangeAppend
  <2>4. \A i \in 1 .. Len(log) : log[i].id \in Nat
    BY <1>1, ElementOf, MsgFields
  <2>5. ASSUME NEW i \in 1 .. Len(log) + 1
        PROVE  /\ i <= Len(log) => i \in 1 .. Len(log) /\ log'[i] = log[i]
               /\ ~(i <= Len(log)) => log'[i] = m
    BY <1>1, <2>2
  <2>6. ASSUME NEW i \in 1 .. Len(log) + 1 PROVE log'[i].id <= high'
    BY <1>1, <1>3, <2>1, <2>4, <2>5 DEF LogInv
  <2>7. ASSUME NEW i \in 1 .. Len(log) + 1, NEW j \in 1 .. Len(log) + 1, i < j
        PROVE  log'[i].id < log'[j].id
    <3>1. i \in 1 .. Len(log) /\ log'[i] = log[i]
      BY <1>1, <2>5, <2>7
    <3>2. CASE j <= Len(log)
      BY <2>5, <2>7, <3>1, <3>2 DEF LogInv
    <3>3. CASE ~(j <= Len(log))
      BY <1>1, <1>3, <2>4, <2>5, <3>1, <3>3 DEF LogInv
    <3> QED
      BY <3>2, <3>3
  <2>8. LogInv'
    BY <2>2, <2>6, <2>7 DEF LogInv
  <2> QED
    BY <1>1, <1>3, <2>1, <2>2, <2>3, <2>8
<1> QED
  BY <1>2, <1>3

-----------------------------------------------------------------------------
(* The invariant, action by action.                                         *)

LEMMA StartsRight == Init => UplinkInv
<1> SUFFICES ASSUME Init PROVE UplinkInv
  OBVIOUS
<1>1. /\ gen = 0 /\ src = <<>> /\ dupq = <<>> /\ nextId = 0 /\ retryIds = <<>>
      /\ phase = "down" /\ inflight = <<>> /\ staged = <<>> /\ confs = <<>>
      /\ conn = "none" /\ net = <<>> /\ late = {} /\ log = <<>> /\ high = -1
      /\ budget = [breaks |-> MaxBreaks, nacks |-> MaxNacks, sweeps |-> MaxSweeps,
                   dups |-> MaxDups]
  BY DEF Init
<1>2. Messages = {}
  BY <1>1, EmptyRange DEF Messages
<1>3. IdInv
  BY <1>2 DEF IdInv
<1>4. CustodyInv
  BY <1>1, EmptyRange DEF CustodyInv
<1>5. SrcInv /\ LogInv
  BY <1>1, EmptyRange DEF SrcInv, LogInv
<1>6. RetryBounded
  BY <1>1, EmptyRange, StreamBounds DEF RetryBounded
<1>7. TypeOK
  <2>1. budget \in [{"breaks", "nacks", "sweeps", "dups"} -> Nat]
    BY <1>1, StreamBounds
  <2>2. \A S : <<>> \in Seq(S)
    BY EmptySeq
  <2>3. gen \in 0 .. MaxSeq
    BY <1>1, StreamBounds
  <2> QED
    BY <1>1, <2>1, <2>2, <2>3 DEF TypeOK
<1> QED
  BY <1>3, <1>4, <1>5, <1>6, <1>7 DEF UplinkInv

LEMMA ReceiveKeeps ==
  ASSUME UplinkInv, Receive
  PROVE  UplinkInv'
<1>1. /\ gen < MaxSeq /\ gen' = gen + 1 /\ src' = Append(src, gen + 1)
      /\ UNCHANGED <<dupq, nextId, retryIds, inflight, staged, confs, budget,
                     conn, net, late, log, high>>
      /\ phase' = phase \/ (phase = "select" /\ phase' = "pump")
  <2>1. gen < MaxSeq /\ gen' = gen + 1 /\ src' = Append(src, gen + 1)
    BY Zenon DEF Receive
  <2>2. UNCHANGED <<dupq, nextId, retryIds, inflight, staged, confs, brokerVars, budget>>
    BY Zenon DEF Receive
  <2>3. phase' = phase \/ (phase = "select" /\ phase' = "pump")
    BY DEF Receive
  <2> QED
    BY <2>1, <2>2, <2>3 DEF brokerVars
<1>2. /\ gen \in Nat /\ gen' \in 0 .. MaxSeq /\ src \in Seq(1 .. gen) /\ dupq \in Seq(1 .. gen)
  BY <1>1, StreamBounds DEF UplinkInv, TypeOK
<1>3. src \in Seq(1 .. gen') /\ dupq \in Seq(1 .. gen') /\ gen + 1 \in 1 .. gen'
  <2>1. 1 .. gen \subseteq 1 .. gen' /\ gen + 1 \in 1 .. gen'
    BY <1>1, <1>2
  <2>2. \A S, T : S \subseteq T => Seq(S) \subseteq Seq(T)
    OBVIOUS
  <2> QED
    BY <1>2, <2>1, <2>2
<1>4. /\ src' \in Seq(1 .. gen') /\ Len(src') = Len(src) + 1 /\ Len(src) \in Nat
      /\ \A i \in 1 .. Len(src) : src'[i] = src[i]
      /\ src'[Len(src) + 1] = gen + 1
  BY <1>1, <1>3, AppendProperties, LenProperties
<1>5. Taken' = Taken /\ Taken \in Int
  BY <1>1, <1>2, <1>4 DEF Taken
<1>6. TypeOK'
  <2>1. phase' \in {"down", "pump", "send", "select"}
    BY <1>1 DEF UplinkInv, TypeOK
  <2>2. (phase' = "send" <=> staged' # <<>>) /\ (phase' = "down" <=> conn' = "none")
    BY <1>1 DEF UplinkInv, TypeOK
  <2> QED
    BY <1>1, <1>2, <1>3, <1>4, <2>1, <2>2 DEF UplinkInv, TypeOK
<1>7. SrcInv'
  <2>1. ASSUME NEW i \in 1 .. Len(src) + 1 PROVE src'[i] = Taken + i
    <3>1. CASE i <= Len(src)
      <4>1. i \in 1 .. Len(src)
        BY <1>4, <3>1
      <4> QED
        BY <1>4, <4>1 DEF UplinkInv, SrcInv
    <3>2. CASE ~(i <= Len(src))
      <4>1. i = Len(src) + 1 /\ Taken + i = gen + 1
        <5>1. i \in Int /\ Len(src) \in Int /\ gen \in Int
          BY <1>2, <1>4
        <5>2. i = Len(src) + 1
          BY <3>2, <5>1
        <5> QED
          BY <5>1, <5>2 DEF Taken
      <4> QED
        BY <1>4, <4>1
    <3> QED
      BY <3>1, <3>2
  <2> QED
    BY <1>4, <1>5, <2>1 DEF SrcInv
<1>8. IdInv'
  <2>1. Messages' = Messages
    BY <1>1 DEF Messages
  <2> QED
    BY <1>1, <1>5, <2>1, FewerMessages DEF UplinkInv
<1>9. CustodyInv' /\ LogInv' /\ RetryBounded'
  BY <1>1 DEF UplinkInv, CustodyInv, LogInv, RetryBounded
<1> QED
  BY <1>6, <1>7, <1>8, <1>9 DEF UplinkInv

LEMMA FillBatchKeeps ==
  ASSUME UplinkInv, FillBatch
  PROVE  UplinkInv'
<1>1. /\ phase = "pump"
      /\ phase' = (IF staged' = <<>> THEN "select" ELSE "send")
      /\ dupq' = SubSeq(dupq, Dups + 1, Len(dupq))
      /\ src' = SubSeq(src, New + 1, Len(src))
      /\ nextId' = nextId + Dups + New
      /\ UNCHANGED <<gen, confs, conn, net, late, log, high, budget>>
  BY BatchSteps DEF brokerVars
<1>2. TypeOK /\ SrcInv /\ IdInv /\ CustodyInv /\ LogInv /\ RetryBounded
  BY DEF UplinkInv
<1>3. /\ Room \in Nat /\ (Room > 0 => Room + Len(inflight) <= ConfirmWindow)
      /\ Again \in 0 .. Len(retryIds) /\ Dups \in 0 .. Len(dupq) /\ New \in 0 .. Len(src)
      /\ Again + Dups + New <= Room
      /\ Again = Room \/ Again = Len(retryIds)
  BY <1>2, BatchSizes
<1>4. /\ Dups \in Nat /\ New \in Nat /\ Again \in Nat /\ Len(src) \in Nat /\ Len(dupq) \in Nat
      /\ gen \in Nat /\ nextId \in Nat /\ Len(retryIds) \in Nat /\ Len(inflight) \in Nat
  BY <1>2, <1>3, LenProperties, StreamBounds DEF TypeOK
<1>5. /\ staged' \in Seq(Msg) /\ inflight' \in Seq(Msg) /\ retryIds' \in Seq(Msg)
      /\ Len(inflight') = Len(inflight) + Again + Dups + New
      /\ Len(retryIds') = Len(retryIds) - Again
      /\ Range(Resent) \subseteq Range(retryIds)
      /\ Range(staged') = Range(Resent) \cup Range(Fresh)
      /\ Range(inflight') = Range(inflight) \cup Range(staged')
      /\ Range(retryIds) = Range(retryIds') \cup Range(Resent)
      /\ CustodyInv'
  BY <1>2, BatchFacts
<1>6. /\ src' \in Seq(1 .. gen) /\ Len(src') = Len(src) - New
      /\ \A j \in 1 .. Len(src) - New : src'[j] = src[New + j]
  <2>1. src \in Seq(1 .. gen)
    BY <1>2 DEF TypeOK
  <2>2. LET t == SubSeq(src, New + 1, Len(src))
        IN /\ t \in Seq(1 .. gen) /\ Len(t) = Len(src) - New
           /\ \A j \in 1 .. Len(src) - New : t[j] = src[New + j]
    BY <1>3, <2>1, DropFirst
  <2> QED
    BY <1>1, <2>2
<1>7. dupq' \in Seq(1 .. gen)
  <2>1. dupq \in Seq(1 .. gen)
    BY <1>2 DEF TypeOK
  <2>2. LET t == SubSeq(dupq, Dups + 1, Len(dupq)) IN t \in Seq(1 .. gen)
    BY <1>3, <2>1, DropFirst
  <2> QED
    BY <1>1, <2>2
<1>8. Taken' = Taken + New /\ Taken \in Int
  <2>1. Taken' = gen - (Len(src) - New)
    BY <1>1, <1>6 DEF Taken
  <2> QED
    BY <1>4, <2>1 DEF Taken
<1>9. TypeOK'
  <2>1. nextId' \in Nat
    BY <1>1, <1>4
  <2>2. /\ phase' \in {"down", "pump", "send", "select"}
        /\ phase' = "send" <=> staged' # <<>>
        /\ phase' = "down" <=> conn' = "none"
    BY <1>1, <1>2 DEF TypeOK
  <2> QED
    BY <1>1, <1>2, <1>5, <1>6, <1>7, <2>1, <2>2 DEF TypeOK
<1>10. SrcInv'
  <2>1. ASSUME NEW i \in 1 .. Len(src) - New PROVE src'[i] = Taken + New + i
    <3>1. New + i \in 1 .. Len(src) /\ i \in Int
      BY <1>4, <2>1, <1>3
    <3>2. src[New + i] = Taken + (New + i)
      BY <1>2, <3>1 DEF SrcInv
    <3> QED
      BY <1>4, <1>6, <1>8, <3>1, <3>2
  <2> QED
    BY <1>6, <1>8, <2>1 DEF SrcInv
<1>11. IdInv'
  <2>1. /\ Fresh \in Seq(Msg) /\ Len(Fresh) = Dups + New
        /\ \A i \in 1 .. Dups + New :
             /\ Fresh[i].id = nextId + i - 1 /\ 1 <= Fresh[i].frame
             /\ Fresh[i].dup \/ Fresh[i].frame = Taken + (i - Dups)
             /\ ~Fresh[i].dup <=> i > Dups
    BY <1>2, FreshFacts
  <2>2. Messages' \subseteq Messages \cup Range(Fresh)
    BY <1>1, <1>5 DEF Messages
  <2>3. /\ \A m \in Messages : m \in Msg /\ m.id < nextId /\ 1 <= m.frame
                                /\ (m.dup \/ m.frame <= Taken)
        /\ \A m, n \in Messages : m.id = n.id => m = n
        /\ \A m, n \in Messages : ~m.dup /\ ~n.dup /\ m.frame = n.frame => m = n
    BY <1>2 DEF IdInv
  <2>4. ASSUME NEW m \in Range(Fresh)
        PROVE  \E i \in 1 .. Dups + New : m = Fresh[i]
    BY <2>1, ElementOf
  <2>5. ASSUME NEW m \in Range(Fresh)
        PROVE  /\ m \in Msg /\ nextId <= m.id /\ m.id < nextId' /\ 1 <= m.frame
               /\ ~m.dup => Taken < m.frame /\ m.frame <= Taken'
    <3>1. PICK i \in 1 .. Dups + New : m = Fresh[i]
      BY <2>4
    <3>2. m \in Msg /\ 1 <= m.frame
      BY <2>1, <3>1, ElementOf
    <3>3. /\ m.id = nextId + i - 1
          /\ ~m.dup => m.frame = Taken + (i - Dups) /\ i > Dups
      BY <2>1, <3>1
    <3>4. i \in Int /\ 1 <= i /\ i <= Dups + New
      BY <1>4
    <3> QED
      BY <1>1, <1>4, <1>8, <3>2, <3>3, <3>4
  <2>6. ASSUME NEW m \in Range(Fresh), NEW n \in Range(Fresh), m.id = n.id
        PROVE  m = n
    <3>1. PICK i \in 1 .. Dups + New : m = Fresh[i]
      BY <2>4
    <3>2. PICK j \in 1 .. Dups + New : n = Fresh[j]
      BY <2>4
    <3>3. nextId + i - 1 = nextId + j - 1
      BY <2>1, <2>6, <3>1, <3>2
    <3>4. i = j
      BY <1>4, <3>3
    <3> QED
      BY <3>1, <3>2, <3>4
  <2>7. ASSUME NEW m \in Range(Fresh), NEW n \in Range(Fresh),
               ~m.dup, ~n.dup, m.frame = n.frame
        PROVE  m = n
    <3>1. PICK i \in 1 .. Dups + New : m = Fresh[i]
      BY <2>4
    <3>2. PICK j \in 1 .. Dups + New : n = Fresh[j]
      BY <2>4
    <3>3. Taken + (i - Dups) = Taken + (j - Dups)
      BY <2>1, <2>7, <3>1, <3>2
    <3>4. i = j
      BY <1>4, <1>8, <3>3
    <3> QED
      BY <3>1, <3>2, <3>4
  <2>8. ASSUME NEW m \in Messages
        PROVE  m \in Msg /\ m.id < nextId' /\ 1 <= m.frame /\ (m.dup \/ m.frame <= Taken')
    <3>1. m \in Msg /\ m.id < nextId /\ 1 <= m.frame /\ (m.dup \/ m.frame <= Taken)
      BY <2>3
    <3>2. m.id \in Int /\ m.frame \in Int
      BY <3>1, MsgFields
    <3> QED
      BY <1>1, <1>4, <1>8, <3>1, <3>2
  <2>9. ASSUME NEW m \in Messages, NEW n \in Range(Fresh)
        PROVE  /\ m.id # n.id
               /\ ~m.dup /\ ~n.dup => m.frame # n.frame
    <3>1. /\ m.id < nextId /\ (m.dup \/ m.frame <= Taken) /\ m \in Msg
          /\ nextId <= n.id /\ (~n.dup => Taken < n.frame) /\ n \in Msg
      BY <2>3, <2>5
    <3>2. m.id \in Int /\ m.frame \in Int /\ n.id \in Int /\ n.frame \in Int
      BY <3>1, MsgFields
    <3> QED
      BY <1>4, <1>8, <3>1, <3>2
  <2>10. \A m \in Messages' : m \in Msg /\ m.id < nextId' /\ 1 <= m.frame
                               /\ (m.dup \/ m.frame <= Taken')
    BY <2>2, <2>5, <2>8
  <2>11. \A m, n \in Messages' : m.id = n.id => m = n
    BY <2>2, <2>3, <2>6, <2>9
  <2>12. \A m, n \in Messages' : ~m.dup /\ ~n.dup /\ m.frame = n.frame => m = n
    BY <2>2, <2>3, <2>7, <2>9
  <2> QED
    BY <2>10, <2>11, <2>12 DEF IdInv
<1>12. LogInv'
  BY <1>1, <1>2 DEF LogInv
<1>13. RetryBounded'
  <2>1. Len(retryIds) + Len(inflight) <= ConfirmWindow /\ ConfirmWindow \in Nat
    BY <1>2, StreamBounds DEF RetryBounded
  <2>2. Len(retryIds') + Len(inflight') = Len(retryIds) + Len(inflight) + Dups + New
    BY <1>4, <1>5
  <2>3. CASE Again = Room
    <3>1. Dups + New = 0
      BY <1>3, <1>4, <2>3
    <3> QED
      BY <1>4, <2>1, <2>2, <3>1 DEF RetryBounded
  <2>4. CASE Again # Room
    <3>1. Again = Len(retryIds) /\ Room > 0
      BY <1>3, <1>4, <2>4
    <3>2. Len(retryIds) + Dups + New <= Room /\ Room + Len(inflight) <= ConfirmWindow
      BY <1>3, <3>1
    <3> QED
      BY <1>3, <1>4, <2>1, <2>2, <3>2 DEF RetryBounded
  <2> QED
    BY <2>3, <2>4
<1> QED
  BY <1>5, <1>9, <1>10, <1>11, <1>12, <1>13 DEF UplinkInv

LEMMA SendOkKeeps ==
  ASSUME UplinkInv, SendOk
  PROVE  UplinkInv'
<1>1. /\ phase = "send" /\ staged' = <<>> /\ phase' = "pump"
      /\ net' = net \/ net' = net \o staged
      /\ UNCHANGED <<gen, src, dupq, nextId, retryIds, inflight, confs, conn, late, log,
                     high, budget>>
  BY DEF SendOk, Sent, edgeVars
<1>2. TypeOK /\ SrcInv /\ IdInv /\ CustodyInv /\ LogInv /\ RetryBounded
  BY DEF UplinkInv
<1>3. net' \in Seq(Msg) /\ Range(net') \subseteq Range(net) \cup Range(staged)
  <2>1. net \in Seq(Msg) /\ staged \in Seq(Msg)
    BY <1>2 DEF TypeOK
  <2>2. net \o staged \in Seq(Msg) /\ Range(net \o staged) = Range(net) \cup Range(staged)
    BY <2>1, ConcatRange
  <2> QED
    BY <1>1, <2>1, <2>2
<1>4. TypeOK'
  <2>1. staged' \in Seq(Msg)
    BY <1>1, EmptySeq
  <2>2. phase' = "send" <=> staged' # <<>>
    BY <1>1
  <2>3. phase' = "down" <=> conn' = "none"
    BY <1>1, <1>2 DEF TypeOK
  <2> QED
    BY <1>1, <1>2, <1>3, <2>1, <2>2, <2>3 DEF TypeOK
<1>5. IdInv'
  <2>1. Messages' \subseteq Messages
    BY <1>1, <1>2, <1>3 DEF Messages, CustodyInv
  <2>2. Taken' = Taken
    BY <1>1 DEF Taken
  <2> QED
    BY <1>1, <1>2, <2>1, <2>2, FewerMessages
<1>6. SrcInv' /\ LogInv' /\ RetryBounded'
  BY <1>1, <1>2 DEF SrcInv, LogInv, RetryBounded, Taken
<1>7. CustodyInv'
  BY <1>1, <1>2, EmptyRange DEF CustodyInv
<1> QED
  BY <1>4, <1>5, <1>6, <1>7 DEF UplinkInv

LEMMA SendFailKeeps ==
  ASSUME UplinkInv, SendFail
  PROVE  UplinkInv'
<1>1. /\ Drain(SelectSeq(staged, LAMBDA m : ~m.dup)) /\ phase = "send"
      /\ late' = late \/ late' = late \cup {staged}
      /\ UNCHANGED <<gen, src, dupq, nextId, net, log, high, budget>>
  BY DEF SendFail
<1>2. TypeOK /\ SrcInv /\ IdInv /\ CustodyInv /\ LogInv /\ RetryBounded
  BY DEF UplinkInv
<1>3. /\ retryIds' \in Seq(Msg)
      /\ Range(retryIds') = Range(retryIds) \cup Originals(inflight)
      /\ CustodyInv' /\ RetryBounded'
      /\ inflight' = <<>> /\ staged' = <<>> /\ confs' = <<>>
      /\ phase' = "down" /\ conn' = "none"
  BY <1>1, <1>2, DrainFacts
<1>4. TypeOK'
  <2>1. late' \subseteq Seq(Msg) \ {<<>>}
    BY <1>1, <1>2 DEF TypeOK
  <2>2. \A S : <<>> \in Seq(S)
    BY EmptySeq
  <2> QED
    BY <1>1, <1>2, <1>3, <2>1, <2>2 DEF TypeOK
<1>5. IdInv'
  <2>1. Messages' \subseteq Messages
    BY <1>1, <1>2, <1>3, EmptyRange DEF Messages, Originals, CustodyInv
  <2>2. Taken' = Taken
    BY <1>1 DEF Taken
  <2> QED
    BY <1>1, <1>2, <2>1, <2>2, FewerMessages
<1>6. SrcInv' /\ LogInv'
  BY <1>1, <1>2 DEF SrcInv, LogInv, Taken
<1> QED
  BY <1>3, <1>4, <1>5, <1>6 DEF UplinkInv

LEMMA SessionLostKeeps ==
  ASSUME UplinkInv, SessionLost
  PROVE  UplinkInv'
<1>1. /\ Drain(<<>>)
      /\ UNCHANGED <<gen, src, dupq, nextId, net, late, log, high, budget>>
  BY DEF SessionLost
<1>2. TypeOK /\ SrcInv /\ IdInv /\ CustodyInv /\ LogInv /\ RetryBounded
  BY DEF UplinkInv
<1>3. /\ retryIds' \in Seq(Msg)
      /\ Range(retryIds') = Range(retryIds) \cup Originals(inflight)
      /\ CustodyInv' /\ RetryBounded'
      /\ inflight' = <<>> /\ staged' = <<>> /\ confs' = <<>>
      /\ phase' = "down" /\ conn' = "none"
  BY <1>1, <1>2, DrainFacts
<1>4. TypeOK'
  <2>1. \A S : <<>> \in Seq(S)
    BY EmptySeq
  <2> QED
    BY <1>1, <1>2, <1>3, <2>1 DEF TypeOK
<1>5. IdInv'
  <2>1. Messages' \subseteq Messages
    BY <1>1, <1>2, <1>3, EmptyRange DEF Messages, Originals
  <2>2. Taken' = Taken
    BY <1>1 DEF Taken
  <2> QED
    BY <1>1, <1>2, <2>1, <2>2, FewerMessages
<1>6. SrcInv' /\ LogInv'
  BY <1>1, <1>2 DEF SrcInv, LogInv, Taken
<1> QED
  BY <1>3, <1>4, <1>5, <1>6 DEF UplinkInv

LEMMA SpentBudget ==
  ASSUME budget \in [{"breaks", "nacks", "sweeps", "dups"} -> Nat],
         NEW what \in {"breaks", "nacks", "sweeps", "dups"}, Spend(what)
  PROVE  budget' \in [{"breaks", "nacks", "sweeps", "dups"} -> Nat]
<1>1. budget[what] \in Nat /\ budget[what] > 0
  BY DEF Spend
<1>2. budget[what] - 1 \in Nat
  BY <1>1
<1> QED BY <1>2 DEF Spend

\* The confirmation of one message: it leaves the map, and waits to be sent
\* again if it was refused and is an original.
LEMMA ConfirmFacts ==
  ASSUME UplinkInv, Confirm
  PROVE  /\ phase = "select" /\ phase' = "pump" /\ confs # <<>> /\ confs' = Tail(confs)
         /\ UNCHANGED <<gen, src, nextId, staged, conn, net, late, log, high>>
         /\ \/ UNCHANGED <<inflight, retryIds, dupq, budget>>
            \/ \E i \in 1 .. Len(inflight) :
                 /\ inflight[i].id = Head(confs)[1] /\ inflight' = RemoveAt(inflight, i)
                 /\ Settle(inflight[i], Head(confs)[2])
<1>1. DOMAIN inflight = 1 .. Len(inflight)
  BY LenProperties DEF UplinkInv, TypeOK
<1>2. /\ phase = "select" /\ phase' = "pump" /\ confs # <<>> /\ confs' = Tail(confs)
      /\ UNCHANGED <<gen, src, nextId, staged, brokerVars>>
      /\ \/ UNCHANGED <<inflight, retryIds, dupq, budget>>
         \/ \E i \in DOMAIN inflight :
              /\ inflight[i].id = Head(confs)[1] /\ inflight' = RemoveAt(inflight, i)
              /\ Settle(inflight[i], Head(confs)[2])
  BY Zenon DEF Confirm
<1> QED
  BY <1>1, <1>2 DEF brokerVars

LEMMA ConfirmKeeps ==
  ASSUME UplinkInv, Confirm
  PROVE  UplinkInv'
<1>1. /\ phase = "select" /\ phase' = "pump" /\ confs # <<>> /\ confs' = Tail(confs)
      /\ UNCHANGED <<gen, src, nextId, staged, conn, net, late, log, high>>
  BY ConfirmFacts
<1>2. TypeOK /\ SrcInv /\ IdInv /\ CustodyInv /\ LogInv /\ RetryBounded
  BY DEF UplinkInv
<1>3. confs' \in Seq(Nat \X BOOLEAN) /\ staged = <<>>
  <2>1. confs \in Seq(Nat \X BOOLEAN)
    BY <1>2 DEF TypeOK
  <2>2. staged = <<>>
    BY <1>1, <1>2 DEF TypeOK
  <2> QED
    BY <1>1, <2>1, <2>2, HeadRest
<1>4. \/ UNCHANGED <<inflight, retryIds, dupq, budget>>
      \/ \E i \in 1 .. Len(inflight) :
           /\ inflight[i].id = Head(confs)[1] /\ inflight' = RemoveAt(inflight, i)
           /\ Settle(inflight[i], Head(confs)[2])
  BY ConfirmFacts
<1>5. SUFFICES
      /\ inflight' \in Seq(Msg) /\ retryIds' \in Seq(Msg) /\ dupq' \in Seq(1 .. gen)
      /\ budget' \in [{"breaks", "nacks", "sweeps", "dups"} -> Nat]
      /\ Range(inflight') \subseteq Range(inflight)
      /\ Range(retryIds') \subseteq Range(retryIds) \cup Range(inflight)
      /\ CustodyInv' /\ RetryBounded'
  <2>1. TypeOK'
    <3>1. phase' = "send" <=> staged' # <<>>
      BY <1>1, <1>3
    <3>2. phase' = "down" <=> conn' = "none"
      BY <1>1, <1>2 DEF TypeOK
    <3> QED
      BY <1>1, <1>2, <1>3, <1>5, <3>1, <3>2 DEF TypeOK
  <2>2. IdInv'
    <3>1. Messages' \subseteq Messages
      BY <1>1, <1>5 DEF Messages
    <3>2. Taken' = Taken
      BY <1>1 DEF Taken
    <3> QED
      BY <1>1, <1>2, <3>1, <3>2, FewerMessages
  <2>3. SrcInv' /\ LogInv'
    BY <1>1, <1>2 DEF SrcInv, LogInv, Taken
  <2> QED
    BY <1>5, <2>1, <2>2, <2>3 DEF UplinkInv
<1>6. CASE UNCHANGED <<inflight, retryIds, dupq, budget>>
  BY <1>1, <1>2, <1>6 DEF TypeOK, CustodyInv, RetryBounded
<1>7. ASSUME NEW i \in 1 .. Len(inflight), inflight' = RemoveAt(inflight, i),
             Settle(inflight[i], Head(confs)[2])
      PROVE  /\ inflight' \in Seq(Msg) /\ retryIds' \in Seq(Msg) /\ dupq' \in Seq(1 .. gen)
             /\ budget' \in [{"breaks", "nacks", "sweeps", "dups"} -> Nat]
             /\ Range(inflight') \subseteq Range(inflight)
             /\ Range(retryIds') \subseteq Range(retryIds) \cup Range(inflight)
             /\ CustodyInv' /\ RetryBounded'
  <2> DEFINE m == inflight[i]
  <2>1. /\ inflight \in Seq(Msg) /\ retryIds \in Seq(Msg) /\ dupq \in Seq(1 .. gen)
        /\ IsInjective(inflight) /\ IsInjective(retryIds)
        /\ Range(retryIds) \cap Range(inflight) = {}
    BY <1>2 DEF TypeOK, CustodyInv
  <2>2. m \in Msg /\ m \in Range(inflight) /\ Len(inflight) \in Nat /\ Len(retryIds) \in Nat
    BY <2>1, ElementOf
  <2>3. /\ inflight' \in Seq(Msg) /\ Len(inflight') = Len(inflight) - 1
        /\ \A j \in 1 .. Len(inflight) - 1 :
             inflight'[j] = IF j < i THEN inflight[j] ELSE inflight[j + 1]
        /\ Range(inflight) = Range(inflight') \cup {m}
    <3>1. /\ RemoveAt(inflight, i) \in Seq(Msg)
          /\ Len(RemoveAt(inflight, i)) = Len(inflight) - 1
          /\ \A j \in 1 .. Len(inflight) - 1 :
               RemoveAt(inflight, i)[j] = IF j < i THEN inflight[j] ELSE inflight[j + 1]
          /\ Range(inflight) = Range(RemoveAt(inflight, i)) \cup {inflight[i]}
      BY <2>1, TakeOut
    <3> QED
      BY <1>7, <3>1
  <2>4. DOMAIN inflight = 1 .. Len(inflight) /\ DOMAIN inflight' = 1 .. Len(inflight) - 1
    BY <2>1, <2>3, LenProperties
  <2>5. \A j, k \in 1 .. Len(inflight) : inflight[j] = inflight[k] => j = k
    BY <2>1, <2>4 DEF IsInjective
  <2>6. IsInjective(inflight')
    <3>1. ASSUME NEW j \in 1 .. Len(inflight) - 1, NEW k \in 1 .. Len(inflight) - 1,
                 inflight'[j] = inflight'[k]
          PROVE  j = k
      <4>1. /\ j \in 1 .. Len(inflight) /\ j + 1 \in 1 .. Len(inflight)
            /\ k \in 1 .. Len(inflight) /\ k + 1 \in 1 .. Len(inflight)
        BY <2>2
      <4>2. /\ inflight'[j] = inflight[IF j < i THEN j ELSE j + 1]
            /\ inflight'[k] = inflight[IF k < i THEN k ELSE k + 1]
        BY <2>3
      <4>3. (IF j < i THEN j ELSE j + 1) = (IF k < i THEN k ELSE k + 1)
        BY <2>5, <3>1, <4>1, <4>2
      <4> QED
        BY <2>2, <4>3
    <3> QED
      BY <2>4, <3>1 DEF IsInjective
  <2>7. m \notin Range(inflight')
    <3>1. ASSUME NEW j \in 1 .. Len(inflight) - 1 PROVE inflight'[j] # m
      <4>1. j \in 1 .. Len(inflight) /\ j + 1 \in 1 .. Len(inflight)
        BY <2>2
      <4>2. inflight'[j] = inflight[IF j < i THEN j ELSE j + 1]
        BY <2>3
      <4>3. (IF j < i THEN j ELSE j + 1) # i
        BY <2>2
      <4> QED
        BY <2>5, <4>1, <4>2, <4>3
    <3> QED
      BY <2>3, <3>1, ElementOf
  <2>8. /\ \/ retryIds' = retryIds
           \/ ~m.dup /\ retryIds' = Append(retryIds, m)
        /\ dupq' = dupq \/ (~m.dup /\ dupq' = Append(dupq, m.frame))
        /\ budget' = budget \/ Spend("dups")
    BY <1>7 DEF Settle, RestackRefused
  <2>9. dupq' \in Seq(1 .. gen)
    <3>1. ASSUME ~m.dup PROVE m.frame \in 1 .. gen
      <4>1. 1 <= m.frame /\ m.frame <= Taken /\ m.frame \in Int
        BY <1>2, <2>2, <3>1, MsgFields DEF IdInv, Messages
      <4>2. gen \in Int /\ Len(src) \in Nat
        BY <1>2, StreamBounds, LenProperties DEF TypeOK
      <4> QED
        BY <4>1, <4>2 DEF Taken
    <3>2. CASE dupq' = dupq
      BY <2>1, <3>2
    <3>3. CASE ~m.dup /\ dupq' = Append(dupq, m.frame)
      <4> DEFINE f == m.frame
      <4>1. f \in 1 .. gen
        BY <3>1, <3>3
      <4> HIDE DEF f
      <4>2. Append(dupq, f) \in Seq(1 .. gen)
        BY <2>1, <4>1, AppendProperties
      <4> QED
        BY <3>3, <4>2 DEF f
    <3> QED
      BY <2>8, <3>2, <3>3
  <2>10. budget' \in [{"breaks", "nacks", "sweeps", "dups"} -> Nat]
    <3>1. budget \in [{"breaks", "nacks", "sweeps", "dups"} -> Nat]
      BY <1>2 DEF TypeOK
    <3> QED BY <2>8, <3>1, SpentBudget
  <2>11. CASE retryIds' = retryIds
    <3>1. CustodyInv'
      BY <1>1, <1>2, <1>3, <2>1, <2>3, <2>6, <2>11, EmptyRange DEF CustodyInv
    <3>2. RetryBounded'
      BY <1>2, <2>2, <2>3, <2>11, StreamBounds DEF RetryBounded
    <3> QED
      BY <2>1, <2>3, <2>9, <2>10, <2>11, <3>1, <3>2
  <2>12. CASE ~m.dup /\ retryIds' = Append(retryIds, m)
    <3>0. retryIds' \in Seq(Msg) /\ Len(retryIds') = Len(retryIds) + 1
      BY <2>1, <2>2, <2>12, AppendProperties
    <3>1. Range(retryIds') = Range(retryIds) \cup {m}
      BY <2>1, <2>2, <2>12, RangeAppend
    <3>2. IsInjective(retryIds')
      <4>1. /\ \A j \in 1 .. Len(retryIds) : retryIds'[j] = retryIds[j]
            /\ retryIds'[Len(retryIds) + 1] = m
        BY <2>1, <2>2, <2>12, AppendProperties
      <4>2. DOMAIN retryIds = 1 .. Len(retryIds) /\ DOMAIN retryIds' = 1 .. Len(retryIds) + 1
        BY <2>1, <3>0, LenProperties
      <4>3. \A j \in 1 .. Len(retryIds) : retryIds[j] # m
        BY <2>1, <2>2, ElementOf
      <4>4. ASSUME NEW j \in 1 .. Len(retryIds) + 1, NEW k \in 1 .. Len(retryIds) + 1,
                   retryIds'[j] = retryIds'[k]
            PROVE  j = k
        <5>1. /\ j \in 1 .. Len(retryIds) \/ j = Len(retryIds) + 1
              /\ k \in 1 .. Len(retryIds) \/ k = Len(retryIds) + 1
          BY <2>2
        <5> QED
          BY <2>1, <4>1, <4>2, <4>3, <4>4, <5>1 DEF IsInjective
      <4> QED
        BY <4>2, <4>4 DEF IsInjective
    <3>3. CustodyInv'
      BY <1>1, <1>2, <1>3, <2>1, <2>3, <2>6, <2>7, <2>12, <3>1, <3>2, EmptyRange
         DEF CustodyInv
    <3>4. RetryBounded'
      BY <1>2, <2>2, <2>3, <3>0, StreamBounds DEF RetryBounded
    <3> QED
      BY <2>2, <2>3, <2>9, <2>10, <3>0, <3>1, <3>3, <3>4
  <2> QED
    BY <2>8, <2>11, <2>12
<1> QED
  BY <1>4, <1>6, <1>7

LEMMA SweepKeeps ==
  ASSUME UplinkInv, Sweep
  PROVE  UplinkInv'
<1>1. /\ phase = "select" /\ phase' = "pump" /\ Spend("sweeps")
      /\ UNCHANGED <<gen, src, dupq, nextId, staged, confs, conn, net, late, log, high>>
  BY Zenon DEF Sweep, brokerVars
<1>2. TypeOK /\ SrcInv /\ IdInv /\ CustodyInv /\ LogInv /\ RetryBounded
  BY DEF UplinkInv
<1>3. PICK n \in 1 .. Len(inflight) :
        /\ retryIds' \in Stacked(SubSeq(inflight, 1, n))
        /\ inflight' = SubSeq(inflight, n + 1, Len(inflight))
  BY Zenon DEF Sweep, Restack
<1> DEFINE old == SubSeq(inflight, 1, n)
           rest == SubSeq(inflight, n + 1, Len(inflight))
<1>4. /\ inflight \in Seq(Msg) /\ IsInjective(inflight) /\ n \in 0 .. Len(inflight)
      /\ Len(inflight) \in Nat /\ Len(retryIds) \in Nat
      /\ Range(inflight) \cap Range(retryIds) = {}
  BY <1>2, LenProperties DEF TypeOK, CustodyInv
<1>5. /\ old \in Seq(Msg) /\ Len(old) = n /\ rest \in Seq(Msg) /\ Len(rest) = Len(inflight) - n
      /\ Range(inflight) = Range(old) \cup Range(rest)
      /\ IsInjective(old) /\ IsInjective(rest) /\ Range(old) \cap Range(rest) = {}
  BY <1>4, Split
<1>6. retryIds' \in Stacked(old) /\ inflight' = rest
  BY <1>3
<1> HIDE DEF old, rest
<1>7. /\ retryIds' \in Seq(Msg) /\ IsInjective(retryIds')
      /\ Len(retryIds') <= Len(retryIds) + Len(old)
      /\ Range(retryIds') = Range(retryIds) \cup Originals(old)
      /\ \A m \in Range(retryIds') : ~m.dup
  <2>1. Range(old) \cap Range(retryIds) = {}
    BY <1>4, <1>5
  <2> QED
    BY <1>2, <1>5, <1>6, <2>1, StackedFacts
<1>8. staged = <<>>
  BY <1>1, <1>2 DEF TypeOK
<1>9. TypeOK'
  <2>1. budget' \in [{"breaks", "nacks", "sweeps", "dups"} -> Nat]
    <3>1. budget \in [{"breaks", "nacks", "sweeps", "dups"} -> Nat]
      BY <1>2 DEF TypeOK
    <3> QED BY <1>1, <3>1, SpentBudget
  <2>2. phase' = "send" <=> staged' # <<>>
    BY <1>1, <1>8
  <2>3. phase' = "down" <=> conn' = "none"
    BY <1>1, <1>2 DEF TypeOK
  <2> QED
    BY <1>1, <1>2, <1>5, <1>6, <1>7, <2>1, <2>2, <2>3 DEF TypeOK
<1>10. CustodyInv'
  <2>1. Range(retryIds') \cap Range(inflight') = {}
    BY <1>4, <1>5, <1>6, <1>7 DEF Originals
  <2>2. Range(staged') \subseteq Range(inflight')
    BY <1>1, <1>8, EmptyRange
  <2> QED
    BY <1>5, <1>6, <1>7, <2>1, <2>2 DEF CustodyInv
<1>11. RetryBounded'
  <2>1. Len(retryIds') \in Nat
    BY <1>7, LenProperties
  <2> QED
    BY <1>2, <1>4, <1>5, <1>6, <1>7, <2>1, StreamBounds DEF RetryBounded
<1>12. IdInv'
  <2>1. Messages' \subseteq Messages
    BY <1>1, <1>5, <1>6, <1>7 DEF Messages, Originals
  <2>2. Taken' = Taken
    BY <1>1 DEF Taken
  <2> QED
    BY <1>1, <1>2, <2>1, <2>2, FewerMessages
<1>13. SrcInv' /\ LogInv'
  BY <1>1, <1>2 DEF SrcInv, LogInv, Taken
<1> QED
  BY <1>9, <1>10, <1>11, <1>12, <1>13 DEF UplinkInv

LEMMA TickOrConnectKeeps ==
  ASSUME UplinkInv, Tick \/ Connect
  PROVE  UplinkInv'
<1>1. /\ UNCHANGED <<gen, src, dupq, nextId, retryIds, inflight, staged, confs, net, late,
                     log, high, budget>>
      /\ phase' = "pump"
      /\ \/ phase = "select" /\ conn' = conn
         \/ phase = "down" /\ conn' = "up"
  BY DEF Tick, Connect, edgeVars, brokerVars
<1>2. TypeOK /\ SrcInv /\ IdInv /\ CustodyInv /\ LogInv /\ RetryBounded
  BY DEF UplinkInv
<1>3. TypeOK'
  BY <1>1, <1>2 DEF TypeOK
<1>4. SrcInv' /\ CustodyInv' /\ LogInv' /\ RetryBounded'
  BY <1>1, <1>2 DEF SrcInv, CustodyInv, LogInv, RetryBounded, Taken
<1>5. IdInv'
  <2>1. Messages' = Messages /\ Taken' = Taken
    BY <1>1 DEF Messages, Taken
  <2> QED
    BY <1>1, <1>2, <2>1, FewerMessages
<1> QED
  BY <1>3, <1>4, <1>5 DEF UplinkInv

\* The broker's steps leave the edge's buffers alone.
EdgeSame == UNCHANGED <<gen, src, dupq, nextId, retryIds, phase, inflight, staged>>

LEMMA BrokerKeeps ==
  ASSUME UplinkInv, EdgeSame, TypeOK', LogInv', Messages' \subseteq Messages
  PROVE  UplinkInv'
<1>1. SrcInv' /\ CustodyInv' /\ RetryBounded'
  BY DEF EdgeSame, UplinkInv, SrcInv, CustodyInv, RetryBounded, Taken
<1>2. IdInv'
  <2>1. Taken' = Taken /\ nextId' = nextId
    BY DEF EdgeSame, Taken
  <2> QED
    BY <2>1, FewerMessages DEF UplinkInv
<1> QED
  BY <1>1, <1>2 DEF UplinkInv

\* The head of the wire reaches the broker, and an answer comes back.
LEMMA Answered ==
  ASSUME TypeOK, net # <<>>, net' = Tail(net), NEW ok \in BOOLEAN,
         confs' = Append(confs, <<Head(net).id, ok>>)
  PROVE  /\ Head(net) \in Msg /\ Range(net) = {Head(net)} \cup Range(net')
         /\ net' \in Seq(Msg) /\ confs' \in Seq(Nat \X BOOLEAN)
         /\ Range(confs') = Range(confs) \cup {<<Head(net).id, ok>>}
<1>1. net \in Seq(Msg) /\ confs \in Seq(Nat \X BOOLEAN)
  BY DEF TypeOK
<1>2. Head(net) \in Msg /\ Range(net) = {Head(net)} \cup Range(net') /\ net' \in Seq(Msg)
  BY <1>1, HeadRest
<1> DEFINE c == <<Head(net).id, ok>>
<1>3. c \in Nat \X BOOLEAN
  BY <1>2, MsgFields
<1> HIDE DEF c
<1>4. Append(confs, c) \in Seq(Nat \X BOOLEAN) /\ Range(Append(confs, c)) = Range(confs) \cup {c}
  BY <1>1, <1>3, AppendProperties, RangeAppend
<1> QED
  BY <1>2, <1>4 DEF c

LEMMA BrokerStoreKeeps ==
  ASSUME UplinkInv, BrokerStore
  PROVE  UplinkInv'
<1>1. /\ net # <<>> /\ Store(Head(net)) /\ net' = Tail(net)
      /\ confs' = Append(confs, <<Head(net).id, TRUE>>)
      /\ EdgeSame /\ UNCHANGED <<conn, late, budget>>
  BY DEF BrokerStore, EdgeSame, edgeVars
<1>2. TypeOK /\ LogInv
  BY DEF UplinkInv
<1>3. /\ Head(net) \in Msg /\ Range(net) = {Head(net)} \cup Range(net')
      /\ net' \in Seq(Msg) /\ confs' \in Seq(Nat \X BOOLEAN)
  BY <1>1, <1>2, Answered
<1>4. /\ log' \in Seq(Msg) /\ high' \in Nat \cup {-1} /\ LogInv'
      /\ Range(log') \subseteq Range(log) \cup {Head(net)}
  BY <1>1, <1>2, <1>3, StoreFacts
<1>5. TypeOK'
  BY <1>1, <1>2, <1>3, <1>4 DEF TypeOK, EdgeSame
<1>6. Messages' \subseteq Messages
  BY <1>1, <1>3, <1>4 DEF Messages, EdgeSame
<1> QED
  BY <1>1, <1>4, <1>5, <1>6, BrokerKeeps

LEMMA BrokerNackKeeps ==
  ASSUME UplinkInv, BrokerNack
  PROVE  UplinkInv'
<1>1. /\ net # <<>> /\ net' = Tail(net) /\ Spend("nacks")
      /\ confs' = Append(confs, <<Head(net).id, FALSE>>)
      /\ EdgeSame /\ UNCHANGED <<conn, late, log, high>>
  BY DEF BrokerNack, EdgeSame, edgeVars
<1>2. TypeOK /\ LogInv
  BY DEF UplinkInv
<1>3. /\ Head(net) \in Msg /\ Range(net) = {Head(net)} \cup Range(net')
      /\ net' \in Seq(Msg) /\ confs' \in Seq(Nat \X BOOLEAN)
  BY <1>1, <1>2, Answered
<1>4. TypeOK'
  <2>1. budget' \in [{"breaks", "nacks", "sweeps", "dups"} -> Nat]
    <3>1. budget \in [{"breaks", "nacks", "sweeps", "dups"} -> Nat]
      BY <1>2 DEF TypeOK
    <3> QED BY <1>1, <3>1, SpentBudget
  <2> QED
    BY <1>1, <1>2, <1>3, <2>1 DEF TypeOK, EdgeSame
<1>5. Messages' \subseteq Messages
  BY <1>1, <1>3 DEF Messages, EdgeSame
<1>6. LogInv'
  BY <1>1, <1>2 DEF LogInv
<1> QED
  BY <1>1, <1>4, <1>5, <1>6, BrokerKeeps

LEMMA BreakKeeps ==
  ASSUME UplinkInv, Break
  PROVE  UplinkInv'
<1>1. /\ conn = "up" /\ conn' \in {"half", "closed"} /\ Spend("breaks")
      /\ late' = late \cup ({net} \ {<<>>}) /\ net' = <<>>
      /\ EdgeSame /\ UNCHANGED <<confs, log, high>>
  BY DEF Break, EdgeSame, edgeVars
<1>2. TypeOK /\ LogInv
  BY DEF UplinkInv
<1>3. TypeOK'
  <2>1. net' \in Seq(Msg) /\ late' \subseteq Seq(Msg) \ {<<>>}
    BY <1>1, <1>2, EmptySeq DEF TypeOK
  <2>2. phase # "down"
    BY <1>1, <1>2 DEF TypeOK
  <2> QED
    BY <1>1, <1>2, <2>1, <2>2 DEF TypeOK, EdgeSame, Spend
<1>4. Messages' \subseteq Messages
  BY <1>1, EmptyRange DEF Messages, EdgeSame
<1>5. LogInv'
  BY <1>1, <1>2 DEF LogInv
<1> QED
  BY <1>1, <1>3, <1>4, <1>5, BrokerKeeps

LEMMA BrokerLateKeeps ==
  ASSUME UplinkInv, BrokerLate
  PROVE  UplinkInv'
<1>1. EdgeSame /\ UNCHANGED <<confs, conn, net, budget>>
  BY DEF BrokerLate, EdgeSame, edgeVars
<1>2. PICK w \in late :
        Store(Head(w)) /\ late' = (late \ {w}) \cup ({Tail(w)} \ {<<>>})
  BY DEF BrokerLate
<1>3. TypeOK /\ LogInv
  BY DEF UplinkInv
<1>4. w \in Seq(Msg) /\ w # <<>>
  BY <1>3 DEF TypeOK
<1>5. Head(w) \in Msg /\ Tail(w) \in Seq(Msg) /\ Range(w) = {Head(w)} \cup Range(Tail(w))
  BY <1>4, HeadRest
<1>6. /\ log' \in Seq(Msg) /\ high' \in Nat \cup {-1} /\ LogInv'
      /\ Range(log') \subseteq Range(log) \cup {Head(w)}
  BY <1>2, <1>3, <1>5, StoreFacts
<1>7. TypeOK'
  BY <1>1, <1>2, <1>3, <1>5, <1>6 DEF TypeOK, EdgeSame
<1>8. Messages' \subseteq Messages
  <2>1. Range(w) \subseteq Messages
    BY DEF Messages
  <2>2. ASSUME NEW v \in late' PROVE Range(v) \subseteq Messages
    <3>1. v \in late \/ v = Tail(w)
      BY <1>2
    <3>2. ASSUME v \in late PROVE Range(v) \subseteq Messages
      BY <3>2 DEF Messages
    <3> QED
      BY <1>5, <2>1, <3>1, <3>2
  <2>3. UNION {Range(v) : v \in late'} \subseteq Messages
    BY <2>2
  <2>4. Range(log') \subseteq Messages
    <3>1. Range(log) \subseteq Messages
      BY DEF Messages
    <3> QED
      BY <1>5, <1>6, <2>1, <3>1
  <2>5. Range(retryIds') \cup Range(inflight') \cup Range(net') \subseteq Messages
    BY <1>1 DEF Messages, EdgeSame
  <2> QED
    BY <2>3, <2>4, <2>5 DEF Messages
<1> QED
  BY <1>1, <1>6, <1>7, <1>8, BrokerKeeps

\* A step in which nothing moves.
LEMMA StutterKeeps ==
  ASSUME UplinkInv, UNCHANGED vars
  PROVE  UplinkInv'
<1>1. UNCHANGED <<gen, src, dupq, nextId, retryIds, phase, inflight, staged, confs,
                  conn, net, late, log, high, budget>>
  BY DEF vars, edgeVars, brokerVars
<1>2. TypeOK' /\ LogInv' /\ EdgeSame
  BY <1>1 DEF UplinkInv, TypeOK, LogInv, EdgeSame
<1>3. Messages' = Messages
  BY <1>1 DEF Messages
<1> QED
  BY <1>2, <1>3, BrokerKeeps

\* Whatever the window, the batch and the faults: no id is used twice, and
\* what waits to be confirmed or to be sent again stays within one window
\* (publish_loop, StreamCustody and the stream's deduplication).
THEOREM UplinkInvariant == Spec => []UplinkInv
<1>1. ASSUME UplinkInv, [Next]_vars PROVE UplinkInv'
  <2>1. CASE Uplink
    BY <1>1, <2>1, ReceiveKeeps, FillBatchKeeps, SendOkKeeps, SendFailKeeps, ConfirmKeeps,
       SweepKeeps, TickOrConnectKeeps, SessionLostKeeps DEF Uplink
  <2>2. CASE Broker
    BY <1>1, <2>2, BrokerStoreKeeps, BrokerNackKeeps, BreakKeeps, BrokerLateKeeps DEF Broker
  <2>3. CASE UNCHANGED vars
    BY <1>1, <2>3, StutterKeeps
  <2> QED
    BY <1>1, <2>1, <2>2, <2>3 DEF Next
<1> QED
  BY StartsRight, <1>1, PTL DEF Spec

\* The state of the publisher is always of its type (StreamCustody and
\* publish_loop's own variables, uplink_stream.rs).
THEOREM StreamTypeCorrect == Spec => []TypeOK
<1>1. UplinkInv => TypeOK
  BY DEF UplinkInv
<1> QED
  BY UplinkInvariant, <1>1, PTL

\* An id, once given, means one message: what waits, what is in flight, what
\* is on the wire and what is stored under an id is the same message
\* (StreamCustody::assign and the retransmission stack).
THEOREM OneIdEach == Spec => []OneIdPerMessage
<1>1. ASSUME UplinkInv PROVE OneIdPerMessage
  <2>1. TypeOK /\ IdInv /\ CustodyInv
    BY <1>1 DEF UplinkInv
  <2>2. /\ retryIds \in Seq(Msg) /\ inflight \in Seq(Msg)
        /\ log \in Seq(Msg) /\ net \in Seq(Msg)
    BY <2>1 DEF TypeOK
  <2>3. /\ Custody \in Seq(Msg) /\ Range(Custody) = Range(retryIds) \cup Range(inflight)
        /\ IsInjective(Custody)
    <3>1. /\ retryIds \o inflight \in Seq(Msg)
          /\ Range(retryIds \o inflight) = Range(retryIds) \cup Range(inflight)
      BY <2>2, ConcatRange
    <3>2. IsInjective(retryIds \o inflight)
      BY <2>1, <2>2, ConcatInjective DEF CustodyInv
    <3> QED
      BY <3>1, <3>2 DEF Custody
  <2>4. Range(log \o net) = Range(log) \cup Range(net)
    BY <2>2, ConcatRange
  <2>5. DOMAIN Custody = 1 .. Len(Custody)
        /\ \A i \in 1 .. Len(Custody) : Custody[i] \in Range(Custody)
    BY <2>3, ElementOf
  <2>6. \A i, j \in DOMAIN Custody : i # j => Custody[i].id # Custody[j].id
    <3>1. \A m, n \in Range(Custody) : m.id = n.id => m = n
      BY <2>1, <2>3 DEF IdInv, Messages
    <3>2. \A i, j \in DOMAIN Custody : Custody[i] = Custody[j] => i = j
      BY <2>3 DEF IsInjective
    <3> QED
      BY <2>5, <3>1, <3>2
  <2>7. \A m \in Range(Custody) :
          /\ m.id < nextId
          /\ \A n \in Range(log \o net) : n.id = m.id => n = m
    BY <2>1, <2>3, <2>4 DEF IdInv, Messages
  <2> QED
    BY <2>1, <2>6, <2>7 DEF OneIdPerMessage, CustodyInv
<1> QED
  BY UplinkInvariant, <1>1, PTL

\* A frame is stored twice only when one of the two is an injected duplicate:
\* a retransmission never is, whatever connections break and whatever arrives
\* late (the ids of publish_loop, the deduplication of the stream).
THEOREM StoredOnce == Spec => []OnceUnlessInjected
<1>1. ASSUME UplinkInv PROVE OnceUnlessInjected
  <2>1. TypeOK /\ IdInv /\ LogInv
    BY <1>1 DEF UplinkInv
  <2>2. log \in Seq(Msg)
    BY <2>1 DEF TypeOK
  <2>3. /\ DOMAIN log = 1 .. Len(log) /\ Len(log) \in Nat
        /\ \A i \in 1 .. Len(log) : log[i] \in Msg /\ log[i] \in Range(log)
    BY <2>2, ElementOf
  <2>4. ASSUME NEW i \in 1 .. Len(log), NEW j \in 1 .. Len(log), i # j,
               log[i].frame = log[j].frame, ~log[i].dup, ~log[j].dup
        PROVE  FALSE
    <3>1. log[i] = log[j]
      BY <2>1, <2>3, <2>4 DEF IdInv, Messages
    <3>2. i < j \/ j < i
      BY <2>3, <2>4
    <3>3. log[i].id < log[j].id \/ log[j].id < log[i].id
      BY <2>1, <3>2 DEF LogInv
    <3>4. log[i].id \in Nat
      BY <2>3, MsgFields
    <3> QED
      BY <3>1, <3>3, <3>4
  <2> QED
    BY <2>3, <2>4 DEF OnceUnlessInjected
<1> QED
  BY UplinkInvariant, <1>1, PTL

\* However many sessions fail, what waits for a confirm or to be sent again is
\* at most one confirm window (the room the pump of publish_loop leaves).
THEOREM CustodyBounded == Spec => []RetryBounded
<1>1. UplinkInv => RetryBounded
  BY DEF UplinkInv
<1> QED
  BY UplinkInvariant, <1>1, PTL

-----------------------------------------------------------------------------
(* While no connection is lost and nothing is refused.                      *)

\* The wire with nothing staged behind it, and the wire that took the batch.
LEMMA NothingStaged ==
  ASSUME TypeOK, staged = <<>>
  PROVE  /\ Len(Pipe) = Len(net) /\ \A k \in 1 .. Len(net) : Pipe[k] = net[k]
<1>1. net \in Seq(Msg) /\ staged \in Seq(Msg) /\ Len(staged) = 0 /\ Len(net) \in Nat
  BY EmptyRange, LenProperties DEF TypeOK
<1>2. Len(net \o staged) = Len(net) + Len(staged)
  BY <1>1, ConcatRange
<1>3. \A k \in 1 .. Len(net) : (net \o staged)[k] = net[k]
  BY <1>1, ConcatAt
<1> QED
  BY <1>1, <1>2, <1>3 DEF Pipe

\* The order argument looks only at what is piped, stored and numbered.
LEMMA SamePipe ==
  ASSUME InTurn, high' = high, nextId' = nextId, Len(Pipe') = Len(Pipe),
         \A k \in 1 .. Len(Pipe) : Pipe'[k] = Pipe[k], Len(Pipe) \in Nat
  PROVE  InTurn'
<1>1. ASSUME NEW k \in 1 .. Len(Pipe'), NEW d \in Nat, high' < d, d < Pipe'[k].id
      PROVE  \E j \in 1 .. k - 1 : Pipe'[j].id = d
  <2>1. PICK j \in 1 .. k - 1 : Pipe[j].id = d
    BY <1>1, SMTT(30) DEF InTurn
  <2>2. j \in 1 .. Len(Pipe)
    BY <1>1
  <2> QED
    BY <2>1, <2>2
<1>2. ASSUME NEW d \in Nat, high' < d, d < nextId'
      PROVE  \E j \in 1 .. Len(Pipe') : Pipe'[j].id = d
  BY <1>2 DEF InTurn
<1> QED
  BY <1>1, <1>2 DEF InTurn

\* The steps that move no message: what is buffered may only grow.
LEMMA CalmSame ==
  ASSUME UplinkInv, Calm,
         UNCHANGED <<nextId, retryIds, inflight, staged, confs, net, late, log, high>>,
         conn' \in {"none", "up"},
         \A f \in 1 .. gen' : f \in 1 .. gen /\ f \in Range(src) => f \in Range(src'),
         \A f \in 1 .. gen' : f \in 1 .. gen \/ f \in Range(src')
  PROVE  Calm'
<1>1. InTurn'
  <2>1. Pipe' = Pipe
    BY DEF Pipe
  <2> QED
    BY <2>1 DEF Calm, InTurn
<1>2. Gapless'
  BY DEF Calm, Gapless
<1>3. AllKept'
  <2>1. \A f \in 1 .. gen :
          \/ f \in Range(src)
          \/ \E m \in Range(retryIds) \cup Originals(inflight) \cup Range(log) : m.frame = f
    BY DEF Calm, AllKept
  <2>2. Originals(inflight)' = Originals(inflight)
    BY DEF Originals
  <2> QED
    BY <2>1, <2>2 DEF AllKept
<1> QED
  BY <1>1, <1>2, <1>3 DEF Calm

LEMMA ReceiveCalm ==
  ASSUME UplinkInv, Calm, Receive
  PROVE  Calm'
<1>1. /\ gen' = gen + 1 /\ src' = Append(src, gen + 1)
      /\ UNCHANGED <<nextId, retryIds, inflight, staged, confs, conn, net, late, log, high>>
  BY DEF Receive, brokerVars
<1>2. gen \in Nat /\ src \in Seq(1 .. gen)
  BY StreamBounds DEF UplinkInv, TypeOK
<1>3. src \in Seq(Nat)
  <2>1. 1 .. gen \subseteq Nat
    BY <1>2
  <2>2. \A S, T : S \subseteq T => Seq(S) \subseteq Seq(T)
    OBVIOUS
  <2> QED
    BY <1>2, <2>1, <2>2
<1>4. Range(src') = Range(src) \cup {gen + 1}
  BY <1>1, <1>2, <1>3, RangeAppend
<1>5. \A f \in 1 .. gen' : f \in 1 .. gen \/ f = gen + 1
  BY <1>1, <1>2
<1>6. conn' \in {"none", "up"}
  BY <1>1 DEF Calm
<1> QED
  BY <1>1, <1>4, <1>5, <1>6, CalmSame

LEMMA TickOrConnectCalm ==
  ASSUME UplinkInv, Calm, Tick \/ Connect
  PROVE  Calm'
<1>1. /\ UNCHANGED <<gen, src, nextId, retryIds, inflight, staged, confs, net, late, log, high>>
      /\ conn' = conn \/ conn' = "up"
  BY DEF Tick, Connect, edgeVars, brokerVars
<1>2. conn' \in {"none", "up"}
  BY <1>1 DEF Calm
<1> QED
  BY <1>1, <1>2, CalmSame

LEMMA SendOkCalm ==
  ASSUME UplinkInv, Calm, SendOk
  PROVE  Calm'
<1>1. /\ phase = "send" /\ staged' = <<>>
      /\ net' = (IF conn = "up" THEN net \o staged ELSE net)
      /\ UNCHANGED <<gen, src, nextId, retryIds, inflight, confs, conn, late, log, high>>
  BY DEF SendOk, Sent, edgeVars
<1>2. TypeOK /\ TypeOK'
  BY SendOkKeeps DEF UplinkInv
<1>3. conn = "up"
  BY <1>1, <1>2 DEF TypeOK, Calm
<1>4. net' = Pipe
  BY <1>1, <1>3 DEF Pipe
<1>5. Len(Pipe') = Len(net') /\ \A k \in 1 .. Len(net') : Pipe'[k] = net'[k]
  <2>1. /\ net' \in Seq(Msg) /\ staged' \in Seq(Msg) /\ Len(staged') = 0 /\ Len(net') \in Nat
    BY <1>1, <1>2, EmptyRange, LenProperties DEF TypeOK
  <2> DEFINE a == net'
             b == staged'
  <2>2. a \in Seq(Msg) /\ b \in Seq(Msg) /\ Len(b) = 0 /\ Len(a) \in Nat
    BY <2>1
  <2> HIDE DEF a, b
  <2>3. Len(a \o b) = Len(a) + Len(b)
    BY <2>2, ConcatRange
  <2>4. \A k \in 1 .. Len(a) : (a \o b)[k] = a[k]
    BY <2>2, ConcatAt
  <2> QED
    BY <2>2, <2>3, <2>4 DEF Pipe, a, b
<1>6. InTurn'
  <2>1. Len(Pipe) \in Nat
    BY <1>2, <1>4, LenProperties DEF TypeOK
  <2> QED
    BY <1>1, <1>4, <1>5, <2>1, SamePipe DEF Calm
<1>7. Gapless'
  BY <1>1 DEF Calm, Gapless
<1>8. AllKept'
  BY <1>1 DEF Calm, AllKept, Originals
<1> QED
  BY <1>1, <1>6, <1>7, <1>8 DEF Calm

LEMMA SweepCalm ==
  ASSUME UplinkInv, Calm, Sweep
  PROVE  Calm'
<1>1. /\ phase = "select" /\ phase' = "pump"
      /\ UNCHANGED <<gen, src, nextId, staged, confs, conn, net, late, log, high>>
  BY Zenon DEF Sweep, brokerVars
<1>2. PICK n \in 1 .. Len(inflight) :
        /\ retryIds' \in Stacked(SubSeq(inflight, 1, n))
        /\ inflight' = SubSeq(inflight, n + 1, Len(inflight))
  BY Zenon DEF Sweep, Restack
<1> DEFINE old == SubSeq(inflight, 1, n)
           rest == SubSeq(inflight, n + 1, Len(inflight))
<1>3. /\ inflight \in Seq(Msg) /\ IsInjective(inflight) /\ n \in 0 .. Len(inflight)
      /\ Range(inflight) \cap Range(retryIds) = {}
  BY LenProperties DEF UplinkInv, TypeOK, CustodyInv
<1>4. /\ old \in Seq(Msg) /\ Range(inflight) = Range(old) \cup Range(rest) /\ IsInjective(old)
  BY <1>3, Split
<1>5. retryIds' \in Stacked(old) /\ inflight' = rest
  BY <1>2
<1> HIDE DEF old, rest
<1>6. Range(retryIds') = Range(retryIds) \cup Originals(old)
  <2>1. Range(old) \cap Range(retryIds) = {}
    BY <1>3, <1>4
  <2> QED
    BY <1>4, <1>5, <2>1, StackedFacts DEF UplinkInv
<1>7. Originals(inflight) \subseteq Range(retryIds') \cup Originals(inflight')
  BY <1>4, <1>5, <1>6 DEF Originals
<1>8. InTurn'
  <2>1. Pipe' = Pipe
    BY <1>1 DEF Pipe
  <2> QED
    BY <1>1, <2>1 DEF Calm, InTurn
<1>9. Gapless'
  BY <1>1 DEF Calm, Gapless
<1>10. AllKept'
  <2>1. Originals(inflight)' = Originals(inflight')
    BY DEF Originals
  <2>2. Range(retryIds) \cup Originals(inflight) \cup Range(log)
          \subseteq Range(retryIds') \cup Originals(inflight') \cup Range(log')
    BY <1>1, <1>6, <1>7
  <2> QED
    BY <1>1, <2>1, <2>2 DEF Calm, AllKept
<1> QED
  BY <1>1, <1>8, <1>9, <1>10 DEF Calm

\* A confirm settles what the stream holds: the ids up to high are all there,
\* and one id is one message.
LEMMA ConfirmCalm ==
  ASSUME UplinkInv, Calm, Confirm
  PROVE  Calm'
<1>1. /\ confs # <<>> /\ confs' = Tail(confs)
      /\ UNCHANGED <<gen, src, nextId, staged, conn, net, late, log, high>>
      /\ \/ UNCHANGED <<inflight, retryIds, dupq, budget>>
         \/ \E i \in 1 .. Len(inflight) :
              /\ inflight[i].id = Head(confs)[1] /\ inflight' = RemoveAt(inflight, i)
              /\ Settle(inflight[i], Head(confs)[2])
  BY ConfirmFacts
<1>2. confs \in Seq(Nat \X BOOLEAN) /\ inflight \in Seq(Msg) /\ IdInv
  BY DEF UplinkInv, TypeOK
<1>3. Range(confs) = {Head(confs)} \cup Range(confs')
  BY <1>1, <1>2, HeadRest
<1>4. Head(confs)[2] /\ Head(confs)[1] <= high
  BY <1>3 DEF Calm
<1>5. InTurn'
  <2>1. Pipe' = Pipe
    BY <1>1 DEF Pipe
  <2> QED
    BY <1>1, <2>1 DEF Calm, InTurn
<1>6. Gapless'
  BY <1>1 DEF Calm, Gapless
<1>7. AllKept'
  <2>1. CASE UNCHANGED <<inflight, retryIds, dupq, budget>>
    BY <1>1, <2>1 DEF Calm, AllKept, Originals
  <2>2. ASSUME NEW i \in 1 .. Len(inflight), inflight[i].id = Head(confs)[1],
               inflight' = RemoveAt(inflight, i), Settle(inflight[i], Head(confs)[2])
        PROVE  AllKept'
    <3> DEFINE m == inflight[i]
    <3>1. m \in Msg /\ m \in Range(inflight) /\ m.id \in Nat /\ m.id <= high
      BY <1>2, <1>4, <2>2, ElementOf, MsgFields
    <3>2. m \in Range(log)
      <4>1. PICK l \in Range(log) : l.id = m.id
        BY <3>1 DEF Calm, Gapless
      <4>2. l \in Messages /\ m \in Messages
        BY <3>1 DEF Messages
      <4> QED
        BY <1>2, <4>1, <4>2 DEF IdInv
    <3>3. retryIds' = retryIds
      BY <1>4, <2>2 DEF Settle
    <3>4. Range(inflight) = Range(inflight') \cup {m}
      <4>1. Range(inflight) = Range(RemoveAt(inflight, i)) \cup {inflight[i]}
        BY <1>2, TakeOut
      <4> QED
        BY <2>2, <4>1
    <3> HIDE DEF m
    <3>5. Originals(inflight) \subseteq Originals(inflight') \cup Range(log)
      BY <3>2, <3>4 DEF Originals
    <3>6. Originals(inflight)' = Originals(inflight')
      BY DEF Originals
    <3>7. Range(retryIds) \cup Originals(inflight) \cup Range(log)
            \subseteq Range(retryIds') \cup Originals(inflight') \cup Range(log')
      BY <1>1, <3>3, <3>5
    <3> QED
      BY <1>1, <3>6, <3>7 DEF Calm, AllKept
  <2> QED
    BY <1>1, <2>1, <2>2
<1> QED
  BY <1>1, <1>3, <1>5, <1>6, <1>7 DEF Calm

\* The head of the wire is the next id the stream misses, or a copy.
LEMMA BrokerStoreCalm ==
  ASSUME UplinkInv, Calm, BrokerStore
  PROVE  Calm'
<1>1. /\ net # <<>> /\ Store(Head(net)) /\ net' = Tail(net)
      /\ confs' = Append(confs, <<Head(net).id, TRUE>>)
      /\ UNCHANGED <<gen, src, nextId, retryIds, inflight, staged, conn, late>>
  BY DEF BrokerStore, edgeVars
<1>2. TypeOK /\ LogInv /\ net \in Seq(Msg) /\ staged \in Seq(Msg) /\ high \in Int
  BY DEF UplinkInv, TypeOK
<1> DEFINE h == Head(net)
<1>3. /\ h \in Msg /\ h.id \in Nat /\ h = net[1] /\ Len(net) \in Nat \ {0}
      /\ net' \in Seq(Msg) /\ Len(net') = Len(net) - 1
      /\ \A k \in 1 .. Len(net) - 1 : net'[k] = net[k + 1]
  BY <1>1, <1>2, HeadRest, MsgFields
<1>4. Range(confs') = Range(confs) \cup {<<h.id, TRUE>>}
  BY <1>1, <1>2, Answered
<1>5. /\ high' \in Nat \cup {-1}
      /\ \/ h.id <= high /\ log' = log /\ high' = high
         \/ h.id > high /\ high' = h.id /\ Range(log') = Range(log) \cup {h}
  BY <1>1, <1>2, <1>3, StoreFacts
<1> HIDE DEF h
<1>6. high' \in Int /\ high <= high' /\ h.id <= high' /\ Range(log) \subseteq Range(log')
  BY <1>2, <1>3, <1>5
<1>7. /\ Len(Pipe) \in Nat \ {0} /\ Pipe[1] = h /\ Len(Pipe') = Len(Pipe) - 1
      /\ \A k \in 1 .. Len(Pipe) - 1 : Pipe'[k] = Pipe[k + 1]
  <2> DEFINE a == net'
  <2>1. a \in Seq(Msg) /\ Len(a) \in Nat /\ Len(staged) \in Nat /\ Len(a) = Len(net) - 1
    BY <1>2, <1>3, LenProperties
  <2>2. \A k \in 1 .. Len(a) : a[k] = net[k + 1]
    BY <1>3
  <2>3. Pipe' = a \o staged
    BY <1>1 DEF Pipe
  <2> HIDE DEF a
  <2>4. /\ Len(a \o staged) = Len(a) + Len(staged)
        /\ Len(net \o staged) = Len(net) + Len(staged)
    BY <1>2, <2>1, ConcatRange
  <2>5. /\ \A k \in 1 .. Len(a) : (a \o staged)[k] = a[k]
        /\ \A k \in 1 .. Len(staged) : (a \o staged)[Len(a) + k] = staged[k]
    BY <1>2, <2>1, ConcatAt
  <2>6. /\ \A k \in 1 .. Len(net) : (net \o staged)[k] = net[k]
        /\ \A k \in 1 .. Len(staged) : (net \o staged)[Len(net) + k] = staged[k]
    BY <1>2, ConcatAt
  <2>7. Len(Pipe) = Len(net) + Len(staged) /\ Len(Pipe') = Len(a) + Len(staged)
    BY <2>3, <2>4 DEF Pipe
  <2>8. Pipe[1] = h
    BY <1>3, <2>6 DEF Pipe
  <2>9. ASSUME NEW k \in 1 .. Len(Pipe) - 1 PROVE Pipe'[k] = Pipe[k + 1]
    <3>1. CASE k <= Len(a)
      <4>1. k \in 1 .. Len(a) /\ k + 1 \in 1 .. Len(net)
        BY <1>3, <2>1, <3>1
      <4>2. (a \o staged)[k] = a[k] /\ (net \o staged)[k + 1] = net[k + 1]
        BY <2>5, <2>6, <4>1
      <4> QED
        BY <2>2, <2>3, <4>1, <4>2 DEF Pipe
    <3>2. CASE ~(k <= Len(a))
      <4> DEFINE i == k - Len(a)
      <4>1. i \in 1 .. Len(staged) /\ k = Len(a) + i /\ k + 1 = Len(net) + i
        BY <1>3, <2>1, <2>7, <3>2
      <4> HIDE DEF i
      <4>2. (a \o staged)[Len(a) + i] = staged[i] /\ (net \o staged)[Len(net) + i] = staged[i]
        BY <2>5, <2>6, <4>1
      <4> QED
        BY <2>3, <4>1, <4>2 DEF Pipe
    <3> QED
      BY <3>1, <3>2
  <2>10. Len(Pipe) \in Nat \ {0} /\ Len(Pipe') = Len(Pipe) - 1
    BY <1>3, <2>1, <2>7
  <2> QED
    BY <2>8, <2>9, <2>10
<1>8. InTurn'
  <2>1. ASSUME NEW j \in 1 .. Len(Pipe), Pipe[j].id > high'
        PROVE  j - 1 \in 1 .. Len(Pipe') /\ Pipe'[j - 1] = Pipe[j]
    <3>1. j # 1
      BY <1>3, <1>6, <1>7, <2>1
    <3>2. j - 1 \in 1 .. Len(Pipe) - 1 /\ (j - 1) + 1 = j
      BY <1>7, <3>1
    <3> QED
      BY <1>7, <3>2
  <2>2. ASSUME NEW k \in 1 .. Len(Pipe'), NEW d \in Nat, high' < d, d < Pipe'[k].id
        PROVE  \E j \in 1 .. k - 1 : Pipe'[j].id = d
    <3>1. k + 1 \in 1 .. Len(Pipe) /\ Pipe'[k] = Pipe[k + 1] /\ high < d
      BY <1>2, <1>6, <1>7, <2>2
    <3>2. PICK j \in 1 .. (k + 1) - 1 : Pipe[j].id = d
      BY <2>2, <3>1 DEF Calm, InTurn
    <3>3. j \in 1 .. Len(Pipe) /\ Pipe[j].id > high'
      BY <1>6, <1>7, <2>2, <3>1, <3>2
    <3>4. j - 1 \in 1 .. k - 1 /\ Pipe'[j - 1].id = d
      BY <2>1, <3>2, <3>3
    <3> QED
      BY <3>4
  <2>3. ASSUME NEW d \in Nat, high' < d, d < nextId'
        PROVE  \E j \in 1 .. Len(Pipe') : Pipe'[j].id = d
    <3>1. high < d /\ d < nextId
      BY <1>1, <1>2, <1>6, <2>3
    <3>2. PICK j \in 1 .. Len(Pipe) : Pipe[j].id = d
      BY <3>1 DEF Calm, InTurn
    <3>3. Pipe[j].id > high'
      BY <1>6, <2>3, <3>2
    <3> QED
      BY <2>1, <3>2, <3>3
  <2> QED
    BY <2>2, <2>3 DEF InTurn
<1>9. Gapless'
  <2>1. ASSUME NEW d \in Nat, d <= high' PROVE \E m \in Range(log') : m.id = d
    <3>1. CASE d <= high
      BY <1>6, <3>1 DEF Calm, Gapless
    <3>2. CASE ~(d <= high)
      <4>1. h.id > high /\ high' = h.id /\ h \in Range(log')
        BY <1>5, <2>1, <3>2
      <4>2. ~(d < h.id)
        <5>1. SUFFICES ASSUME d < h.id PROVE FALSE
          OBVIOUS
        <5>2. 1 \in 1 .. Len(Pipe) /\ high < d /\ d < Pipe[1].id
          BY <1>2, <1>7, <3>2, <5>1
        <5>3. \E j \in 1 .. 1 - 1 : Pipe[j].id = d
          BY <5>2 DEF Calm, InTurn
        <5> QED
          BY <5>3
      <4>3. d = h.id
        BY <1>3, <2>1, <4>1, <4>2
      <4> QED
        BY <4>1, <4>3
    <3> QED
      BY <3>1, <3>2
  <2> QED
    BY <2>1 DEF Gapless
<1>10. AllKept'
  <2>1. Originals(inflight)' = Originals(inflight)
    BY <1>1 DEF Originals
  <2> QED
    BY <1>1, <1>6, <2>1 DEF Calm, AllKept
<1>11. \A c \in Range(confs') : c[2] /\ c[1] <= high'
  <2>1. ASSUME NEW c \in Range(confs) PROVE c[2] /\ c[1] <= high'
    <3>1. c[2] /\ c[1] <= high
      BY DEF Calm
    <3>2. c[1] \in Int
      <4>1. confs \in Seq(Nat \X BOOLEAN)
        BY <1>2 DEF TypeOK
      <4>2. c \in Nat \X BOOLEAN
        BY <4>1, ElementOf
      <4> QED
        BY <4>2
    <3> QED
      BY <1>2, <1>6, <3>1, <3>2
  <2> QED
    <3>1. <<h.id, TRUE>>[2] /\ <<h.id, TRUE>>[1] <= high'
      BY <1>6
    <3> QED
      BY <1>4, <2>1, <3>1
<1> QED
  BY <1>1, <1>8, <1>9, <1>10, <1>11 DEF Calm

\* A batch goes behind what is on the wire: what is sent again has ids that
\* are stored or on the wire already, what is new has the next ids.
LEMMA FillBatchCalm ==
  ASSUME UplinkInv, Calm, FillBatch
  PROVE  Calm'
<1>1. /\ phase = "pump" /\ staged' = Resent \o Fresh
      /\ src' = SubSeq(src, New + 1, Len(src)) /\ nextId' = nextId + Dups + New
      /\ UNCHANGED <<gen, confs, conn, net, late, log, high>>
  BY BatchSteps DEF brokerVars
<1>2. TypeOK /\ SrcInv /\ IdInv /\ CustodyInv
  BY DEF UplinkInv
<1>3. /\ Again \in Nat /\ Dups \in Nat /\ New \in 0 .. Len(src) /\ Len(src) \in Nat
      /\ New \in Nat /\ nextId \in Nat /\ high \in Int /\ net \in Seq(Msg) /\ Len(net) \in Nat
      /\ src \in Seq(1 .. gen)
  BY <1>2, BatchSizes, LenProperties DEF TypeOK
<1>4. /\ staged' \in Seq(Msg) /\ Len(staged') = Again + Dups + New
      /\ Resent \in Seq(Msg) /\ Len(Resent) = Again /\ Range(Resent) \subseteq Range(retryIds)
      /\ Range(staged') = Range(Resent) \cup Range(Fresh)
      /\ Range(inflight') = Range(inflight) \cup Range(staged')
      /\ Range(retryIds) = Range(retryIds') \cup Range(Resent)
  BY <1>2, BatchFacts
<1>5. /\ Fresh \in Seq(Msg) /\ Len(Fresh) = Dups + New
      /\ \A i \in 1 .. Dups + New :
           /\ Fresh[i].id = nextId + i - 1
           /\ Fresh[i].dup \/ Fresh[i].frame = Taken + (i - Dups)
           /\ ~Fresh[i].dup <=> i > Dups
  BY <1>2, FreshFacts
<1> DEFINE N == Len(net)
\* The pipe before, and the pipe after, place by place.
<1>6. /\ Len(Pipe) = N /\ \A k \in 1 .. N : Pipe[k] = net[k]
  <2>1. staged = <<>>
    BY <1>1, <1>2 DEF TypeOK
  <2> QED
    BY <1>2, <2>1, NothingStaged
<1>7. /\ Len(Pipe') = N + Again + Dups + New
      /\ \A k \in 1 .. N : Pipe'[k] = net[k]
      /\ \A i \in 1 .. Again : Pipe'[N + i] = Resent[i]
      /\ \A i \in 1 .. Dups + New : Pipe'[N + Again + i] = Fresh[i]
  <2> DEFINE b == staged'
  <2>1. b \in Seq(Msg) /\ Len(b) = Again + Dups + New /\ b = Resent \o Fresh
    BY <1>1, <1>4
  <2>2. Pipe' = net \o b
    BY <1>1 DEF Pipe
  <2> HIDE DEF b
  <2>3. Len(net \o b) = Len(net) + Len(b)
    BY <1>3, <2>1, ConcatRange
  <2>4. /\ \A k \in 1 .. Len(net) : (net \o b)[k] = net[k]
        /\ \A k \in 1 .. Len(b) : (net \o b)[Len(net) + k] = b[k]
    BY <1>3, <2>1, ConcatAt, SMTT(30)
  <2>5. /\ \A k \in 1 .. Len(Resent) : (Resent \o Fresh)[k] = Resent[k]
        /\ \A k \in 1 .. Len(Fresh) : (Resent \o Fresh)[Len(Resent) + k] = Fresh[k]
    BY <1>4, <1>5, ConcatAt, SMTT(30)
  <2>6. Len(Pipe') = N + Again + Dups + New
    BY <1>3, <2>1, <2>2, <2>3
  <2>7. ASSUME NEW i \in 1 .. Again PROVE Pipe'[N + i] = Resent[i]
    <3>1. i \in 1 .. Len(b)
      BY <1>3, <2>1
    <3> QED
      BY <1>4, <2>1, <2>2, <2>4, <2>5, <3>1
  <2>8. ASSUME NEW i \in 1 .. Dups + New PROVE Pipe'[N + Again + i] = Fresh[i]
    <3>1. Again + i \in 1 .. Len(b) /\ N + Again + i = N + (Again + i)
      BY <1>3, <2>1
    <3>2. b[Again + i] = Fresh[i]
      BY <1>4, <1>5, <2>1, <2>5
    <3> QED
      BY <2>2, <2>4, <3>1, <3>2
  <2> QED
    BY <2>2, <2>4, <2>6, <2>7, <2>8
<1>8. N \in Nat
  BY <1>3
<1> HIDE DEF N
\* An id that is not stored is on the wire, if it was given before.
<1>9. ASSUME NEW d \in Nat, high < d, d < nextId
      PROVE  \E j \in 1 .. N : Pipe'[j].id = d
  <2>1. PICK j \in 1 .. Len(Pipe) : Pipe[j].id = d
    BY <1>9 DEF Calm, InTurn
  <2> QED
    BY <1>6, <1>7, <2>1
\* Among the ids given now, each stands behind the smaller ones.
<1>10. ASSUME NEW d \in Nat, nextId <= d, d < nextId + Dups + New
       PROVE  /\ d - nextId + 1 \in 1 .. Dups + New
              /\ Pipe'[N + Again + (d - nextId + 1)].id = d
  <2> DEFINE i == d - nextId + 1
  <2>1. i \in 1 .. Dups + New /\ nextId + i - 1 = d
    BY <1>3, <1>10
  <2> HIDE DEF i
  <2>2. Pipe'[N + Again + i].id = d
    BY <1>5, <1>7, <2>1
  <2> QED
    BY <2>1, <2>2 DEF i
<1>11. InTurn'
  <2>1. ASSUME NEW k \in 1 .. Len(Pipe'), NEW d \in Nat, high' < d, d < Pipe'[k].id
        PROVE  \E j \in 1 .. k - 1 : Pipe'[j].id = d
    <3>1. high < d
      BY <1>1, <2>1
    <3>2. CASE k <= N
      <4>1. k \in 1 .. N /\ Pipe'[k] = Pipe[k]
        BY <1>6, <1>7, <1>8, <3>2
      <4>2. PICK j \in 1 .. k - 1 : Pipe[j].id = d
        BY <1>6, <2>1, <3>1, <4>1 DEF Calm, InTurn
      <4>3. j \in 1 .. N
        BY <1>8, <4>1
      <4> QED
        BY <1>6, <1>7, <4>2, <4>3
    <3>3. CASE N < k /\ k <= N + Again
      <4> DEFINE i == k - N
      <4>1. i \in 1 .. Again /\ N + i = k
        BY <1>3, <1>8, <3>3
      <4> HIDE DEF i
      <4>2. Pipe'[k] = Resent[i] /\ Resent[i] \in Range(retryIds)
        BY <1>4, <1>7, <4>1, ElementOf
      <4>3. Pipe'[k].id < nextId /\ Pipe'[k].id \in Nat
        BY <1>2, <4>2, MsgFields DEF IdInv, Messages
      <4>4. d < nextId
        BY <1>3, <2>1, <4>3
      <4>5. PICK j \in 1 .. N : Pipe'[j].id = d
        BY <1>9, <3>1, <4>4
      <4>6. j \in 1 .. k - 1
        BY <1>8, <3>3
      <4> QED
        BY <4>5, <4>6
    <3>4. CASE N + Again < k
      <4> DEFINE i == k - N - Again
      <4>1. i \in 1 .. Dups + New /\ N + Again + i = k
        BY <1>3, <1>7, <1>8, <3>4
      <4> HIDE DEF i
      <4>2. d < nextId + i - 1
        BY <1>5, <1>7, <2>1, <4>1
      <4>3. CASE d < nextId
        <5>1. PICK j \in 1 .. N : Pipe'[j].id = d
          BY <1>9, <3>1, <4>3
        <5>2. j \in 1 .. k - 1
          BY <1>3, <1>8, <3>4
        <5> QED
          BY <5>1, <5>2
      <4>4. CASE nextId <= d
        <5>1. d < nextId + Dups + New
          BY <1>3, <4>1, <4>2
        <5>2. /\ d - nextId + 1 \in 1 .. Dups + New
              /\ Pipe'[N + Again + (d - nextId + 1)].id = d
          BY <1>10, <4>4, <5>1
        <5>3. N + Again + (d - nextId + 1) \in 1 .. k - 1
          BY <1>3, <1>8, <4>1, <4>2, <4>4
        <5> QED
          BY <5>2, <5>3
      <4> QED
        BY <1>3, <4>3, <4>4
    <3> QED
      BY <1>3, <1>8, <3>2, <3>3, <3>4
  <2>2. ASSUME NEW d \in Nat, high' < d, d < nextId'
        PROVE  \E j \in 1 .. Len(Pipe') : Pipe'[j].id = d
    <3>1. high < d /\ d < nextId + Dups + New
      BY <1>1, <2>2
    <3>2. CASE d < nextId
      <4>1. PICK j \in 1 .. N : Pipe'[j].id = d
        BY <1>9, <3>1, <3>2
      <4>2. j \in 1 .. Len(Pipe')
        BY <1>3, <1>7, <1>8
      <4> QED
        BY <4>1, <4>2
    <3>3. CASE nextId <= d
      <4>1. /\ d - nextId + 1 \in 1 .. Dups + New
            /\ Pipe'[N + Again + (d - nextId + 1)].id = d
        BY <1>10, <3>1, <3>3
      <4>2. N + Again + (d - nextId + 1) \in 1 .. Len(Pipe')
        BY <1>3, <1>7, <1>8, <4>1
      <4> QED
        BY <4>1, <4>2
    <3> QED
      BY <1>3, <3>2, <3>3
  <2> QED
    BY <2>1, <2>2 DEF InTurn
<1>12. Gapless'
  BY <1>1 DEF Calm, Gapless
<1>13. AllKept'
  <2>1. Originals(inflight)' = Originals(inflight')
    BY DEF Originals
  <2>2. Range(retryIds) \cup Originals(inflight) \cup Range(log)
          \subseteq Range(retryIds') \cup Originals(inflight') \cup Range(log')
    <3>1. \A m \in Range(retryIds) : ~m.dup
      BY <1>2 DEF CustodyInv
    <3> QED
      BY <1>1, <1>4, <3>1 DEF Originals
  <2>3. ASSUME NEW f \in Range(src)
        PROVE  f \in Range(src') \/ \E m \in Originals(inflight') : m.frame = f
    <3>1. PICK i \in 1 .. Len(src) : src[i] = f
      BY <1>3, ElementOf
    <3>2. f = Taken + i
      BY <1>2, <3>1 DEF SrcInv
    <3>3. CASE i <= New
      <4> DEFINE k == Dups + i
      <4>1. k \in 1 .. Dups + New /\ k > Dups /\ k - Dups = i
        BY <1>3, <3>3
      <4> HIDE DEF k
      <4>2. ~Fresh[k].dup /\ Fresh[k].frame = f /\ Fresh[k] \in Range(Fresh)
        BY <1>5, <3>2, <4>1, ElementOf
      <4> QED
        BY <1>4, <4>2 DEF Originals
    <3>4. CASE ~(i <= New)
      <4>1. i - New \in 1 .. Len(src) - New /\ New + (i - New) = i
        BY <1>3, <3>4
      <4>2. LET t == SubSeq(src, New + 1, Len(src))
            IN /\ t \in Seq(1 .. gen) /\ Len(t) = Len(src) - New
               /\ \A j \in 1 .. Len(src) - New : t[j] = src[New + j]
        BY <1>3, DropFirst
      <4>3. src' \in Seq(1 .. gen) /\ Len(src') = Len(src) - New /\ src'[i - New] = f
        BY <1>1, <3>1, <4>1, <4>2
      <4> QED
        BY <4>1, <4>3, ElementOf
    <3> QED
      BY <3>3, <3>4
  <2>4. \A f \in 1 .. gen :
          \/ f \in Range(src)
          \/ \E m \in Range(retryIds) \cup Originals(inflight) \cup Range(log) : m.frame = f
    BY DEF Calm, AllKept
  <2> QED
    BY <1>1, <2>1, <2>2, <2>3, <2>4 DEF AllKept
<1> QED
  BY <1>1, <1>11, <1>12, <1>13 DEF Calm

-----------------------------------------------------------------------------
\* A step spends a budget or leaves it; only a break and a refusal end the calm.
LEMMA CalmStep ==
  ASSUME UplinkInv, CalmInv, [Next]_vars
  PROVE  CalmInv'
<1>1. /\ budget \in [{"breaks", "nacks", "sweeps", "dups"} -> Nat]
      /\ MaxBreaks \in Nat /\ MaxNacks \in Nat
      /\ budget.breaks \in Nat /\ budget.nacks \in Nat
      /\ budget.breaks <= MaxBreaks /\ budget.nacks <= MaxNacks
  BY StreamBounds DEF UplinkInv, TypeOK, CalmInv
<1>2. CASE Break \/ BrokerNack
  <2>1. \/ Spend("breaks") \/ Spend("nacks")
    BY <1>2 DEF Break, BrokerNack
  <2>2. /\ budget'.breaks <= MaxBreaks /\ budget'.nacks <= MaxNacks
        /\ budget'.breaks # MaxBreaks \/ budget'.nacks # MaxNacks
    BY <1>1, <2>1 DEF Spend
  <2> QED
    BY <2>2 DEF CalmInv, Undisturbed
<1>3. CASE ~(Break \/ BrokerNack)
  <2>1. budget'.breaks = budget.breaks /\ budget'.nacks = budget.nacks
    <3>1. budget' = budget \/ Spend("sweeps") \/ Spend("dups")
      <4>1. CASE Confirm
        BY <4>1, ConfirmFacts DEF Settle
      <4>2. CASE Sweep
        BY <4>2 DEF Sweep
      <4>3. CASE UNCHANGED vars
        BY <4>3 DEF vars
      <4>4. CASE FillBatch
        BY <4>4, BatchSteps
      <4>5. CASE \/ Receive \/ SendOk \/ SendFail \/ Tick \/ SessionLost \/ Connect
                 \/ BrokerStore \/ BrokerLate
        BY <4>5 DEF Receive, SendOk, SendFail, Tick, SessionLost, Connect,
           BrokerStore, BrokerLate
      <4> QED
        BY <1>3, <4>1, <4>2, <4>3, <4>4, <4>5 DEF Next, Uplink, Broker
    <3> QED
      BY <1>1, <3>1 DEF Spend
  <2>2. ASSUME Undisturbed' PROVE Calm'
    <3>1. Calm
      BY <2>1, <2>2 DEF Undisturbed, CalmInv
    <3>2. /\ ~SendFail /\ ~SessionLost /\ ~BrokerLate
      BY <3>1 DEF Calm, SendFail, SessionLost, BrokerLate
    <3>3. CASE UNCHANGED vars
      <4>1. UNCHANGED <<gen, src, nextId, retryIds, inflight, staged, confs, conn,
                        net, late, log, high>>
        BY <3>3 DEF vars, edgeVars, brokerVars
      <4>2. conn' \in {"none", "up"}
        BY <3>1, <4>1 DEF Calm
      <4> QED
        BY <3>1, <4>1, <4>2, CalmSame
    <3> QED
      BY <1>3, <3>1, <3>2, <3>3, ReceiveCalm, FillBatchCalm, SendOkCalm, ConfirmCalm,
         SweepCalm, TickOrConnectCalm, BrokerStoreCalm DEF Next, Uplink, Broker
  <2> QED
    BY <1>1, <2>1, <2>2 DEF CalmInv
<1> QED
  BY <1>2, <1>3

LEMMA StartsCalm == Init => CalmInv
<1> SUFFICES ASSUME Init PROVE CalmInv
  OBVIOUS
<1>1. /\ gen = 0 /\ nextId = 0 /\ staged = <<>> /\ confs = <<>> /\ conn = "none"
      /\ net = <<>> /\ late = {} /\ log = <<>> /\ high = -1
      /\ budget = [breaks |-> MaxBreaks, nacks |-> MaxNacks, sweeps |-> MaxSweeps,
                   dups |-> MaxDups]
  BY DEF Init
<1>2. Len(Pipe) = 0
  BY <1>1, EmptyRange, StartsRight, NothingStaged DEF UplinkInv
<1>3. InTurn
  BY <1>1, <1>2 DEF InTurn
<1>4. Gapless /\ AllKept
  BY <1>1 DEF Gapless, AllKept
<1>5. Calm
  BY <1>1, <1>3, <1>4, EmptyRange DEF Calm
<1> QED
  BY <1>1, <1>5, StreamBounds DEF CalmInv

\* While no connection is lost and nothing is refused, resending what is not
\* confirmed in time loses nothing (the sweep of publish_loop): each frame is
\* held by the edge or stored.
THEOREM SweepsSafe == Spec => []SweepsLoseNothing
<1>1. ASSUME UplinkInv, CalmInv PROVE SweepsLoseNothing
  <2>1. SUFFICES ASSUME Undisturbed, NEW f \in 1 .. gen PROVE f \in InEdge \cup Stored
    BY DEF SweepsLoseNothing, NoSilentLoss
  <2>2. \/ f \in Range(src)
        \/ \E m \in Range(retryIds) \cup Originals(inflight) \cup Range(log) : m.frame = f
    BY <1>1, <2>1 DEF CalmInv, Calm, AllKept
  <2>3. /\ retryIds \in Seq(Msg) /\ inflight \in Seq(Msg) /\ log \in Seq(Msg)
    BY <1>1 DEF UplinkInv, TypeOK
  <2>4. \A s \in Seq(Msg) : \A m \in Range(s) : m.frame \in FramesOf(s)
    BY ElementOf DEF FramesOf
  <2> QED
    BY <2>2, <2>3, <2>4 DEF InEdge, Stored, Originals
<1>2. UplinkInv /\ CalmInv /\ [Next]_vars => CalmInv'
  BY CalmStep
<1> QED
  BY UplinkInvariant, StartsCalm, <1>1, <1>2, PTL DEF Spec
=============================================================================
