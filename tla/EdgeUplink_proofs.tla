-------------------------- MODULE EdgeUplink_proofs --------------------------
(***************************************************************************)
(* Proofs about the classic publisher, for every number of pads, capacity, *)
(* window and budget: types; custody (no frame is lost silently); the      *)
(* bound on what waits for retransmission; the order in which the buffers  *)
(* drain; the drop counter as the exact loss; one copy of a frame; and     *)
(* that the publisher implements the delivery hop.                         *)
(***************************************************************************)
EXTENDS EdgeUplink, Lemmas

-----------------------------------------------------------------------------
(* Types.                                                                   *)

\* What PopConfirm takes apart is well typed.
LEMMA PopTypes ==
  ASSUME TypeOK, PendingTracksInflight, NEW outcome, PopConfirm(outcome)
  PROVE  /\ Head(inflight) \in Confirm /\ inflight' \in Seq(Confirm)
         /\ pending # <<>> /\ Head(pending) \in Entry /\ pending' \in Seq(Entry)
         /\ Requeued(Head(pending)) \in Seq(Frame)
<1>1. /\ inflight # <<>> /\ inflight \in Seq(Confirm)
      /\ pending \in Seq(Entry) /\ retry \in Seq(Frame)
      /\ inflight' = Tail(inflight) /\ pending' = Tail(pending)
  BY DEF TypeOK, PopConfirm
<1>2. pending # <<>>
  BY <1>1, EmptySeq DEF PendingTracksInflight
<1>3. /\ Head(inflight) \in Confirm /\ Tail(inflight) \in Seq(Confirm)
      /\ Head(pending) \in Entry /\ Tail(pending) \in Seq(Entry)
  BY <1>1, <1>2, HeadTailProperties
<1>4. Requeued(Head(pending)) \in Seq(Frame)
  BY <1>1, <1>3, AppendProperties DEF Requeued, Entry
<1> QED BY <1>1, <1>2, <1>3, <1>4

LEMMA GiveUpTypes ==
  ASSUME TypeOK, NEW unread \in Seq(Frame), GiveUp(unread)
  PROVE  conn' = "closed" /\ \A w \in late' : w \in Seq(Frame)
<1>1. PICK k \in 0 .. Len(inflight) :
        late' = late \cup
          {[i \in 1 .. Len(inflight) - k |-> inflight[k + i].frame] \o unread}
  BY DEF GiveUp
<1>2. inflight \in Seq(Confirm) /\ Len(inflight) \in Nat
  BY LenProperties DEF TypeOK
<1>3. [i \in 1 .. Len(inflight) - k |-> inflight[k + i].frame] \in Seq(Frame)
  <2> DEFINE n == Len(inflight) - k
             s == [i \in 1 .. n |-> inflight[k + i].frame]
  <2>1. n \in Nat /\ \A i \in 1 .. n : k + i \in 1 .. Len(inflight)
    BY <1>2
  <2>2. \A i \in 1 .. n : inflight[k + i] \in Confirm
    BY <1>2, <2>1, ElementOfSeq
  <2>3. s \in [1 .. n -> Frame]
    BY <2>2 DEF Confirm
  <2> HIDE DEF s, n
  <2>4. s \in Seq(Frame)
    BY <2>1, <2>3, SeqDef
  <2> QED BY <2>4 DEF s, n
<1>4. [i \in 1 .. Len(inflight) - k |-> inflight[k + i].frame] \o unread
        \in Seq(Frame)
  BY <1>3, ConcatProperties
<1> QED BY <1>1, <1>4 DEF GiveUp, TypeOK

LEMMA InitType == Init => TypeOK
<1> SUFFICES ASSUME Init PROVE TypeOK
  OBVIOUS
<1>1. /\ gen \in [Pads -> Nat] /\ rx \in Seq(Frame)
      /\ buf \in [Pads -> Seq(Frame)] /\ link \in [Pads -> BOOLEAN]
  BY EmptySeq DEF Init
<1>2. /\ shuffle \in Seq(Frame) /\ pubq \in Seq(Frame)
      /\ retry \in Seq(Frame) /\ dupq \in Seq(Frame)
      /\ held \in Seq(Entry) /\ pending \in Seq(Entry)
      /\ inflight \in Seq(Confirm) /\ held = <<>>
  BY EmptySeq DEF Init
<1>3. budget \in [{"breaks", "nacks", "dups", "ctrl"} -> Nat]
  BY BoundsAssumption DEF Init
<1> QED BY <1>1, <1>2, <1>3 DEF Init, TypeOK, NoFill, Phases

LEMMA HeldOne ==
  ASSUME TypeOK, phase = "publish"
  PROVE  held \in Seq(Entry) /\ DOMAIN held = {1} /\ held[1] \in Entry
<1>1. held \in Seq(Entry) /\ Len(held) = 1
  BY DEF TypeOK
<1>2. DOMAIN held = 1 .. 1 /\ 1 \in 1 .. Len(held)
  BY <1>1, LenProperties
<1>3. held[1] \in Entry
  BY <1>1, <1>2, ElementOfSeq
<1> QED BY <1>1, <1>2, <1>3

\* A rearranged sequence of frames is a sequence of the same frames.
LEMMA StagedTypes ==
  ASSUME NEW s \in Seq(Frame), NEW r \in Rearrangements(Len(s))
  PROVE  /\ [i \in 1 .. Len(s) |-> s[r[i]]] \in Seq(Frame)
         /\ s # <<>> => [i \in 1 .. Len(s) |-> s[r[i]]] # <<>>
         /\ Range([i \in 1 .. Len(s) |-> s[r[i]]]) = Range(s)
<1> DEFINE n == Len(s)
           t == [i \in 1 .. n |-> s[r[i]]]
<1>1. n \in Nat /\ r \in [1 .. n -> 1 .. n]
      /\ \A j \in 1 .. n : \E i \in 1 .. n : r[i] = j
  BY LenProperties DEF Rearrangements
<1>2. \A i \in 1 .. n : s[r[i]] \in Frame
  BY <1>1, ElementOfSeq
<1>3. t \in [1 .. n -> Frame] /\ DOMAIN t = 1 .. n
      /\ \A i \in 1 .. n : t[i] = s[r[i]]
  BY <1>2
<1> HIDE DEF t, n
<1>4. t \in Seq(Frame)
  BY <1>1, <1>3, SeqDef
<1>5. ASSUME s # <<>> PROVE t # <<>>
  <2>1. 1 \in DOMAIN t
    BY <1>1, <1>3, <1>5, EmptySeq DEF n
  <2> QED BY <2>1
<1>6. Range(s) = {s[j] : j \in 1 .. n}
  BY RangeEquality DEF n
<1>7. Range(t) = {t[i] : i \in 1 .. n}
  BY <1>3 DEF Range
<1>8. Range(t) \subseteq Range(s)
  BY <1>1, <1>3, <1>6, <1>7
<1>9. ASSUME NEW j \in 1 .. n PROVE s[j] \in Range(t)
  <2>1. PICK i \in 1 .. n : r[i] = j
    BY <1>1
  <2> QED BY <1>3, <1>7, <2>1
<1>10. Range(t) = Range(s)
  BY <1>6, <1>8, <1>9
<1> QED BY <1>4, <1>5, <1>10 DEF t, n

\* A rearrangement repeats nothing that was not repeated.
LEMMA StagedFresh ==
  ASSUME NEW s \in Seq(Frame), NEW r \in Rearrangements(Len(s)), IsInjective(s)
  PROVE  IsInjective([i \in 1 .. Len(s) |-> s[r[i]]])
<1> DEFINE n == Len(s)
<1>1. n \in Nat /\ r \in [1 .. n -> 1 .. n] /\ DOMAIN s = 1 .. n
      /\ \A j \in 1 .. n : \E i \in 1 .. n : r[i] = j
  BY LenProperties DEF Rearrangements
<1> HIDE DEF n
<1>2. r \in Surjection(1 .. n, 1 .. n)
  BY <1>1 DEF Surjection
<1>3. IsFiniteSet(1 .. n)
  BY <1>1, FS_Interval
<1>4. r \in Injection(1 .. n, 1 .. n)
  BY <1>2, <1>3, FS_Surjection
<1>5. \A i, j \in 1 .. n : r[i] = r[j] => i = j
  BY <1>4 DEF Injection, IsInjective
<1>6. \A i, j \in 1 .. n : s[r[i]] = s[r[j]] => i = j
  <2>1. \A i \in 1 .. n : r[i] \in 1 .. n
    BY <1>1
  <2>2. \A i, j \in 1 .. n : s[i] = s[j] => i = j
    BY <1>1 DEF IsInjective
  <2> QED BY <1>5, <2>1, <2>2
<1> QED BY <1>6 DEF IsInjective, n

\* A fill either releases a rearrangement of the reorder stage or changes
\* nothing but the phase.
Releases ==
  \E t \in Seq(Frame) :
    /\ t # <<>> /\ Range(t) = Range(shuffle)
    /\ IsInjective(shuffle) => IsInjective(t)
    /\ shuffle' = <<>> /\ pubq' = Tail(t)
    /\ held' = <<[frame |-> Head(t), dup |-> FALSE]>> /\ phase' = "publish"

LEMMA FinishFillCases ==
  ASSUME TypeOK, FinishFill
  PROVE  Releases \/ (phase' = "select" /\ UNCHANGED <<shuffle, pubq, held>>)
<1>1. shuffle \in Seq(Frame)
  BY DEF TypeOK
<1>2. PICK r \in Rearrangements(Len(shuffle)) :
        \/ /\ shuffle # <<>>
           /\ shuffle' = <<>>
           /\ pubq' = Tail([i \in 1 .. Len(shuffle) |-> shuffle[r[i]]])
           /\ held' = <<[frame |-> Head([i \in 1 .. Len(shuffle) |-> shuffle[r[i]]]),
                         dup |-> FALSE]>>
           /\ phase' = "publish"
        \/ phase' = "select" /\ UNCHANGED <<shuffle, pubq, held>>
  BY DEF FinishFill, Publish
<1> DEFINE t == [i \in 1 .. Len(shuffle) |-> shuffle[r[i]]]
<1>3. t \in Seq(Frame) /\ (shuffle # <<>> => t # <<>>) /\ Range(t) = Range(shuffle)
      /\ (IsInjective(shuffle) => IsInjective(t))
  BY <1>1, StagedTypes, StagedFresh
<1>4. \/ /\ shuffle # <<>> /\ shuffle' = <<>> /\ pubq' = Tail(t)
         /\ held' = <<[frame |-> Head(t), dup |-> FALSE]>> /\ phase' = "publish"
      \/ phase' = "select" /\ UNCHANGED <<shuffle, pubq, held>>
  BY <1>2
<1> HIDE DEF t
<1>5. ASSUME shuffle # <<>>, shuffle' = <<>>, pubq' = Tail(t),
             held' = <<[frame |-> Head(t), dup |-> FALSE]>>, phase' = "publish"
      PROVE  Releases
  BY <1>3, <1>5, Zenon DEF Releases
<1> QED BY <1>4, <1>5

FillType == [todo : SUBSET Pads, any : BOOLEAN, pulled : Nat, window : Nat]

LEMMA FillSteps ==
  ASSUME NEW x \in FillType, NEW p
  PROVE  /\ [x EXCEPT !.todo = @ \ {p}] \in FillType
         /\ [todo |-> x.todo \ {p}, any |-> TRUE,
             pulled |-> x.pulled + 1, window |-> x.window] \in FillType
<1>1. /\ x.todo \ {p} \in SUBSET Pads /\ x.any \in BOOLEAN
      /\ x.pulled \in Nat /\ x.pulled + 1 \in Nat /\ x.window \in Nat
  BY DEF FillType
<1>2. [todo |-> x.todo \ {p}, any |-> TRUE,
       pulled |-> x.pulled + 1, window |-> x.window] \in FillType
  BY <1>1 DEF FillType
<1>3. [x EXCEPT !.todo = @ \ {p}] \in FillType
  BY <1>1, x = [todo |-> x.todo, any |-> x.any, pulled |-> x.pulled, window |-> x.window]
  DEF FillType
<1> QED BY <1>2, <1>3

LEMMA PumpType ==
  ASSUME TypeOK, Pump
  PROVE  TypeOK'
<1> USE DEF TypeOK, genVars, custody, faultVars, brokerVars, Phases, Entry,
            Publish, NoFill
<1>1. CASE TakeRetry
  BY <1>1, HeadTailProperties DEF TakeRetry
<1>2. CASE TakeDup
  BY <1>2, HeadTailProperties DEF TakeDup
<1>3. CASE TakeStaged
  BY <1>3, HeadTailProperties DEF TakeStaged
<1>4. CASE WindowFull
  BY <1>4 DEF WindowFull
<1>5. CASE StartFill
  BY <1>5 DEF StartFill
<1>6. ASSUME NEW p \in Pads, PullPad(p) PROVE TypeOK'
  <2>1. p \in Pads /\ buf[p] \in Seq(Frame)
    BY <1>6
  <2>4. fill \in FillType
    BY DEF FillType
  <2>2. CASE ~(link[p] /\ buf[p] # <<>>)
    <3>1. fill' = [fill EXCEPT !.todo = @ \ {p}] /\ UNCHANGED <<buf, shuffle>>
      BY <1>6, <2>2 DEF PullPad
    <3>2. fill' \in FillType
      BY <3>1, <2>4, FillSteps
    <3> QED BY <1>6, <3>1, <3>2 DEF PullPad, FillType
  <2>3. CASE link[p] /\ buf[p] # <<>>
    <3>1. /\ Head(buf[p]) \in Frame /\ Tail(buf[p]) \in Seq(Frame)
          /\ Append(shuffle, Head(buf[p])) \in Seq(Frame)
      BY <2>1, <2>3, HeadTailProperties, AppendProperties
    <3>2. buf' \in [Pads -> Seq(Frame)] /\ shuffle' \in Seq(Frame)
      BY <1>6, <2>1, <2>3, <3>1 DEF PullPad
    <3>3. fill' = [todo |-> fill.todo \ {p}, any |-> TRUE,
                   pulled |-> fill.pulled + 1, window |-> fill.window]
      BY <1>6, <2>3 DEF PullPad
    <3>4. fill' \in FillType
      BY <3>3, <2>4, FillSteps
    <3> QED BY <1>6, <3>2, <3>4 DEF PullPad, FillType
  <2> QED BY <2>2, <2>3
<1>7. CASE NextRound
  BY <1>7 DEF NextRound
<1>8. CASE FinishFill
  <2>1. Releases \/ (phase' = "select" /\ UNCHANGED <<shuffle, pubq, held>>)
    BY <1>8, FinishFillCases
  <2>2. CASE Releases
    <3>1. PICK t \in Seq(Frame) :
            /\ t # <<>> /\ shuffle' = <<>> /\ pubq' = Tail(t)
            /\ held' = <<[frame |-> Head(t), dup |-> FALSE]>>
            /\ phase' = "publish"
      BY <2>2 DEF Releases
    <3>2. Head(t) \in Frame /\ Tail(t) \in Seq(Frame)
      BY <3>1, HeadTailProperties
    <3>3. held' \in Seq(Entry) /\ Len(held') = 1
      BY <3>1, <3>2
    <3> QED BY <1>8, <3>1, <3>2, <3>3, SMTT(30) DEF FinishFill
  <2>3. CASE phase' = "select" /\ UNCHANGED <<shuffle, pubq, held>>
    BY <1>8, <2>3 DEF FinishFill
  <2> QED BY <2>1, <2>2, <2>3
<1>9. CASE PublishOk
  <2>1. held[1] \in Entry
    BY <1>9, HeldOne DEF PublishOk
  <2>2. /\ pending' \in Seq(Entry) /\ inflight' \in Seq(Confirm)
    BY <1>9, <2>1, AppendProperties DEF PublishOk, Confirm, Unresolved, Resolved
  <2> QED BY <1>9, <2>2 DEF PublishOk
<1>10. CASE PublishFail
  <2>1. held[1].frame \in Frame
    BY <1>10, HeldOne DEF PublishFail
  <2>2. retry' \in Seq(Frame)
    BY <1>10, <2>1, RangeCons DEF PublishFail
  <2>3. <<held[1].frame>> \in Seq(Frame)
    BY <2>1
  <2>4. conn' \in {"none", "up", "broken", "closed"}
        /\ \A w \in late' : w \in Seq(Frame)
    BY <1>10, <2>3, GiveUpTypes DEF PublishFail
  <2> QED BY <1>10, <2>2, <2>4 DEF PublishFail
<1> QED BY <1>1, <1>2, <1>3, <1>4, <1>5, <1>6, <1>7, <1>8, <1>9, <1>10 DEF Pump
LEMMA BufferFrameTypes ==
  ASSUME TypeOK, NEW f \in Frame, BufferFrame(f)
  PROVE  buf' \in [Pads -> Seq(Frame)] /\ dropped' \subseteq Frame
<1>1. /\ f.pad \in Pads /\ buf \in [Pads -> Seq(Frame)] /\ buf[f.pad] \in Seq(Frame)
      /\ Len(buf[f.pad]) \in Nat /\ dropped \subseteq Frame
  BY LenProperties DEF TypeOK, Frame
<1>2. CASE Len(buf[f.pad]) >= BufferCap
  <2>1. buf[f.pad] # <<>>
    BY <1>1, <1>2, EmptySeq, BoundsAssumption
  <2>2. /\ Head(buf[f.pad]) \in Frame
        /\ Append(Tail(buf[f.pad]), f) \in Seq(Frame)
    BY <1>1, <2>1, HeadTailProperties, AppendProperties
  <2> QED BY <1>1, <1>2, <2>2 DEF BufferFrame
<1>3. CASE ~(Len(buf[f.pad]) >= BufferCap)
  <2>1. Append(buf[f.pad], f) \in Seq(Frame)
    BY <1>1, AppendProperties
  <2> QED BY <1>1, <1>3, <2>1 DEF BufferFrame
<1> QED BY <1>2, <1>3

LEMMA SelectType ==
  ASSUME TypeOK, PendingTracksInflight, Select
  PROVE  TypeOK'
<1> USE DEF genVars, custody, faultVars, brokerVars, Phases, NoFill
<1>1. CASE Receive
  <2>1. Head(rx) \in Frame /\ Tail(rx) \in Seq(Frame)
    BY <1>1, HeadTailProperties DEF Receive, TypeOK
  <2>2. buf' \in [Pads -> Seq(Frame)] /\ dropped' \subseteq Frame
    BY <1>1, <2>1, BufferFrameTypes DEF Receive
  <2> QED BY <1>1, <2>1, <2>2 DEF Receive, TypeOK
<1>2. CASE ConfirmAck
  <2>1. /\ inflight' \in Seq(Confirm) /\ pending' \in Seq(Entry)
        /\ Head(pending) \in Entry
    BY <1>2, PopTypes DEF ConfirmAck
  <2>2. dupq' \in Seq(Frame)
    <3>1. Head(pending).frame \in Frame /\ dupq \in Seq(Frame)
      BY <2>1 DEF Entry, TypeOK
    <3>2. Append(dupq, Head(pending).frame) \in Seq(Frame)
      BY <3>1, AppendProperties
    <3> QED BY <1>2, <3>1, <3>2 DEF ConfirmAck
  <2>3. budget' \in [{"breaks", "nacks", "dups", "ctrl"} -> Nat]
    BY <1>2 DEF ConfirmAck, TypeOK, Spend
  <2> QED BY <1>2, <2>1, <2>2, <2>3 DEF ConfirmAck, TypeOK
<1>3. CASE ConfirmNack
  BY <1>3, PopTypes DEF ConfirmNack, TypeOK
<1>4. CASE ConfirmErr
  BY <1>4, PopTypes DEF ConfirmErr, TypeOK
<1>5. CASE Tick
  BY <1>5 DEF Tick, TypeOK
<1>6. CASE ProbeFail
  BY <1>6 DEF ProbeFail, TypeOK
<1> QED BY <1>1, <1>2, <1>3, <1>4, <1>5, <1>6 DEF Select

LEMMA SuperviseType ==
  ASSUME TypeOK, PendingTracksInflight, Supervise
  PROVE  TypeOK'
<1> USE DEF genVars, custody, faultVars, brokerVars, Phases, NoFill
<1>1. CASE ReapConfirm
  BY <1>1, PopTypes DEF ReapConfirm, TypeOK
<1>2. CASE ReapTimeout
  BY <1>2, GiveUpTypes, EmptySeq DEF ReapTimeout, TypeOK
<1>3. CASE RequeueUnconfirmed
  <2>1. /\ pending \in Seq(Entry) /\ pending # <<>>
        /\ inflight \in Seq(Confirm) /\ inflight # <<>> /\ retry \in Seq(Frame)
    BY <1>3, EmptySeq DEF RequeueUnconfirmed, TypeOK, PendingTracksInflight
  <2>2. /\ Head(pending) \in Entry /\ Tail(pending) \in Seq(Entry)
        /\ Tail(inflight) \in Seq(Confirm)
    BY <2>1, HeadTailProperties
  <2>3. Requeued(Head(pending)) \in Seq(Frame)
    BY <2>1, <2>2, AppendProperties DEF Requeued, Entry
  <2> QED BY <1>3, <2>2, <2>3 DEF RequeueUnconfirmed, TypeOK
<1>4. CASE EndSession
  BY <1>4 DEF EndSession, TypeOK
<1>5. CASE BackoffElapsed
  BY <1>5 DEF BackoffElapsed, TypeOK
<1>6. CASE Connected \/ ConnectFail
  BY <1>6 DEF Connected, ConnectFail, TypeOK
<1>7. CASE SetupOk \/ SetupFail
  BY <1>7 DEF SetupOk, SetupFail, TypeOK
<1> QED BY <1>1, <1>2, <1>3, <1>4, <1>5, <1>6, <1>7 DEF Supervise

\* Setting the outcome of a confirm changes neither its frame nor the others.
LEMMA ResolveTypes ==
  ASSUME TypeOK, NEW i \in DOMAIN inflight, NEW outcome \in Unresolved \cup Resolved,
         Resolve(i, outcome)
  PROVE  /\ inflight' \in Seq(Confirm) /\ Len(inflight') = Len(inflight)
         /\ DOMAIN inflight' = DOMAIN inflight
         /\ \A j \in DOMAIN inflight :
              /\ inflight'[j].frame = inflight[j].frame
              /\ inflight'[j].conf = IF j = i THEN outcome ELSE inflight[j].conf
<1>1. inflight \in Seq(Confirm) /\ DOMAIN inflight = 1 .. Len(inflight)
  BY LenProperties DEF TypeOK
<1>2. inflight[i] \in Confirm
  BY <1>1, ElementOfSeq
<1> DEFINE c == [inflight[i] EXCEPT !.conf = outcome]
<1>3. c \in Confirm /\ c.frame = inflight[i].frame /\ c.conf = outcome
  BY <1>2 DEF Confirm
<1>4. inflight' = [inflight EXCEPT ![i] = c]
  BY DEF Resolve
<1> HIDE DEF c
<1>5. /\ inflight' \in Seq(Confirm) /\ Len(inflight') = Len(inflight)
      /\ \A j \in 1 .. Len(inflight) :
           inflight'[j] = IF j = i THEN c ELSE inflight[j]
  BY <1>1, <1>3, <1>4, ExceptSeq
<1>6. DOMAIN inflight' = DOMAIN inflight
  BY <1>1, <1>5, LenProperties
<1> QED BY <1>1, <1>3, <1>5, <1>6
LEMMA FailTypes ==
  ASSUME TypeOK, FailConfirms
  PROVE  /\ inflight' \in Seq(Confirm) /\ Len(inflight') = Len(inflight)
         /\ DOMAIN inflight' = DOMAIN inflight
         /\ \A j \in DOMAIN inflight :
              /\ inflight'[j].frame = inflight[j].frame
              /\ inflight'[j].conf \in {"stored", "ack"} =>
                   inflight'[j].conf = inflight[j].conf
<1> DEFINE n == Len(inflight)
<1>1. /\ inflight \in Seq(Confirm) /\ n \in Nat /\ DOMAIN inflight = 1 .. n
  BY LenProperties DEF TypeOK
<1>2. \A j \in 1 .. n : inflight[j] \in Confirm
  BY <1>1, ElementOfSeq
<1>3. /\ DOMAIN inflight' = 1 .. n
      /\ \A j \in 1 .. n : inflight'[j] = IF inflight[j].conf \in Unresolved
                                       THEN [inflight[j] EXCEPT !.conf = "err"]
                                       ELSE inflight[j]
      /\ inflight' = [j \in 1 .. n |-> inflight'[j]]
  BY <1>1 DEF FailConfirms
<1>4. ASSUME NEW j \in 1 .. n
      PROVE  /\ inflight'[j] \in Confirm
             /\ inflight'[j].frame = inflight[j].frame
             /\ inflight'[j].conf \in {"stored", "ack"} =>
                  inflight'[j].conf = inflight[j].conf
  BY <1>2, <1>3 DEF Confirm, Unresolved, Resolved
<1> HIDE DEF n
<1>5. inflight' \in [1 .. n -> Confirm]
  BY <1>3, <1>4
<1>6. inflight' \in Seq(Confirm)
  BY <1>1, <1>5, SeqDef
<1>7. Len(inflight') = n
  BY <1>1, <1>3, <1>6, LenProperties
<1> QED BY <1>1, <1>3, <1>4, <1>6, <1>7 DEF n

LEMMA BrokerType ==
  ASSUME TypeOK, Broker
  PROVE  TypeOK'
<1> USE DEF genVars, custody, faultVars, brokerVars, Phases, NoFill
<1>1. CASE BrokerStore
  <2>1. PICK i \in DOMAIN inflight :
          /\ Resolve(i, "stored") /\ stored' = stored \cup {inflight[i].frame}
    BY <1>1 DEF BrokerStore
  <2>2. inflight' \in Seq(Confirm)
    BY <2>1, ResolveTypes DEF Unresolved
  <2>3. inflight[i].frame \in Frame
    <3>1. inflight \in Seq(Confirm) /\ i \in 1 .. Len(inflight)
      BY LenProperties DEF TypeOK
    <3>2. inflight[i] \in Confirm
      BY <3>1, ElementOfSeq
    <3> QED BY <3>2 DEF Confirm
  <2> QED BY <1>1, <2>1, <2>2, <2>3 DEF BrokerStore, TypeOK
<1>2. CASE BrokerNack
  <2>1. inflight' \in Seq(Confirm)
    BY <1>2, ResolveTypes DEF BrokerNack, Resolved
  <2>2. budget' \in [{"breaks", "nacks", "dups", "ctrl"} -> Nat]
    BY <1>2, SMTT(30) DEF BrokerNack, TypeOK, Spend
  <2> QED BY <1>2, <2>1, <2>2 DEF BrokerNack, TypeOK
<1>3. CASE BrokerAck
  <2>1. inflight' \in Seq(Confirm)
    BY <1>3, ResolveTypes DEF BrokerAck, Resolved
  <2> QED BY <1>3, <2>1 DEF BrokerAck, TypeOK
<1>4. CASE BrokerLate
  <2>1. PICK w \in late \ {<<>>} :
          late' = (late \ {w}) \cup {Tail(w)} /\ stored' = stored \cup {Head(w)}
    BY <1>4 DEF BrokerLate, Arrives
  <2>2. Head(w) \in Frame /\ Tail(w) \in Seq(Frame)
    BY <2>1, HeadTailProperties DEF TypeOK
  <2> QED BY <1>4, <2>1, <2>2 DEF BrokerLate, Arrives, TypeOK
<1>5. CASE Break
  BY <1>5, SMTT(30) DEF Break, TypeOK, Spend
<1>6. CASE FailConfirms
  <2>1. inflight' \in Seq(Confirm)
    BY <1>6, FailTypes DEF FailConfirms
  <2>2. conn' = "closed" /\ \A w \in late' : w \in Seq(Frame)
    BY <1>6, GiveUpTypes, EmptySeq DEF FailConfirms
  <2> QED BY <1>6, <2>1, <2>2 DEF FailConfirms, TypeOK
<1> QED BY <1>1, <1>2, <1>3, <1>4, <1>5, <1>6 DEF Broker

LEMMA GenerateType ==
  ASSUME TypeOK, NEW p \in Pads, Generate(p)
  PROVE  TypeOK'
<1> USE DEF genVars, custody, faultVars, brokerVars, Phases, NoFill
<1>1. /\ gen' \in [Pads -> Nat] /\ [pad |-> p, seq |-> gen[p] + 1] \in Frame
  BY SMTT(30) DEF Generate, TypeOK, Frame
<1>2. rx' \in Seq(Frame)
  BY <1>1, AppendProperties DEF Generate, TypeOK
<1> QED BY <1>1, <1>2 DEF Generate, TypeOK

LEMMA ControlType ==
  ASSUME TypeOK, Control
  PROVE  TypeOK'
<1> USE DEF genVars, custody, faultVars, brokerVars, Phases, NoFill
<1>1. budget' \in [{"breaks", "nacks", "dups", "ctrl"} -> Nat]
  BY SMTT(30) DEF Control, Spend, TypeOK
<1>2. link' \in [Pads -> BOOLEAN]
  <2>1. link \in [Pads -> BOOLEAN]
    BY DEF TypeOK
  <2>2. \A p \in Pads, up \in BOOLEAN : [link EXCEPT ![p] = up] \in [Pads -> BOOLEAN]
    BY <2>1, Zenon
  <2>3. [p \in Pads |-> TRUE] \in [Pads -> BOOLEAN]
    OBVIOUS
  <2> QED BY <2>1, <2>2, <2>3, Zenon DEF Control, ApplyCommand
<1>3. window' \in Nat
  <2>1. \/ window' = window
        \/ window' \in Windows
        \/ window' = 0
    BY Zenon DEF Control, ApplyCommand
  <2>2. window \in Nat /\ Windows \subseteq Nat
    BY BoundsAssumption DEF TypeOK
  <2>3. CASE window' = window
    BY <2>2, <2>3
  <2>4. CASE window' \in Windows
    BY <2>2, <2>4, Zenon
  <2>5. CASE window' = 0
    BY <2>5
  <2> QED BY <2>1, <2>3, <2>4, <2>5
<1>4. dupOn' \in BOOLEAN
  BY Zenon DEF Control, ApplyCommand, TypeOK
<1> QED BY <1>1, <1>2, <1>3, <1>4 DEF Control, TypeOK

-----------------------------------------------------------------------------
(* The deque of frames and the futures it mirrors.                          *)

LEMMA TailsPair ==
  ASSUME TypeOK, PendingTracksInflight, inflight # <<>>,
         pending' = Tail(pending), inflight' = Tail(inflight)
  PROVE  /\ Head(pending).frame = Head(inflight).frame
         /\ PendingTracksInflight'
<1>1. /\ pending \in Seq(Entry) /\ inflight \in Seq(Confirm)
      /\ pending # <<>> /\ inflight # <<>>
  BY EmptySeq DEF TypeOK, PendingTracksInflight
<1>2. /\ Tail(pending) \in Seq(Entry) /\ Len(Tail(pending)) = Len(pending) - 1
      /\ Tail(inflight) \in Seq(Confirm) /\ Len(Tail(inflight)) = Len(inflight) - 1
      /\ \A i \in 1 .. Len(Tail(pending)) : Tail(pending)[i] = pending[i + 1]
      /\ \A i \in 1 .. Len(Tail(inflight)) : Tail(inflight)[i] = inflight[i + 1]
  BY <1>1, HeadTailProperties
<1>3. /\ DOMAIN pending = 1 .. Len(pending) /\ Len(pending) \in Nat \ {0}
      /\ DOMAIN Tail(pending) = 1 .. Len(Tail(pending))
      /\ DOMAIN Tail(inflight) = 1 .. Len(Tail(inflight))
  BY <1>1, <1>2, LenProperties, EmptySeq
<1>4. Head(pending).frame = Head(inflight).frame
  BY <1>1, <1>3 DEF PendingTracksInflight
<1>5. Len(Tail(pending)) = Len(Tail(inflight))
  BY <1>2 DEF PendingTracksInflight
<1>6. ASSUME NEW i \in DOMAIN Tail(pending)
      PROVE  Tail(pending)[i].frame = Tail(inflight)[i].frame
  <2>1. i \in 1 .. Len(Tail(pending)) /\ i + 1 \in DOMAIN pending
    BY <1>2, <1>3
  <2> QED BY <1>2, <1>5, <2>1 DEF PendingTracksInflight
<1> QED BY <1>4, <1>5, <1>6 DEF PendingTracksInflight
LEMMA PairStep ==
  ASSUME TypeOK, PendingTracksInflight, [Next]_vars
  PROVE  PendingTracksInflight'
<1>0. CASE UNCHANGED <<pending, inflight>>
  BY <1>0 DEF PendingTracksInflight
<1>1. CASE PublishOk
  <2>1. /\ held[1] \in Entry
        /\ pending' = Append(pending, held[1])
        /\ inflight' = Append(inflight, [frame |-> held[1].frame, conf |-> "sent"])
    BY <1>1, HeldOne DEF PublishOk
  <2>2. [frame |-> held[1].frame, conf |-> "sent"] \in Confirm
    BY <2>1 DEF Entry, Confirm, Unresolved
  <2> DEFINE c == [frame |-> held[1].frame, conf |-> "sent"]
  <2>3. c \in Confirm /\ c.frame = held[1].frame /\ inflight' = Append(inflight, c)
    BY <2>1, <2>2
  <2> HIDE DEF c
  <2>4. pending \in Seq(Entry) /\ inflight \in Seq(Confirm)
    BY DEF TypeOK
  <2>5. /\ Len(pending') = Len(pending) + 1 /\ Len(inflight') = Len(inflight) + 1
        /\ \A i \in 1 .. Len(pending) : pending'[i] = pending[i]
        /\ \A i \in 1 .. Len(inflight) : inflight'[i] = inflight[i]
        /\ pending'[Len(pending) + 1] = held[1] /\ inflight'[Len(inflight) + 1] = c
        /\ pending' \in Seq(Entry) /\ inflight' \in Seq(Confirm)
    BY <2>1, <2>3, <2>4, AppendProperties
  <2>6. /\ DOMAIN pending' = 1 .. Len(pending) + 1 /\ Len(pending) \in Nat
        /\ DOMAIN pending = 1 .. Len(pending)
    BY <2>4, <2>5, LenProperties
  <2>7. Len(pending) = Len(inflight)
        /\ \A i \in 1 .. Len(pending) : pending[i].frame = inflight[i].frame
    BY <2>6 DEF PendingTracksInflight
  <2>8. ASSUME NEW i \in DOMAIN pending' PROVE pending'[i].frame = inflight'[i].frame
    BY <2>3, <2>5, <2>6, <2>7
  <2> QED BY <2>5, <2>7, <2>8 DEF PendingTracksInflight
<1>2. CASE ConfirmAck \/ ConfirmNack \/ ConfirmErr \/ ReapConfirm
  BY <1>2, TailsPair DEF ConfirmAck, ConfirmNack, ConfirmErr, ReapConfirm, PopConfirm
<1>3. CASE RequeueUnconfirmed
  <2>1. inflight # <<>>
    BY <1>3, EmptySeq DEF RequeueUnconfirmed, TypeOK, PendingTracksInflight
  <2> QED BY <1>3, <2>1, TailsPair DEF RequeueUnconfirmed
<1>4. CASE BrokerStore \/ BrokerNack \/ BrokerAck
  <2>1. PICK i \in DOMAIN inflight, o \in Unresolved \cup Resolved : Resolve(i, o)
    BY <1>4 DEF BrokerStore, BrokerNack, BrokerAck, Unresolved, Resolved
  <2>2. UNCHANGED pending
    BY <1>4 DEF BrokerStore, BrokerNack, BrokerAck
  <2>3. DOMAIN pending = DOMAIN inflight
    BY LenProperties DEF TypeOK, PendingTracksInflight
  <2> QED BY <2>1, <2>2, <2>3, ResolveTypes DEF PendingTracksInflight
<1>5. CASE FailConfirms
  <2>1. UNCHANGED pending
    BY <1>5 DEF FailConfirms
  <2>2. DOMAIN pending = DOMAIN inflight
    BY LenProperties DEF TypeOK, PendingTracksInflight
  <2> QED BY <1>5, <2>1, <2>2, FailTypes DEF PendingTracksInflight
<1>6. \/ UNCHANGED <<pending, inflight>>
      \/ PublishOk \/ ConfirmAck \/ ConfirmNack \/ ConfirmErr \/ ReapConfirm
      \/ RequeueUnconfirmed \/ BrokerStore \/ BrokerNack \/ BrokerAck
      \/ FailConfirms
  BY DEF Next, vars, Pump, Select, Supervise, Broker, Generate, Control, Receive,
         TakeRetry, TakeDup, TakeStaged, WindowFull, StartFill, PullPad, NextRound,
         FinishFill, PublishFail, Tick, ProbeFail, ReapTimeout, EndSession,
         BackoffElapsed, Connected, ConnectFail, SetupOk, SetupFail,
         BrokerLate, Arrives, Break
<1> QED BY <1>0, <1>1, <1>2, <1>3, <1>4, <1>5, <1>6

LEMMA TypeStep ==
  ASSUME TypeOK, PendingTracksInflight, [Next]_vars
  PROVE  TypeOK' /\ PendingTracksInflight'
<1>1. TypeOK'
  <2>1. CASE UNCHANGED vars
    BY <2>1 DEF TypeOK, vars, genVars, custody, faultVars, brokerVars
  <2>2. ASSUME NEW p \in Pads, Generate(p) PROVE TypeOK'
    BY <2>2, GenerateType
  <2> QED BY <2>1, <2>2, PumpType, SelectType, SuperviseType, ControlType, BrokerType
          DEF Next
<1>2. PendingTracksInflight'
  BY PairStep
<1> QED BY <1>1, <1>2

\* The type invariant, with the pairing of frames and confirms it rests on.
THEOREM TypeCorrect == Spec => [](TypeOK /\ PendingTracksInflight)
<1>1. Init => TypeOK /\ PendingTracksInflight
  BY InitType DEF Init, PendingTracksInflight
<1> QED BY <1>1, TypeStep, PTL DEF Spec
-----------------------------------------------------------------------------
(* Custody.  Each action is shown to keep every frame the edge holds in the *)
(* edge, or to leave it stored or counted as dropped.                       *)

LEMMA FramesAppend ==
  ASSUME NEW s \in Seq(Entry), NEW e \in Entry
  PROVE  Frames(Append(s, e)) = Frames(s) \cup {e.frame}
<1>1. /\ Append(s, e) \in Seq(Entry) /\ Len(Append(s, e)) = Len(s) + 1
      /\ Len(s) \in Nat
      /\ \A i \in 1 .. Len(s) : Append(s, e)[i] = s[i]
      /\ Append(s, e)[Len(s) + 1] = e
  BY AppendProperties, LenProperties
<1>2. /\ Frames(s) = {s[i].frame : i \in 1 .. Len(s)}
      /\ Frames(Append(s, e)) = {Append(s, e)[i].frame : i \in 1 .. Len(s) + 1}
  BY <1>1, LenProperties DEF Frames
<1>3. \A i \in 1 .. Len(s) + 1 : i \in 1 .. Len(s) \/ i = Len(s) + 1
  BY <1>1
<1> QED BY <1>1, <1>2, <1>3

LEMMA FramesHeadTail ==
  ASSUME NEW s \in Seq(Entry), s # <<>>
  PROVE  Frames(s) = {Head(s).frame} \cup Frames(Tail(s))
<1>1. /\ Tail(s) \in Seq(Entry) /\ Len(Tail(s)) = Len(s) - 1 /\ Len(s) \in Nat \ {0}
      /\ \A i \in 1 .. Len(Tail(s)) : Tail(s)[i] = s[i + 1]
      /\ Head(s) = s[1]
  BY HeadTailProperties, EmptySeq
<1>2. /\ Frames(s) = {s[i].frame : i \in 1 .. Len(s)}
      /\ Frames(Tail(s)) = {Tail(s)[i].frame : i \in 1 .. Len(Tail(s))}
  BY <1>1, LenProperties DEF Frames
<1>3. ASSUME NEW i \in 1 .. Len(s), i # 1 PROVE s[i].frame \in Frames(Tail(s))
  <2>1. i - 1 \in 1 .. Len(Tail(s)) /\ Tail(s)[i - 1] = s[i]
    BY <1>1, <1>3
  <2> QED BY <2>1, <1>2
<1>4. \A i \in 1 .. Len(Tail(s)) : Tail(s)[i].frame \in Frames(s)
  BY <1>1, <1>2
<1> QED BY <1>1, <1>2, <1>3, <1>4

LEMMA FramesHeld ==
  /\ Frames(<<>>) = {}
  /\ \A e \in Entry : Frames(<<e>>) = {e.frame}
BY DEF Frames

\* Nothing is forgotten by a step that satisfies Keeps.
Keeps ==
  /\ InEdge \subseteq InEdge' \cup stored' \cup dropped'
  /\ stored \subseteq stored' /\ dropped \subseteq dropped'
  /\ Generated' \subseteq Generated \cup InEdge'

LEMMA KeepsCustody == NoSilentLoss /\ Keeps => NoSilentLoss'
BY DEF Keeps, NoSilentLoss

LEMMA GenerateKeeps ==
  ASSUME TypeOK, NEW p \in Pads, Generate(p)
  PROVE  Keeps
<1> DEFINE f == [pad |-> p, seq |-> gen[p] + 1]
<1>1. gen \in [Pads -> Nat] /\ rx \in Seq(Frame) /\ f \in Frame
  BY DEF TypeOK, Frame
<1>2. Range(rx') = Range(rx) \cup {f}
  BY <1>1, RangeAppend DEF Generate
<1>3. gen' = [gen EXCEPT ![p] = @ + 1]
  BY DEF Generate
<1>4. ASSUME NEW q \in Pads, NEW n \in 1 .. gen'[q]
      PROVE  [pad |-> q, seq |-> n] \in Generated \cup {f}
  <2>1. CASE q # p \/ n # gen[p] + 1
    <3>1. n \in 1 .. gen[q]
      BY <1>1, <1>3, <1>4, <2>1
    <3> QED BY <3>1 DEF Generated
  <2>2. CASE q = p /\ n = gen[p] + 1
    BY <2>2
  <2> QED BY <2>1, <2>2
<1> HIDE DEF f
<1>5. Generated' \subseteq Generated \cup {f}
  <2> SUFFICES ASSUME NEW g \in Generated' PROVE g \in Generated \cup {f}
    OBVIOUS
  <2>1. PICK q \in Pads : \E n \in 1 .. gen'[q] : g = [pad |-> q, seq |-> n]
    BY DEF Generated
  <2> QED BY <1>4, <2>1
<1>6. InEdge' = InEdge \cup {f}
  BY <1>2 DEF InEdge, Staged, Buffered, Generate, custody
<1> QED BY <1>5, <1>6 DEF Keeps, Generate, brokerVars

\* A step that generates nothing and un-stores nothing keeps custody when
\* the edge holds what it held, but for what is stored or dropped.
LEMMA KeepsIf ==
  ASSUME UNCHANGED gen, stored \subseteq stored', dropped \subseteq dropped',
         InEdge \subseteq InEdge' \cup stored' \cup dropped'
  PROVE  Keeps
BY DEF Keeps, Generated

LEMMA ReceiveKeeps ==
  ASSUME TypeOK, Receive
  PROVE  Keeps
<1> DEFINE f == Head(rx)
           p == f.pad
<1>1. rx # <<>> /\ f \in Frame /\ Range(rx) = {f} \cup Range(rx')
  BY HeadTailProperties, RangeHeadTail DEF Receive, TypeOK
<1>2. p \in Pads /\ buf \in [Pads -> Seq(Frame)] /\ buf[p] \in Seq(Frame)
  BY <1>1 DEF TypeOK, Frame
<1>3. /\ buf' = [buf EXCEPT ![p] = buf'[p]] /\ buf' \in [Pads -> Seq(Frame)]
      /\ dropped \subseteq dropped'
      /\ Range(buf[p]) \cup {f} \subseteq Range(buf'[p]) \cup dropped'
  <2>1. CASE Len(buf[p]) >= BufferCap
    <3>1. /\ buf' = [buf EXCEPT ![p] = Append(Tail(buf[p]), f)]
          /\ dropped' = dropped \cup {Head(buf[p])}
      BY <2>1 DEF Receive, BufferFrame
    <3>2. buf[p] # <<>>
      BY <1>2, <2>1, EmptySeq, BoundsAssumption
    <3>3. /\ Tail(buf[p]) \in Seq(Frame)
          /\ Range(buf[p]) = {Head(buf[p])} \cup Range(Tail(buf[p]))
      BY <1>2, <3>2, HeadTailProperties, RangeHeadTail
    <3>4. Range(Append(Tail(buf[p]), f)) = Range(Tail(buf[p])) \cup {f}
      <4> DEFINE t == Tail(buf[p])
      <4>1. t \in Seq(Frame) /\ f \in Frame
        BY <1>1, <3>3
      <4> HIDE DEF t, f, p
      <4>2. Range(Append(t, f)) = Range(t) \cup {f}
        BY <4>1, RangeAppend
      <4> QED BY <4>2 DEF t
    <3>5. Append(Tail(buf[p]), f) \in Seq(Frame)
      BY <1>1, <3>3, AppendProperties
    <3> QED BY <1>2, <3>1, <3>3, <3>4, <3>5
  <2>2. CASE ~(Len(buf[p]) >= BufferCap)
    <3>1. buf' = [buf EXCEPT ![p] = Append(buf[p], f)] /\ dropped' = dropped
      BY <2>2 DEF Receive, BufferFrame
    <3>2. /\ Append(buf[p], f) \in Seq(Frame)
          /\ Range(Append(buf[p], f)) = Range(buf[p]) \cup {f}
      BY <1>1, <1>2, RangeAppend, AppendProperties
    <3> QED BY <1>2, <3>1, <3>2
  <2> QED BY <2>1, <2>2
<1> HIDE DEF f, p
<1>4. ASSUME NEW q \in Pads PROVE Range(buf[q]) \subseteq Range(buf'[q]) \cup dropped'
  BY <1>2, <1>3
<1>5. Buffered \cup {f} \subseteq Buffered' \cup dropped'
  BY <1>2, <1>3, <1>4 DEF Buffered
<1>6. /\ Range(shuffle') = Range(shuffle) /\ Range(pubq') = Range(pubq)
      /\ Range(retry') = Range(retry) /\ Range(dupq') = Range(dupq)
      /\ Frames(held') = Frames(held) /\ Frames(pending') = Frames(pending)
      /\ UNCHANGED <<gen, stored>>
  BY DEF Receive, brokerVars
<1> QED BY <1>1, <1>3, <1>5, <1>6, KeepsIf DEF InEdge, Staged, Buffered

LEMMA PumpKeeps ==
  ASSUME TypeOK, StagingInv, Pump
  PROVE  Keeps
<1> USE DEF genVars, custody, brokerVars
<1>1. CASE TakeRetry
  <2>1. /\ Range(retry) = {Head(retry)} \cup Range(retry')
        /\ Head(retry) \in Frame /\ retry # <<>>
    BY <1>1, RangeHeadTail, HeadTailProperties DEF TakeRetry, TypeOK
  <2>2. held' = <<[frame |-> Head(retry), dup |-> FALSE]>> /\ held = <<>>
    BY <1>1, EmptySeq DEF TakeRetry, Publish, TypeOK
  <2>3. Frames(held') = {Head(retry)} /\ Frames(held) = {}
    BY <2>1, <2>2, FramesHeld DEF Entry
  <2> QED BY <1>1, <2>1, <2>3, KeepsIf DEF TakeRetry, InEdge, Staged, Buffered
<1>2. CASE TakeDup
  <2>1. /\ Range(dupq) = {Head(dupq)} \cup Range(dupq')
        /\ Head(dupq) \in Frame /\ dupq # <<>>
    BY <1>2, RangeHeadTail, HeadTailProperties DEF TakeDup, TypeOK
  <2>2. held' = <<[frame |-> Head(dupq), dup |-> TRUE]>> /\ held = <<>>
    BY <1>2, EmptySeq DEF TakeDup, Publish, TypeOK
  <2>3. Frames(held') = {Head(dupq)} /\ Frames(held) = {}
    BY <2>1, <2>2, FramesHeld DEF Entry
  <2> QED BY <1>2, <2>1, <2>3, KeepsIf DEF TakeDup, InEdge, Staged, Buffered
<1>3. CASE TakeStaged
  <2>1. /\ Range(pubq) = {Head(pubq)} \cup Range(pubq')
        /\ Head(pubq) \in Frame /\ pubq # <<>>
    BY <1>3, RangeHeadTail, HeadTailProperties DEF TakeStaged, TypeOK
  <2>2. held' = <<[frame |-> Head(pubq), dup |-> FALSE]>> /\ held = <<>>
    BY <1>3, EmptySeq DEF TakeStaged, Publish, TypeOK
  <2>3. Frames(held') = {Head(pubq)} /\ Frames(held) = {}
    BY <2>1, <2>2, FramesHeld DEF Entry
  <2> QED BY <1>3, <2>1, <2>3, KeepsIf DEF TakeStaged, InEdge, Staged, Buffered
<1>4. CASE WindowFull \/ StartFill \/ NextRound
  BY <1>4, KeepsIf DEF WindowFull, StartFill, NextRound, InEdge, Staged, Buffered
<1>5. ASSUME NEW p \in Pads, PullPad(p) PROVE Keeps
  <2>1. CASE UNCHANGED <<buf, shuffle>>
    BY <1>5, <2>1, KeepsIf DEF PullPad, InEdge, Staged, Buffered
  <2>2. CASE ~UNCHANGED <<buf, shuffle>>
    <3>1. /\ buf[p] # <<>> /\ buf' = [buf EXCEPT ![p] = Tail(buf[p])]
          /\ shuffle' = Append(shuffle, Head(buf[p]))
          /\ buf \in [Pads -> Seq(Frame)] /\ shuffle \in Seq(Frame)
      BY <1>5, <2>2 DEF PullPad, TypeOK
    <3>2. /\ Head(buf[p]) \in Frame
          /\ Range(buf[p]) = {Head(buf[p])} \cup Range(Tail(buf[p]))
      BY <3>1, HeadTailProperties, RangeHeadTail
    <3>3. Range(shuffle') = Range(shuffle) \cup {Head(buf[p])}
      BY <3>1, <3>2, RangeAppend
    <3>4. \A q \in Pads : Range(buf[q]) \subseteq Range(buf'[q]) \cup {Head(buf[p])}
      BY <3>1, <3>2
    <3>5. Buffered \subseteq Buffered' \cup Range(shuffle')
      BY <3>3, <3>4 DEF Buffered
    <3>6. /\ Range(rx') = Range(rx) /\ Range(pubq') = Range(pubq)
          /\ Range(retry') = Range(retry) /\ Range(dupq') = Range(dupq)
          /\ Frames(held') = Frames(held) /\ Frames(pending') = Frames(pending)
          /\ UNCHANGED <<gen, stored, dropped>>
      BY <1>5 DEF PullPad
    <3> QED BY <3>3, <3>5, <3>6, KeepsIf DEF InEdge, Staged, Buffered
  <2> QED BY <2>1, <2>2
<1>6. CASE FinishFill
  <2>1. CASE Releases
    <3>1. PICK t \in Seq(Frame) :
            /\ t # <<>> /\ Range(t) = Range(shuffle) /\ pubq' = Tail(t)
            /\ held' = <<[frame |-> Head(t), dup |-> FALSE]>>
      BY <2>1 DEF Releases
    <3>2. /\ Head(t) \in Frame
          /\ Range(shuffle) = {Head(t)} \cup Range(pubq')
      BY <3>1, HeadTailProperties, RangeHeadTail
    <3>3. pubq = <<>> /\ held = <<>>
      BY <1>6, EmptySeq DEF FinishFill, StagingInv, TypeOK
    <3>4. Frames(held') = {Head(t)} /\ Frames(held) = {}
      BY <3>1, <3>2, <3>3, FramesHeld DEF Entry
    <3>6. Range(pubq) = {}
      BY <3>3 DEF Range
    <3>5. UNCHANGED <<rx, buf, retry, dupq, pending, gen, stored, dropped>>
      BY <1>6 DEF FinishFill
    <3> QED BY <3>2, <3>4, <3>5, <3>6, KeepsIf DEF InEdge, Staged, Buffered
  <2>2. CASE UNCHANGED <<shuffle, pubq, held>>
    BY <1>6, <2>2, KeepsIf DEF FinishFill, InEdge, Staged, Buffered
  <2> QED BY <1>6, <2>1, <2>2, FinishFillCases
<1>7. CASE PublishOk
  <2>1. held \in Seq(Entry) /\ held[1] \in Entry /\ DOMAIN held = {1}
    BY <1>7, HeldOne DEF PublishOk
  <2>2. Frames(held) = {held[1].frame}
    BY <2>1 DEF Frames
  <2>3. Frames(pending') = Frames(pending) \cup {held[1].frame}
    BY <1>7, <2>1, FramesAppend DEF PublishOk, TypeOK
  <2> QED BY <1>7, <2>2, <2>3, KeepsIf DEF PublishOk, InEdge, Staged, Buffered
<1>8. CASE PublishFail
  <2>1. held \in Seq(Entry) /\ held[1] \in Entry /\ DOMAIN held = {1}
    BY <1>8, HeldOne DEF PublishFail
  <2>2. Frames(held) = {held[1].frame} /\ held[1].frame \in Frame
    BY <2>1 DEF Frames, Entry
  <2>3. Range(retry') = Range(retry) \cup {held[1].frame}
    BY <1>8, <2>2, RangeCons DEF PublishFail, TypeOK
  <2> QED BY <1>8, <2>2, <2>3, KeepsIf DEF PublishFail, InEdge, Staged, Buffered
<1> QED BY <1>1, <1>2, <1>3, <1>4, <1>5, <1>6, <1>7, <1>8 DEF Pump

\* Settling the first unconfirmed publish: an ack finds its frame stored, a
\* refused or failed original goes to the retry queue, a duplicate is of a
\* frame the broker has.
LEMMA SettleKeeps ==
  ASSUME TypeOK, PendingTracksInflight, DupsStored, AcksStored,
         inflight # <<>>, pending' = Tail(pending),
         \/ Head(inflight).conf = "ack"
         \/ retry' = Requeued(Head(pending))
  PROVE  Frames(pending) \subseteq Frames(pending') \cup stored \cup Range(retry')
<1>1. pending \in Seq(Entry) /\ pending # <<>> /\ inflight \in Seq(Confirm)
      /\ retry \in Seq(Frame)
  BY EmptySeq DEF TypeOK, PendingTracksInflight
<1>2. /\ Frames(pending) = {Head(pending).frame} \cup Frames(pending')
      /\ Head(pending) \in Entry /\ 1 \in DOMAIN pending /\ 1 \in DOMAIN inflight
      /\ Head(pending) = pending[1] /\ Head(inflight) = inflight[1]
  BY <1>1, FramesHeadTail, HeadTailProperties, LenProperties, EmptySeq
<1>3. CASE Head(inflight).conf = "ack"
  <2>1. Head(pending).frame \in stored
    BY <1>2, <1>3 DEF AcksStored, PendingTracksInflight
  <2> QED BY <1>2, <2>1
<1>4. CASE retry' = Requeued(Head(pending)) /\ Head(pending).dup
  BY <1>2, <1>4 DEF DupsStored
<1>5. CASE retry' = Requeued(Head(pending)) /\ ~Head(pending).dup
  <2>1. Range(retry') = Range(retry) \cup {Head(pending).frame}
    BY <1>1, <1>2, <1>5, RangeAppend DEF Requeued, Entry
  <2> QED BY <1>2, <2>1
<1> QED BY <1>3, <1>4, <1>5

LEMMA RequeuedGrows ==
  ASSUME TypeOK, NEW e \in Entry
  PROVE  Requeued(e) \in Seq(Frame)
         /\ Range(retry) \subseteq Range(Requeued(e))
         /\ Range(Requeued(e)) \subseteq Range(retry) \cup {e.frame}
<1>1. e.frame \in Frame /\ retry \in Seq(Frame)
  BY DEF Entry, TypeOK
<1>2. /\ Append(retry, e.frame) \in Seq(Frame)
      /\ Range(Append(retry, e.frame)) = Range(retry) \cup {e.frame}
  BY <1>1, AppendProperties, RangeAppend
<1> QED BY <1>1, <1>2 DEF Requeued

LEMMA SelectKeeps ==
  ASSUME TypeOK, PendingTracksInflight, DupsStored, AcksStored, Select
  PROVE  Keeps
<1> USE DEF genVars, custody, brokerVars
<1>1. CASE Receive
  BY <1>1, ReceiveKeeps
<1>2. CASE ConfirmAck
  <2>1. Frames(pending) \subseteq Frames(pending') \cup stored \cup Range(retry')
    BY <1>2, SettleKeeps DEF ConfirmAck, PopConfirm
  <2>2. Range(dupq) \subseteq Range(dupq')
    <3>1. Head(pending).frame \in Frame /\ dupq \in Seq(Frame)
      BY <1>2, PopTypes DEF ConfirmAck, Entry, TypeOK
    <3>2. Range(Append(dupq, Head(pending).frame)) = Range(dupq) \cup {Head(pending).frame}
      BY <3>1, RangeAppend
    <3> QED BY <1>2, <3>2 DEF ConfirmAck
  <2> QED BY <1>2, <2>1, <2>2, KeepsIf DEF ConfirmAck, InEdge, Staged, Buffered
<1>3. CASE ConfirmNack \/ ConfirmErr
  <2>1. Frames(pending) \subseteq Frames(pending') \cup stored \cup Range(retry')
    BY <1>3, SettleKeeps DEF ConfirmNack, ConfirmErr, PopConfirm
  <2>2. Range(retry) \subseteq Range(retry')
    BY <1>3, RequeuedGrows, PopTypes DEF ConfirmNack, ConfirmErr
  <2> QED BY <1>3, <2>1, <2>2, KeepsIf DEF ConfirmNack, ConfirmErr, InEdge, Staged, Buffered
<1>4. CASE Tick \/ ProbeFail
  BY <1>4, KeepsIf DEF Tick, ProbeFail, InEdge, Staged, Buffered
<1> QED BY <1>1, <1>2, <1>3, <1>4 DEF Select

LEMMA SuperviseKeeps ==
  ASSUME TypeOK, PendingTracksInflight, DupsStored, AcksStored, Supervise
  PROVE  Keeps
<1> USE DEF genVars, custody, brokerVars
<1>1. CASE ReapConfirm
  <2>1. inflight # <<>> /\ pending' = Tail(pending)
        /\ (Head(inflight).conf = "ack" \/ retry' = Requeued(Head(pending)))
    BY <1>1 DEF ReapConfirm, PopConfirm
  <2>2. Frames(pending) \subseteq Frames(pending') \cup stored \cup Range(retry')
    BY <2>1, SettleKeeps
  <2>3. Range(retry) \subseteq Range(retry')
    BY <1>1, RequeuedGrows, PopTypes DEF ReapConfirm
  <2> QED BY <1>1, <2>2, <2>3, KeepsIf DEF ReapConfirm, InEdge, Staged, Buffered
<1>2. CASE RequeueUnconfirmed
  <2>1. inflight # <<>> /\ pending \in Seq(Entry) /\ pending # <<>>
    BY <1>2, EmptySeq DEF RequeueUnconfirmed, TypeOK, PendingTracksInflight
  <2>2. Frames(pending) \subseteq Frames(pending') \cup stored \cup Range(retry')
    BY <1>2, <2>1, SettleKeeps DEF RequeueUnconfirmed
  <2>3. Range(retry) \subseteq Range(retry')
    BY <1>2, <2>1, RequeuedGrows, HeadTailProperties DEF RequeueUnconfirmed
  <2> QED BY <1>2, <2>2, <2>3, KeepsIf DEF RequeueUnconfirmed, InEdge, Staged, Buffered
<1>3. CASE \/ ReapTimeout \/ EndSession \/ BackoffElapsed \/ Connected
            \/ ConnectFail \/ SetupOk \/ SetupFail
  BY <1>3, KeepsIf
  DEF ReapTimeout, EndSession, BackoffElapsed, Connected, ConnectFail, SetupOk, SetupFail,
      GiveUp, InEdge, Staged, Buffered
<1> QED BY <1>1, <1>2, <1>3 DEF Supervise

LEMMA BrokerKeeps ==
  ASSUME Broker \/ Control \/ UNCHANGED vars
  PROVE  Keeps
<1>1. UNCHANGED <<gen, rx, buf, shuffle, pubq, retry, dupq, held, pending, dropped>>
  BY DEF Broker, Control, BrokerStore, BrokerNack, BrokerAck, BrokerLate, Arrives, Break,
         FailConfirms, genVars, custody, vars
<1>2. stored \subseteq stored'
  BY DEF Broker, Control, BrokerStore, BrokerNack, BrokerAck, BrokerLate, Arrives, Break,
         FailConfirms, brokerVars, vars
<1> QED BY <1>1, <1>2, KeepsIf DEF InEdge, Staged, Buffered

\* No frame is lost silently by any step.
LEMMA NextKeeps ==
  ASSUME TypeOK, PendingTracksInflight, StagingInv, DupsStored, AcksStored, [Next]_vars
  PROVE  Keeps
<1>1. CASE \E p \in Pads : Generate(p)
  BY <1>1, GenerateKeeps
<1> QED BY <1>1, PumpKeeps, SelectKeeps, SuperviseKeeps, BrokerKeeps DEF Next
-----------------------------------------------------------------------------
(* The rest of the inductive invariant.                                     *)

\* The steps that take a new frame for publishing, and the steps that settle
\* the first unconfirmed publish.
Takes   == TakeRetry \/ TakeDup \/ TakeStaged \/ FinishFill
Settles == ConfirmAck \/ ConfirmNack \/ ConfirmErr \/ ReapConfirm \/ RequeueUnconfirmed

LEMMA OtherSteps ==
  ASSUME [Next]_vars
  PROVE  \/ Takes \/ Settles \/ PublishOk \/ PublishFail
         \/ UNCHANGED <<retry, dupq, held, pending>>
BY DEF Next, vars, Pump, Select, Supervise, Broker, Takes, Settles, Generate, Control,
       Receive, WindowFull, StartFill, PullPad, NextRound, Tick, ProbeFail,
       ReapTimeout, EndSession, BackoffElapsed, Connected, ConnectFail, SetupOk, SetupFail,
       BrokerStore,
       BrokerNack, BrokerAck, BrokerLate, Arrives, Break, FailConfirms, genVars, custody

LEMMA StoredGrows ==
  ASSUME [Next]_vars
  PROVE  stored \subseteq stored'
BY DEF Next, vars, Pump, Select, Supervise, Broker, Generate, Control, Receive,
       TakeRetry, TakeDup, TakeStaged, WindowFull, StartFill, PullPad, NextRound,
       FinishFill, PublishOk, PublishFail, ConfirmAck, ConfirmNack, ConfirmErr, Tick,
       ProbeFail, ReapConfirm, ReapTimeout, RequeueUnconfirmed, EndSession,
       BackoffElapsed, Connected, ConnectFail, SetupOk, SetupFail,
       BrokerStore, BrokerNack, BrokerAck,
       BrokerLate, Arrives, Break, FailConfirms, brokerVars

\* What a step that takes a frame does to the window: nothing unless the frame
\* was waiting for retransmission.
LEMMA TakesOne ==
  ASSUME TypeOK, Takes
  PROVE  /\ held = <<>> /\ UNCHANGED <<pending, inflight>>
         /\ held' = <<>> \/ \E e : held' = <<e>>
<1>1. held = <<>>
  <2>1. phase # "publish"
    BY DEF Takes, TakeRetry, TakeDup, TakeStaged, FinishFill
  <2> QED BY <2>1, EmptySeq DEF TypeOK
<1>2. UNCHANGED <<pending, inflight>>
  BY DEF Takes, TakeRetry, TakeDup, TakeStaged, FinishFill
<1>3. held' = held \/ \E e : held' = <<e>>
  BY DEF Takes, TakeRetry, TakeDup, TakeStaged, FinishFill, Publish
<1> QED BY <1>1, <1>2, <1>3

LEMMA SettlesOne ==
  ASSUME TypeOK, PendingTracksInflight, Settles
  PROVE  /\ inflight # <<>> /\ inflight' = Tail(inflight)
         /\ pending # <<>> /\ pending' = Tail(pending) /\ UNCHANGED held
         /\ \/ UNCHANGED retry
            \/ retry' = Requeued(Head(pending))
         /\ \/ UNCHANGED dupq
            \/ /\ Head(inflight).conf = "ack"
               /\ dupq' = Append(dupq, Head(pending).frame)
<1>1. pending \in Seq(Entry) /\ inflight \in Seq(Confirm) /\ Len(pending) = Len(inflight)
  BY DEF TypeOK, PendingTracksInflight
<1>2. pending = <<>> <=> inflight = <<>>
  BY <1>1, EmptySeq
<1> QED BY <1>2 DEF Settles, ConfirmAck, ConfirmNack, ConfirmErr, ReapConfirm,
                    RequeueUnconfirmed, PopConfirm

LEMMA StagingStep ==
  ASSUME TypeOK, StagingInv, [Next]_vars
  PROVE  StagingInv'
<1> USE DEF StagingInv, WindowOpen
<1>1. CASE Broker
  <2>1. UNCHANGED <<phase, retry, dupq, pubq>>
    BY <1>1 DEF Broker, BrokerStore, BrokerNack, BrokerAck, BrokerLate, Arrives, Break,
                FailConfirms, custody
  <2>2. Len(inflight') = Len(inflight)
    <3>1. CASE BrokerStore \/ BrokerNack \/ BrokerAck
      <4>1. PICK i \in DOMAIN inflight, o \in Unresolved \cup Resolved : Resolve(i, o)
        BY <3>1 DEF BrokerStore, BrokerNack, BrokerAck, Unresolved, Resolved
      <4> QED BY <4>1, ResolveTypes
    <3>2. CASE FailConfirms
      BY <3>2, FailTypes
    <3>3. CASE BrokerLate \/ Break
      BY <3>3 DEF BrokerLate, Arrives, Break
    <3> QED BY <1>1, <3>1, <3>2, <3>3 DEF Broker
  <2> QED BY <2>1, <2>2
<1>2. CASE Pump
  BY <1>2 DEF Pump, TakeRetry, TakeDup, TakeStaged, WindowFull, StartFill, PullPad,
              NextRound, FinishFill, Publish, PublishOk, PublishFail, custody
<1>3. CASE Select \/ Supervise
  BY <1>3 DEF Select, Supervise, Receive, ConfirmAck, ConfirmNack, ConfirmErr, Tick,
              ProbeFail, ReapConfirm, ReapTimeout, RequeueUnconfirmed, EndSession,
              BackoffElapsed, Connected, ConnectFail, SetupOk, SetupFail
<1>4. CASE (\E p \in Pads : Generate(p)) \/ Control \/ UNCHANGED vars
  <2>1. UNCHANGED <<phase, inflight, retry, dupq, pubq>>
    BY <1>4 DEF Generate, Control, vars, custody
  <2> QED BY <2>1
<1> QED BY <1>1, <1>2, <1>3, <1>4 DEF Next

LEMMA DupsStep ==
  ASSUME TypeOK, PendingTracksInflight, DupsStored, AcksStored, [Next]_vars
  PROVE  DupsStored'
<1>0. stored \subseteq stored'
  BY StoredGrows
<1>1. CASE Takes
  <2>1. UNCHANGED pending
    BY <1>1, TakesOne
  <2>2. CASE TakeDup
    <3>1. dupq \in Seq(Frame) /\ dupq # <<>> /\ dupq' = Tail(dupq)
          /\ held' = <<[frame |-> Head(dupq), dup |-> TRUE]>>
      BY <2>2 DEF TakeDup, Publish, TypeOK
    <3>2. Range(dupq) = {Head(dupq)} \cup Range(dupq')
      BY <3>1, RangeHeadTail
    <3>3. DOMAIN held' = {1} /\ held'[1].frame = Head(dupq)
      BY <3>1
    <3> QED BY <1>0, <2>1, <3>2, <3>3 DEF DupsStored
  <2>3. CASE TakeRetry \/ TakeStaged \/ FinishFill
    <3>1. UNCHANGED dupq
      BY <2>3 DEF TakeRetry, TakeStaged, FinishFill
    <3>2. UNCHANGED held \/ \E f : held' = <<[frame |-> f, dup |-> FALSE]>>
      BY <2>3 DEF TakeRetry, TakeStaged, FinishFill, Publish
    <3>3. \A i \in DOMAIN held' : held'[i].dup => held'[i].frame \in stored
      BY <3>2 DEF DupsStored
    <3> QED BY <1>0, <2>1, <3>1, <3>3 DEF DupsStored
  <2> QED BY <1>1, <2>2, <2>3 DEF Takes
<1>2. CASE Settles
  <2>1. /\ inflight # <<>> /\ pending # <<>> /\ pending \in Seq(Entry)
        /\ inflight \in Seq(Confirm) /\ dupq \in Seq(Frame)
        /\ pending' = Tail(pending) /\ UNCHANGED held
    BY <1>2, SettlesOne DEF TypeOK
  <2>2. \A i \in DOMAIN pending' : i + 1 \in DOMAIN pending /\ pending'[i] = pending[i + 1]
    BY <2>1, HeadTailProperties, LenProperties
  <2>3. Range(dupq') \subseteq stored
    <3>1. CASE UNCHANGED dupq
      BY <3>1 DEF DupsStored
    <3>2. CASE Head(inflight).conf = "ack" /\ dupq' = Append(dupq, Head(pending).frame)
      <4>1. /\ 1 \in DOMAIN pending /\ 1 \in DOMAIN inflight
            /\ Head(pending) = pending[1] /\ Head(inflight) = inflight[1]
            /\ Head(pending).frame \in Frame
        <5>1. Head(pending) \in Entry /\ Head(pending) = pending[1]
              /\ Head(inflight) = inflight[1]
          BY <2>1, HeadTailProperties
        <5>2. Len(pending) \in Nat \ {0} /\ Len(inflight) \in Nat \ {0}
          BY <2>1, EmptySeq, LenProperties
        <5>3. 1 \in DOMAIN pending /\ 1 \in DOMAIN inflight
          BY <2>1, <5>2, LenProperties
        <5> QED BY <5>1, <5>3 DEF Entry
      <4>2. Head(pending).frame \in stored
        BY <3>2, <4>1 DEF AcksStored, PendingTracksInflight
      <4>3. Range(dupq') = Range(dupq) \cup {Head(pending).frame}
        BY <2>1, <3>2, <4>1, RangeAppend
      <4> QED BY <4>2, <4>3 DEF DupsStored
    <3> QED BY <1>2, <3>1, <3>2, SettlesOne
  <2> QED BY <1>0, <2>1, <2>2, <2>3 DEF DupsStored
<1>3. CASE PublishOk
  <2>1. /\ held[1] \in Entry /\ DOMAIN held = {1} /\ held' = <<>> /\ UNCHANGED dupq
        /\ pending \in Seq(Entry) /\ pending' = Append(pending, held[1])
    BY <1>3, HeldOne DEF PublishOk, TypeOK, custody
  <2>2. \A i \in DOMAIN pending' :
          pending'[i] = held[1] \/ (i \in DOMAIN pending /\ pending'[i] = pending[i])
    BY <2>1, AppendProperties, LenProperties
  <2>3. DOMAIN held' = {}
    BY <2>1
  <2> QED BY <1>0, <2>1, <2>2, <2>3 DEF DupsStored
<1>4. CASE PublishFail
  <2>1. held' = <<>> /\ UNCHANGED <<dupq, pending>>
    BY <1>4 DEF PublishFail
  <2>2. DOMAIN held' = {}
    BY <2>1
  <2> QED BY <1>0, <2>1, <2>2 DEF DupsStored
<1>5. CASE UNCHANGED <<retry, dupq, held, pending>>
  BY <1>0, <1>5 DEF DupsStored
<1> QED BY <1>1, <1>2, <1>3, <1>4, <1>5, OtherSteps

LEMMA AcksStep ==
  ASSUME TypeOK, PendingTracksInflight, AcksStored, [Next]_vars
  PROVE  AcksStored'
<1>0. stored \subseteq stored'
  BY StoredGrows
<1>1. CASE PublishOk
  <2> DEFINE c == [frame |-> held[1].frame, conf |-> "sent"]
  <2>1. c \in Confirm /\ inflight \in Seq(Confirm) /\ inflight' = Append(inflight, c)
    BY <1>1, HeldOne DEF PublishOk, TypeOK, Entry, Confirm, Unresolved
  <2>2. c.conf = "sent"
    OBVIOUS
  <2> HIDE DEF c
  <2>3. \A i \in DOMAIN inflight' :
          inflight'[i] = c \/ (i \in DOMAIN inflight /\ inflight'[i] = inflight[i])
    BY <2>1, AppendProperties, LenProperties
  <2> QED BY <1>0, <2>2, <2>3 DEF AcksStored
<1>2. CASE Settles
  <2>1. inflight # <<>> /\ inflight \in Seq(Confirm) /\ inflight' = Tail(inflight)
    BY <1>2, SettlesOne DEF TypeOK
  <2>2. \A i \in DOMAIN inflight' :
          i + 1 \in DOMAIN inflight /\ inflight'[i] = inflight[i + 1]
    BY <2>1, HeadTailProperties, LenProperties
  <2> QED BY <1>0, <2>2 DEF AcksStored
<1>3. CASE BrokerStore
  <2>1. PICK i \in DOMAIN inflight :
          Resolve(i, "stored") /\ stored' = stored \cup {inflight[i].frame}
    BY <1>3 DEF BrokerStore
  <2>2. /\ DOMAIN inflight' = DOMAIN inflight
        /\ \A j \in DOMAIN inflight : inflight'[j].frame = inflight[j].frame
    BY <2>1, ResolveTypes DEF Unresolved
  <2>3. \A j \in DOMAIN inflight : j # i => inflight'[j] = inflight[j]
    BY <2>1 DEF Resolve
  <2>4. ASSUME NEW j \in DOMAIN inflight', inflight'[j].conf \in {"stored", "ack"}
        PROVE  inflight'[j].frame \in stored'
    BY <2>1, <2>2, <2>3, <2>4 DEF AcksStored
  <2> QED BY <2>4 DEF AcksStored
<1>4. CASE BrokerNack \/ BrokerAck
  <2>1. PICK i \in DOMAIN inflight :
          \/ Resolve(i, "nack")
          \/ inflight[i].conf = "stored" /\ Resolve(i, "ack")
    BY <1>4 DEF BrokerNack, BrokerAck
  <2>2. /\ DOMAIN inflight' = DOMAIN inflight
        /\ \A j \in DOMAIN inflight : inflight'[j].frame = inflight[j].frame
    BY <2>1, ResolveTypes DEF Resolved
  <2>3. /\ \A j \in DOMAIN inflight : j # i => inflight'[j] = inflight[j]
        /\ inflight[i].conf = "stored" \/ inflight'[i].conf = "nack"
    <3>1. inflight[i] \in Confirm
      BY DEF TypeOK
    <3> QED BY <2>1, <3>1 DEF Resolve, Confirm
  <2>4. ASSUME NEW j \in DOMAIN inflight', inflight'[j].conf \in {"stored", "ack"}
        PROVE  inflight'[j].frame \in stored'
    <3>1. inflight[j].conf \in {"stored", "ack"}
      BY <2>2, <2>3, <2>4
    <3> QED BY <1>0, <2>2, <2>4, <3>1 DEF AcksStored
  <2> QED BY <2>4 DEF AcksStored
<1>5. CASE FailConfirms
  <2>1. /\ DOMAIN inflight' = DOMAIN inflight
        /\ \A j \in DOMAIN inflight : inflight'[j].frame = inflight[j].frame
    BY <1>5, FailTypes
  <2>2. inflight' = [i \in DOMAIN inflight |->
                       IF inflight[i].conf \in Unresolved
                       THEN [inflight[i] EXCEPT !.conf = "err"] ELSE inflight[i]]
    BY <1>5 DEF FailConfirms
  <2>3. ASSUME NEW j \in DOMAIN inflight', inflight'[j].conf \in {"stored", "ack"}
        PROVE  inflight[j].conf \in {"stored", "ack"}
    <3>1. inflight[j] \in Confirm
      BY <2>1, <2>3 DEF TypeOK
    <3>2. inflight[j].conf \notin Unresolved
      BY <2>1, <2>2, <2>3, <3>1 DEF Confirm
    <3> QED BY <2>1, <2>2, <2>3, <3>2
  <2> QED BY <1>0, <2>1, <2>3 DEF AcksStored
<1>6. CASE UNCHANGED inflight
  BY <1>0, <1>6 DEF AcksStored
<1>7. \/ PublishOk \/ Settles \/ BrokerStore \/ BrokerNack \/ BrokerAck \/ FailConfirms
      \/ UNCHANGED inflight
  BY DEF Next, vars, Pump, Select, Supervise, Broker, Generate, Control, Receive,
         TakeRetry, TakeDup, TakeStaged, WindowFull, StartFill, PullPad, NextRound,
         FinishFill, PublishFail, Settles, Tick, ProbeFail, ReapTimeout, EndSession,
         BackoffElapsed, Connected, ConnectFail, SetupOk, SetupFail,
         BrokerLate, Arrives, Break
<1> QED BY <1>1, <1>2, <1>3, <1>4, <1>5, <1>6, <1>7

LEMMA WindowStep ==
  ASSUME TypeOK, PendingTracksInflight, StagingInv, RetryBounded, [Next]_vars
  PROVE  RetryBounded'
<1>0. /\ retry \in Seq(Frame) /\ held \in Seq(Entry) /\ pending \in Seq(Entry)
      /\ Len(retry) \in Nat /\ Len(held) \in Nat /\ Len(pending) \in Nat
      /\ Len(pending) = Len(inflight) /\ ConfirmWindow \in Nat \ {0}
  BY LenProperties, BoundsAssumption DEF TypeOK, PendingTracksInflight
<1>1. Len(<<>>) = 0 /\ \A e : Len(<<e>>) = 1
  OBVIOUS
<1>2. CASE TakeRetry
  <2>1. held = <<>> /\ UNCHANGED pending
    BY <1>2, TakesOne DEF Takes
  <2>2. /\ retry # <<>> /\ retry' = Tail(retry)
        /\ held' = <<[frame |-> Head(retry), dup |-> FALSE]>>
    BY <1>2 DEF TakeRetry, Publish
  <2>3. Len(retry') = Len(retry) - 1
    BY <1>0, <2>2, HeadTailProperties
  <2>4. Len(held) = 0 /\ Len(held') = 1
    BY <1>1, <2>1, <2>2
  <2> QED BY <1>0, <2>1, <2>3, <2>4 DEF RetryBounded
<1>3. CASE TakeDup \/ TakeStaged \/ FinishFill
  <2>1. UNCHANGED <<pending, retry>>
    BY <1>3, TakesOne DEF Takes, TakeDup, TakeStaged, FinishFill
  <2>2. retry = <<>> /\ Len(inflight) < ConfirmWindow
    BY <1>3 DEF TakeDup, TakeStaged, FinishFill, StagingInv, WindowOpen
  <2>3. Len(held') <= 1 /\ Len(held') \in Nat
    <3>1. held' = <<>> \/ \E e : held' = <<e>>
      BY <1>3, TakesOne DEF Takes
    <3>2. CASE held' = <<>>
      BY <1>1, <3>2
    <3>3. CASE \E e : held' = <<e>>
      <4>1. PICK e : held' = <<e>>
        BY <3>3
      <4>2. Len(held') = 1
        BY <4>1
      <4> QED BY <4>2
    <3> QED BY <3>1, <3>2, <3>3
  <2>4. Len(retry') = 0
    BY <1>1, <2>1, <2>2
  <2> QED BY <1>0, <2>1, <2>2, <2>3, <2>4 DEF RetryBounded
<1>4. CASE Settles
  <2>1. pending # <<>> /\ pending' = Tail(pending) /\ UNCHANGED held
        /\ (UNCHANGED retry \/ retry' = Requeued(Head(pending)))
    BY <1>4, SettlesOne
  <2>2. Len(pending') = Len(pending) - 1 /\ Head(pending).frame \in Frame
    <3>1. Len(Tail(pending)) = Len(pending) - 1 /\ Head(pending) \in Entry
      BY <1>0, <2>1, HeadTailProperties
    <3> QED BY <2>1, <3>1 DEF Entry
  <2>3. Len(retry') <= Len(retry) + 1 /\ Len(retry') \in Nat
    BY <1>0, <2>1, <2>2, AppendProperties DEF Requeued
  <2> QED BY <1>0, <2>1, <2>2, <2>3 DEF RetryBounded
<1>5. CASE PublishOk
  <2>1. held[1] \in Entry /\ Len(held) = 1
    BY <1>5, HeldOne DEF PublishOk, TypeOK
  <2>2. UNCHANGED retry /\ Len(held') = 0 /\ Len(pending') = Len(pending) + 1
    BY <1>0, <1>1, <1>5, <2>1, AppendProperties DEF PublishOk, custody
  <2> QED BY <1>0, <2>1, <2>2 DEF RetryBounded
<1>6. CASE PublishFail
  <2>1. held[1].frame \in Frame /\ Len(held) = 1
    BY <1>6, HeldOne DEF PublishFail, TypeOK, Entry
  <2>2. UNCHANGED pending /\ Len(held') = 0 /\ retry' = <<held[1].frame>> \o retry
    BY <1>1, <1>6 DEF PublishFail
  <2>3. Len(retry') = Len(retry) + 1
    BY <1>0, <2>1, <2>2
  <2> QED BY <1>0, <2>1, <2>2, <2>3 DEF RetryBounded
<1>7. CASE UNCHANGED <<retry, dupq, held, pending>>
  BY <1>7 DEF RetryBounded
<1> QED BY <1>2, <1>3, <1>4, <1>5, <1>6, <1>7, OtherSteps DEF Takes

-----------------------------------------------------------------------------
(* One copy.  Behind the buffers the frames stand in six queues; a step     *)
(* moves a frame from one to another, so no frame stands in two places.     *)

\* The frames of a queue of entries, as a queue of frames.
LEMMA BodiesOf ==
  ASSUME NEW s \in Seq(Entry)
  PROVE  /\ Bodies(s) \in Seq(Frame) /\ Len(Bodies(s)) = Len(s)
         /\ \A i \in 1 .. Len(s) : Bodies(s)[i] = s[i].frame
         /\ Range(Bodies(s)) = Frames(s)
<1>1. Len(s) \in Nat /\ DOMAIN s = 1 .. Len(s) /\ \A i \in 1 .. Len(s) : s[i] \in Entry
  BY LenProperties, ElementOfSeq
<1>2. /\ DOMAIN Bodies(s) = 1 .. Len(s)
      /\ \A i \in 1 .. Len(s) : Bodies(s)[i] = s[i].frame
      /\ Bodies(s) = [i \in 1 .. Len(s) |-> Bodies(s)[i]]
  BY <1>1 DEF Bodies
<1>3. \A i \in 1 .. Len(s) : Bodies(s)[i] \in Frame
  BY <1>1, <1>2 DEF Entry
<1>4. Bodies(s) \in Seq(Frame)
  <2>1. Bodies(s) \in [1 .. Len(s) -> Frame]
    BY <1>2, <1>3
  <2> QED BY <1>1, <2>1, SeqDef
<1>5. Len(Bodies(s)) = Len(s)
  BY <1>1, <1>2, <1>4, LenProperties
<1>6. Range(Bodies(s)) = Frames(s)
  BY <1>1, <1>2 DEF Range, Frames
<1> QED BY <1>2, <1>4, <1>5, <1>6

LEMMA BodiesAppend ==
  ASSUME NEW s \in Seq(Entry), NEW e \in Entry
  PROVE  Bodies(Append(s, e)) = Append(Bodies(s), e.frame)
<1> DEFINE t == Append(s, e)
           a == Bodies(t)
           b == Append(Bodies(s), e.frame)
<1>1. /\ t \in Seq(Entry) /\ Len(t) = Len(s) + 1 /\ Len(s) \in Nat /\ t[Len(s) + 1] = e
      /\ \A i \in 1 .. Len(s) : t[i] = s[i]
  BY AppendProperties, LenProperties
<1>2. e.frame \in Frame /\ Bodies(s) \in Seq(Frame) /\ Len(Bodies(s)) = Len(s)
      /\ \A i \in 1 .. Len(s) : Bodies(s)[i] = s[i].frame
  BY BodiesOf DEF Entry
<1>3. /\ b \in Seq(Frame) /\ Len(b) = Len(s) + 1 /\ b[Len(s) + 1] = e.frame
      /\ \A i \in 1 .. Len(s) : b[i] = s[i].frame
  <2> DEFINE c == Bodies(s)
             f == e.frame
  <2>1. c \in Seq(Frame) /\ f \in Frame
    BY <1>2
  <2> HIDE DEF c, f
  <2>2. /\ Append(c, f) \in Seq(Frame) /\ Len(Append(c, f)) = Len(c) + 1
        /\ Append(c, f)[Len(c) + 1] = f /\ \A i \in 1 .. Len(c) : Append(c, f)[i] = c[i]
    BY <2>1, AppendProperties
  <2> QED BY <1>2, <2>2 DEF c, f
<1> HIDE DEF t
<1>4. a \in Seq(Frame) /\ Len(a) = Len(t) /\ \A i \in 1 .. Len(t) : a[i] = t[i].frame
  BY <1>1, BodiesOf
<1> HIDE DEF a, b
<1>5. \A i \in 1 .. Len(s) + 1 : i \in 1 .. Len(s) \/ i = Len(s) + 1
  BY <1>1
<1>6. \A i \in 1 .. Len(a) : a[i] = b[i]
  BY <1>1, <1>3, <1>4, <1>5
<1>7. a = b
  BY <1>1, <1>3, <1>4, <1>6, SeqEqual
<1> QED BY <1>7 DEF a, b, t

LEMMA BodiesHeadTail ==
  ASSUME NEW s \in Seq(Entry), s # <<>>
  PROVE  /\ Bodies(s) # <<>> /\ Head(Bodies(s)) = Head(s).frame
         /\ Bodies(Tail(s)) = Tail(Bodies(s))
<1> DEFINE t == Tail(s)
           b == Bodies(s)
           a == Bodies(t)
<1>1. /\ t \in Seq(Entry) /\ Len(t) = Len(s) - 1 /\ Len(s) \in Nat \ {0}
      /\ Head(s) = s[1] /\ \A i \in 1 .. Len(t) : t[i] = s[i + 1]
  BY HeadTailProperties, EmptySeq
<1> HIDE DEF t
<1>2. b \in Seq(Frame) /\ Len(b) = Len(s) /\ \A i \in 1 .. Len(s) : b[i] = s[i].frame
  BY BodiesOf
<1>3. a \in Seq(Frame) /\ Len(a) = Len(t) /\ \A i \in 1 .. Len(t) : a[i] = t[i].frame
  BY <1>1, BodiesOf
<1> HIDE DEF a, b
<1>4. b # <<>>
  BY <1>1, <1>2, EmptySeq
<1>5. /\ Tail(b) \in Seq(Frame) /\ Len(Tail(b)) = Len(b) - 1 /\ Head(b) = b[1]
      /\ \A i \in 1 .. Len(Tail(b)) : Tail(b)[i] = b[i + 1]
  BY <1>2, <1>4, HeadTailProperties
<1>6. \A i \in 1 .. Len(a) : a[i] = Tail(b)[i]
  <2> TAKE i \in 1 .. Len(a)
  <2>1. i \in 1 .. Len(t) /\ i \in 1 .. Len(Tail(b)) /\ i + 1 \in 1 .. Len(s)
    BY <1>1, <1>2, <1>3, <1>5
  <2> QED BY <1>1, <1>2, <1>3, <1>5, <2>1
<1>7. a = Tail(b)
  BY <1>1, <1>2, <1>3, <1>5, <1>6, SeqEqual
<1>8. 1 \in 1 .. Len(s)
  BY <1>1
<1>9. Head(b) = Head(s).frame
  BY <1>1, <1>2, <1>5, <1>8
<1> QED BY <1>4, <1>7, <1>9 DEF a, b, t

\* Six sets no two of which meet.
Disjoint(A, B, C, D, E, F) ==
  /\ A \cap (B \cup C \cup D \cup E \cup F) = {}
  /\ B \cap (C \cup D \cup E \cup F) = {}
  /\ C \cap (D \cup E \cup F) = {}
  /\ D \cap (E \cup F) = {}
  /\ E \cap F = {}

\* Taking h out of s leaves t.
Pops(s, t, h) ==
  /\ Range(s) = {h} \cup Range(t)
  /\ IsInjective(s) => IsInjective(t) /\ h \notin Range(t)

LEMMA PopsHead ==
  ASSUME NEW S, NEW s \in Seq(S), s # <<>>
  PROVE  Head(s) \in S /\ Pops(s, Tail(s), Head(s))
BY HeadTailProperties, RangeHeadTail, HeadTailFresh DEF Pops

LEMMA BodiesOne ==
  /\ IsInjective(Bodies(<<>>))
  /\ \A e : IsInjective(Bodies(<<e>>))
BY DEF Bodies, IsInjective

\* What a step that takes a frame moves into the publish.
LEMMA TakesMove ==
  ASSUME TypeOK, StagingInv, Takes
  PROVE  /\ UNCHANGED pending
         /\ \/ UNCHANGED <<shuffle, pubq, retry, dupq, held>>
            \/ \E h \in Frame :
                 /\ Frames(held) = {} /\ Frames(held') = {h} /\ IsInjective(Bodies(held'))
                 /\ \/ Pops(retry, retry', h) /\ UNCHANGED <<shuffle, pubq, dupq>>
                    \/ Pops(dupq, dupq', h) /\ UNCHANGED <<shuffle, pubq, retry>>
                    \/ Pops(pubq, pubq', h) /\ UNCHANGED <<shuffle, retry, dupq>>
                    \/ /\ Pops(shuffle, pubq', h) /\ pubq = <<>> /\ shuffle' = <<>>
                       /\ UNCHANGED <<retry, dupq>>
<1>0. held = <<>> /\ UNCHANGED pending /\ Frames(held) = {}
  BY TakesOne, FramesHeld
<1>1. ASSUME NEW h \in Frame, NEW d \in BOOLEAN, held' = <<[frame |-> h, dup |-> d]>>
      PROVE  Frames(held') = {h} /\ IsInjective(Bodies(held'))
  BY <1>1, FramesHeld, BodiesOne DEF Entry
<1>2. CASE TakeRetry
  <2>1. /\ Head(retry) \in Frame /\ Pops(retry, retry', Head(retry))
        /\ held' = <<[frame |-> Head(retry), dup |-> FALSE]>>
        /\ UNCHANGED <<shuffle, pubq, dupq>>
    BY <1>2, PopsHead DEF TakeRetry, Publish, TypeOK
  <2>2. Frames(held') = {Head(retry)} /\ IsInjective(Bodies(held'))
    BY <1>1, <2>1
  <2> QED BY <1>0, <2>1, <2>2
<1>3. CASE TakeDup
  <2>1. /\ Head(dupq) \in Frame /\ Pops(dupq, dupq', Head(dupq))
        /\ held' = <<[frame |-> Head(dupq), dup |-> TRUE]>>
        /\ UNCHANGED <<shuffle, pubq, retry>>
    BY <1>3, PopsHead DEF TakeDup, Publish, TypeOK
  <2>2. Frames(held') = {Head(dupq)} /\ IsInjective(Bodies(held'))
    BY <1>1, <2>1
  <2> QED BY <1>0, <2>1, <2>2
<1>4. CASE TakeStaged
  <2>1. /\ Head(pubq) \in Frame /\ Pops(pubq, pubq', Head(pubq))
        /\ held' = <<[frame |-> Head(pubq), dup |-> FALSE]>>
        /\ UNCHANGED <<shuffle, retry, dupq>>
    BY <1>4, PopsHead DEF TakeStaged, Publish, TypeOK
  <2>2. Frames(held') = {Head(pubq)} /\ IsInjective(Bodies(held'))
    BY <1>1, <2>1
  <2> QED BY <1>0, <2>1, <2>2
<1>5. CASE FinishFill
  <2>1. pubq = <<>> /\ UNCHANGED <<retry, dupq>>
    BY <1>5 DEF FinishFill, StagingInv
  <2>2. CASE Releases
    <3>1. PICK t \in Seq(Frame) :
            /\ t # <<>> /\ Range(t) = Range(shuffle)
            /\ IsInjective(shuffle) => IsInjective(t)
            /\ shuffle' = <<>> /\ pubq' = Tail(t)
            /\ held' = <<[frame |-> Head(t), dup |-> FALSE]>>
      BY <2>2 DEF Releases
    <3>2. Head(t) \in Frame /\ Pops(t, pubq', Head(t))
      BY <3>1, PopsHead
    <3>3. Pops(shuffle, pubq', Head(t))
      BY <3>1, <3>2 DEF Pops
    <3>4. Frames(held') = {Head(t)} /\ IsInjective(Bodies(held'))
      BY <1>1, <3>1, <3>2
    <3> QED BY <1>0, <2>1, <3>1, <3>2, <3>3, <3>4
  <2>3. CASE UNCHANGED <<shuffle, pubq, held>>
    BY <1>0, <2>1, <2>3
  <2> QED BY <1>5, <2>2, <2>3, FinishFillCases
<1> QED BY <1>2, <1>3, <1>4, <1>5 DEF Takes

\* What settling the first unconfirmed publish moves: the frame leaves, or
\* waits for its retransmission, or is queued again by the dup fault.
LEMMA SettlesMove ==
  ASSUME TypeOK, PendingTracksInflight, Settles
  PROVE  /\ UNCHANGED <<shuffle, pubq, held>>
         /\ \E h \in Frame :
              /\ Frames(pending) = {h} \cup Frames(pending')
              /\ IsInjective(Bodies(pending)) =>
                   IsInjective(Bodies(pending')) /\ h \notin Frames(pending')
              /\ \/ UNCHANGED <<retry, dupq>>
                 \/ retry' = Append(retry, h) /\ UNCHANGED dupq
                 \/ dupq' = Append(dupq, h) /\ UNCHANGED retry
<1>1. /\ pending \in Seq(Entry) /\ pending # <<>> /\ pending' = Tail(pending)
      /\ UNCHANGED held
  BY SettlesOne DEF TypeOK
<1>2. UNCHANGED <<shuffle, pubq>>
  BY DEF Settles, ConfirmAck, ConfirmNack, ConfirmErr, ReapConfirm, RequeueUnconfirmed
<1> DEFINE h == Head(pending).frame
<1>3. Head(pending) \in Entry /\ pending' \in Seq(Entry)
  BY <1>1, HeadTailProperties
<1>4. h \in Frame /\ Frames(pending) = {h} \cup Frames(pending')
  BY <1>1, <1>3, FramesHeadTail DEF Entry
<1>5. /\ Bodies(pending) \in Seq(Frame) /\ Bodies(pending) # <<>>
      /\ Head(Bodies(pending)) = h /\ Bodies(pending') = Tail(Bodies(pending))
      /\ Range(Bodies(pending')) = Frames(pending')
  BY <1>1, <1>3, BodiesOf, BodiesHeadTail
<1>6. IsInjective(Bodies(pending)) =>
        IsInjective(Bodies(pending')) /\ h \notin Frames(pending')
  BY <1>5, HeadTailFresh
<1>7. \/ UNCHANGED <<retry, dupq>>
      \/ retry' = Append(retry, h) /\ UNCHANGED dupq
      \/ dupq' = Append(dupq, h) /\ UNCHANGED retry
  BY DEF Settles, ConfirmAck, ConfirmNack, ConfirmErr, ReapConfirm, RequeueUnconfirmed,
         Requeued
<1> HIDE DEF h
<1> QED BY <1>1, <1>2, <1>4, <1>6, <1>7

\* What the end of a publish moves.
LEMMA PublishMove ==
  ASSUME TypeOK, PublishOk \/ PublishFail
  PROVE  /\ UNCHANGED <<shuffle, pubq, dupq>> /\ held' = <<>>
         /\ \E h \in Frame :
              /\ Frames(held) = {h}
              /\ \/ /\ UNCHANGED retry /\ Frames(pending') = Frames(pending) \cup {h}
                    /\ IsInjective(Bodies(pending)) /\ h \notin Frames(pending) =>
                         IsInjective(Bodies(pending'))
                 \/ retry' = <<h>> \o retry /\ UNCHANGED pending
<1>1. held \in Seq(Entry) /\ held[1] \in Entry /\ DOMAIN held = {1} /\ pending \in Seq(Entry)
  BY HeldOne DEF PublishOk, PublishFail, TypeOK
<1> DEFINE h == held[1].frame
<1>2. Frames(held) = {h} /\ h \in Frame
  BY <1>1 DEF Frames, Entry
<1>3. CASE PublishOk
  <2>1. /\ pending' = Append(pending, held[1]) /\ held' = <<>>
        /\ UNCHANGED <<shuffle, pubq, retry, dupq>>
    BY <1>3 DEF PublishOk, custody
  <2>2. Frames(pending') = Frames(pending) \cup {h}
    BY <1>1, <2>1, FramesAppend
  <2>3. /\ Bodies(pending') = Append(Bodies(pending), h)
        /\ Bodies(pending) \in Seq(Frame) /\ Range(Bodies(pending)) = Frames(pending)
    BY <1>1, <2>1, BodiesAppend, BodiesOf
  <2> HIDE DEF h
  <2>4. IsInjective(Bodies(pending)) /\ h \notin Frames(pending) =>
          IsInjective(Bodies(pending'))
    <3> DEFINE b == Bodies(pending)
    <3>1. b \in Seq(Frame) /\ Range(b) = Frames(pending) /\ Bodies(pending') = Append(b, h)
      BY <2>3
    <3> HIDE DEF b
    <3>2. IsInjective(b) /\ h \notin Frames(pending) => IsInjective(Bodies(pending'))
      BY <1>2, <3>1, AppendFresh
    <3> QED BY <3>2 DEF b
  <2> QED BY <1>2, <2>1, <2>2, <2>4
<1>4. CASE PublishFail
  <2>1. /\ retry' = <<h>> \o retry /\ held' = <<>>
        /\ UNCHANGED <<shuffle, pubq, dupq, pending>>
    BY <1>4 DEF PublishFail
  <2> HIDE DEF h
  <2> QED BY <1>2, <2>1
<1> QED BY <1>3, <1>4

LEMMA OtherMoves ==
  ASSUME [Next]_vars
  PROVE  \/ Takes \/ Settles \/ PublishOk \/ PublishFail \/ \E p \in Pads : PullPad(p)
         \/ UNCHANGED <<shuffle, pubq, retry, dupq, held, pending>>
BY DEF Next, vars, Pump, Select, Supervise, Broker, Takes, Settles, Generate, Control,
       Receive, WindowFull, StartFill, NextRound, Tick, ProbeFail,
       ReapTimeout, EndSession, BackoffElapsed, Connected, ConnectFail, SetupOk, SetupFail,
       BrokerStore,
       BrokerNack, BrokerAck, BrokerLate, Arrives, Break, FailConfirms, genVars, custody

\* No frame stands in two of the six queues, or twice in one.
Places ==
  /\ IsInjective(shuffle) /\ IsInjective(pubq) /\ IsInjective(retry) /\ IsInjective(dupq)
  /\ IsInjective(Bodies(held)) /\ IsInjective(Bodies(pending))
  /\ Disjoint(Range(shuffle), Range(pubq), Range(retry), Range(dupq),
              Frames(held), Frames(pending))

LEMMA PlacesOf ==
  ASSUME NEW a \in Seq(Frame), NEW b \in Seq(Frame), NEW c \in Seq(Frame),
         NEW d \in Seq(Frame), NEW h \in Seq(Entry), NEW k \in Seq(Entry)
  PROVE  LET t == a \o b \o c \o d \o Bodies(h) \o Bodies(k)
         IN /\ t \in Seq(Frame)
            /\ IsInjective(t) <=>
                 /\ IsInjective(a) /\ IsInjective(b) /\ IsInjective(c) /\ IsInjective(d)
                 /\ IsInjective(Bodies(h)) /\ IsInjective(Bodies(k))
                 /\ Disjoint(Range(a), Range(b), Range(c), Range(d), Frames(h), Frames(k))
<1> DEFINE e == Bodies(h)
           f == Bodies(k)
           t2 == a \o b
           t3 == t2 \o c
           t4 == t3 \o d
           t5 == t4 \o e
<1>1. e \in Seq(Frame) /\ f \in Seq(Frame) /\ Range(e) = Frames(h) /\ Range(f) = Frames(k)
  BY BodiesOf
<1> HIDE DEF e, f
<1>2. /\ t2 \in Seq(Frame) /\ Range(t2) = Range(a) \cup Range(b)
      /\ IsInjective(t2) <=>
           IsInjective(a) /\ IsInjective(b) /\ Range(a) \cap Range(b) = {}
  BY ConcatRange, ConcatInjective
<1> HIDE DEF t2
<1>3. /\ t3 \in Seq(Frame) /\ Range(t3) = Range(t2) \cup Range(c)
      /\ IsInjective(t3) <=>
           IsInjective(t2) /\ IsInjective(c) /\ Range(t2) \cap Range(c) = {}
  BY <1>2, ConcatRange, ConcatInjective
<1> HIDE DEF t3
<1>4. /\ t4 \in Seq(Frame) /\ Range(t4) = Range(t3) \cup Range(d)
      /\ IsInjective(t4) <=>
           IsInjective(t3) /\ IsInjective(d) /\ Range(t3) \cap Range(d) = {}
  BY <1>3, ConcatRange, ConcatInjective
<1> HIDE DEF t4
<1>5. /\ t5 \in Seq(Frame) /\ Range(t5) = Range(t4) \cup Range(e)
      /\ IsInjective(t5) <=>
           IsInjective(t4) /\ IsInjective(e) /\ Range(t4) \cap Range(e) = {}
  BY <1>1, <1>4, ConcatRange, ConcatInjective
<1> HIDE DEF t5
<1>6. IsInjective(t5 \o f) <=>
        IsInjective(t5) /\ IsInjective(f) /\ Range(t5) \cap Range(f) = {}
  BY <1>1, <1>5, ConcatInjective
<1>7. IsInjective(t5 \o f) <=>
        /\ IsInjective(a) /\ IsInjective(b) /\ IsInjective(c)
        /\ IsInjective(d) /\ IsInjective(e) /\ IsInjective(f)
        /\ Disjoint(Range(a), Range(b), Range(c), Range(d), Range(e), Range(f))
  <2> DEFINE A == Range(a) B == Range(b) C == Range(c)
             D == Range(d) E == Range(e) F == Range(f)
  <2>1. /\ Range(t2) = A \cup B /\ Range(t3) = A \cup B \cup C
        /\ Range(t4) = A \cup B \cup C \cup D /\ Range(t5) = A \cup B \cup C \cup D \cup E
    BY <1>2, <1>3, <1>4, <1>5
  <2> HIDE DEF A, B, C, D, E, F
  <2>2. (/\ A \cap B = {} /\ (A \cup B) \cap C = {} /\ (A \cup B \cup C) \cap D = {}
         /\ (A \cup B \cup C \cup D) \cap E = {} /\ (A \cup B \cup C \cup D \cup E) \cap F = {})
        <=> Disjoint(A, B, C, D, E, F)
    BY DEF Disjoint
  <2>3. IsInjective(t5 \o f) <=>
          /\ IsInjective(a) /\ IsInjective(b) /\ IsInjective(c)
          /\ IsInjective(d) /\ IsInjective(e) /\ IsInjective(f)
          /\ A \cap B = {} /\ (A \cup B) \cap C = {} /\ (A \cup B \cup C) \cap D = {}
          /\ (A \cup B \cup C \cup D) \cap E = {} /\ (A \cup B \cup C \cup D \cup E) \cap F = {}
    BY <1>2, <1>3, <1>4, <1>5, <1>6, <2>1 DEF A, B, C, D, E, F
  <2> QED BY <2>2, <2>3 DEF A, B, C, D, E, F
<1>8. t5 \o f \in Seq(Frame)
  BY <1>1, <1>5, ConcatRange
<1> QED BY <1>1, <1>7, <1>8 DEF t2, t3, t4, t5, e, f

LEMMA EmptyQueues == Range(<<>>) = {} /\ IsInjective(<<>>)
BY DEF Range, IsInjective

\* Behind the buffers, a step other than a pull moves frames and adds none.
LEMMA StagedStep ==
  ASSUME TypeOK, PendingTracksInflight, StagingInv, Places, [Next]_vars,
         \A p \in Pads : ~PullPad(p)
  PROVE  Places' /\ Staged' \subseteq Staged
<1>0. /\ retry \in Seq(Frame) /\ dupq \in Seq(Frame)
      /\ Frames(<<>>) = {} /\ IsInjective(Bodies(<<>>))
      /\ Range(<<>>) = {} /\ IsInjective(<<>>)
  BY FramesHeld, BodiesOne, EmptyQueues DEF TypeOK
<1>1. CASE Takes
  <2>1. CASE UNCHANGED <<shuffle, pubq, retry, dupq, held, pending>>
    BY <2>1 DEF Places, Staged
  <2>2. CASE ~UNCHANGED <<shuffle, pubq, retry, dupq, held, pending>>
    <3>1. UNCHANGED pending
      BY <1>1, TakesMove
    <3>2. PICK h \in Frame :
            /\ Frames(held) = {} /\ Frames(held') = {h} /\ IsInjective(Bodies(held'))
            /\ \/ Pops(retry, retry', h) /\ UNCHANGED <<shuffle, pubq, dupq>>
               \/ Pops(dupq, dupq', h) /\ UNCHANGED <<shuffle, pubq, retry>>
               \/ Pops(pubq, pubq', h) /\ UNCHANGED <<shuffle, retry, dupq>>
               \/ /\ Pops(shuffle, pubq', h) /\ pubq = <<>> /\ shuffle' = <<>>
                  /\ UNCHANGED <<retry, dupq>>
      BY <1>1, <2>2, TakesMove
    <3>3. CASE Pops(retry, retry', h) /\ UNCHANGED <<shuffle, pubq, dupq>>
      BY <3>1, <3>2, <3>3 DEF Places, Staged, Disjoint, Pops
    <3>4. CASE Pops(dupq, dupq', h) /\ UNCHANGED <<shuffle, pubq, retry>>
      BY <3>1, <3>2, <3>4 DEF Places, Staged, Disjoint, Pops
    <3>5. CASE Pops(pubq, pubq', h) /\ UNCHANGED <<shuffle, retry, dupq>>
      BY <3>1, <3>2, <3>5 DEF Places, Staged, Disjoint, Pops
    <3>6. CASE /\ Pops(shuffle, pubq', h) /\ pubq = <<>> /\ shuffle' = <<>>
               /\ UNCHANGED <<retry, dupq>>
      <4>1. Range(pubq) = {} /\ Range(shuffle') = {} /\ IsInjective(shuffle')
        BY <1>0, <3>6
      <4> QED BY <3>1, <3>2, <3>6, <4>1 DEF Places, Staged, Disjoint, Pops
    <3> QED BY <3>2, <3>3, <3>4, <3>5, <3>6
  <2> QED BY <2>1, <2>2
<1>2. CASE Settles
  <2>1. UNCHANGED <<shuffle, pubq, held>>
    BY <1>2, SettlesMove
  <2>2. PICK h \in Frame :
          /\ Frames(pending) = {h} \cup Frames(pending')
          /\ IsInjective(Bodies(pending)) =>
               IsInjective(Bodies(pending')) /\ h \notin Frames(pending')
          /\ \/ UNCHANGED <<retry, dupq>>
             \/ retry' = Append(retry, h) /\ UNCHANGED dupq
             \/ dupq' = Append(dupq, h) /\ UNCHANGED retry
    BY <1>2, SettlesMove
  <2>3. IsInjective(Bodies(pending')) /\ h \notin Frames(pending')
    BY <2>2 DEF Places
  <2>4. h \notin Range(retry) /\ h \notin Range(dupq)
    BY <2>2 DEF Places, Disjoint
  <2>5. CASE UNCHANGED <<retry, dupq>>
    BY <2>1, <2>2, <2>3, <2>5 DEF Places, Staged, Disjoint
  <2>6. CASE retry' = Append(retry, h) /\ UNCHANGED dupq
    <3>1. Range(retry') = Range(retry) \cup {h}
      BY <1>0, <2>6, RangeAppend
    <3>2. IsInjective(retry')
      BY <1>0, <2>4, <2>6, AppendFresh DEF Places
    <3> QED BY <2>1, <2>2, <2>3, <2>6, <3>1, <3>2 DEF Places, Staged, Disjoint
  <2>7. CASE dupq' = Append(dupq, h) /\ UNCHANGED retry
    <3>1. Range(dupq') = Range(dupq) \cup {h}
      BY <1>0, <2>7, RangeAppend
    <3>2. IsInjective(dupq')
      BY <1>0, <2>4, <2>7, AppendFresh DEF Places
    <3> QED BY <2>1, <2>2, <2>3, <2>7, <3>1, <3>2 DEF Places, Staged, Disjoint
  <2> QED BY <2>2, <2>5, <2>6, <2>7
<1>3. CASE PublishOk \/ PublishFail
  <2>1. UNCHANGED <<shuffle, pubq, dupq>> /\ held' = <<>>
    BY <1>3, PublishMove
  <2>2. PICK h \in Frame :
          /\ Frames(held) = {h}
          /\ \/ /\ UNCHANGED retry /\ Frames(pending') = Frames(pending) \cup {h}
                /\ IsInjective(Bodies(pending)) /\ h \notin Frames(pending) =>
                     IsInjective(Bodies(pending'))
             \/ retry' = <<h>> \o retry /\ UNCHANGED pending
    BY <1>3, PublishMove
  <2>3. Frames(held') = {} /\ IsInjective(Bodies(held'))
    BY <1>0, <2>1
  <2>4. h \notin Frames(pending) /\ h \notin Range(retry)
    BY <2>2 DEF Places, Disjoint
  <2>5. CASE UNCHANGED retry /\ Frames(pending') = Frames(pending) \cup {h}
             /\ IsInjective(Bodies(pending'))
    BY <2>1, <2>2, <2>3, <2>5 DEF Places, Staged, Disjoint
  <2>6. CASE retry' = <<h>> \o retry /\ UNCHANGED pending
    <3>1. Range(retry') = Range(retry) \cup {h}
      BY <1>0, <2>6, RangeCons
    <3>2. IsInjective(retry')
      BY <1>0, <2>4, <2>6, ConsFresh DEF Places
    <3> QED BY <2>1, <2>2, <2>3, <2>6, <3>1, <3>2 DEF Places, Staged, Disjoint
  <2> QED BY <2>2, <2>4, <2>5, <2>6 DEF Places
<1>4. CASE UNCHANGED <<shuffle, pubq, retry, dupq, held, pending>>
  BY <1>4 DEF Places, Staged
<1> QED BY <1>1, <1>2, <1>3, <1>4, OtherMoves

-----------------------------------------------------------------------------
(* Order, and the exactness of the loss.  A frame leaves the buffers only   *)
(* from the front, so whatever has left them is older than what waits.      *)

LEMMA BeforeSmaller ==
  ASSUME NEW A, NEW B, Before(A, B), NEW C \in SUBSET A, NEW D \in SUBSET B
  PROVE  Before(C, D)
BY DEF Before

LEMMA BeforeBoth ==
  ASSUME NEW A, NEW B, NEW C, NEW D, Before(A, C), Before(A, D), Before(B, C), Before(B, D)
  PROVE  Before(A \cup B, C \cup D)
BY DEF Before

LEMMA NotBoth ==
  ASSUME NEW A, NEW B, Before(A, B), NEW f \in Frame
  PROVE  ~(f \in A /\ f \in B)
<1> SUFFICES ASSUME f \in A, f \in B PROVE FALSE
  OBVIOUS
<1>1. f.seq < f.seq /\ f.seq \in Nat
  BY DEF Before, Frame
<1> QED BY <1>1

LEMMA InOrderTail ==
  ASSUME NEW s \in Seq(Frame), s # <<>>, InOrder(s)
  PROVE  InOrder(Tail(s)) /\ Before({Head(s)}, Range(Tail(s)))
<1> DEFINE t == Tail(s)
<1>1. /\ t \in Seq(Frame) /\ Len(t) = Len(s) - 1 /\ Len(s) \in Nat \ {0} /\ Head(s) = s[1]
      /\ \A i \in 1 .. Len(t) : t[i] = s[i + 1]
      /\ DOMAIN s = 1 .. Len(s)
  BY HeadTailProperties, EmptySeq, LenProperties
<1> HIDE DEF t
<1>2. DOMAIN t = 1 .. Len(t) /\ Range(t) = {t[i] : i \in 1 .. Len(t)}
  BY <1>1, LenProperties, RangeEquality
<1>3. \A i \in 1 .. Len(t) : i + 1 \in DOMAIN s /\ 1 < i + 1 /\ 1 \in DOMAIN s
  BY <1>1
<1>4. ASSUME NEW i \in 1 .. Len(t), NEW j \in 1 .. Len(t), i < j, t[i].pad = t[j].pad
      PROVE  t[i].seq < t[j].seq
  <2>1. i + 1 < j + 1
    BY <1>4
  <2> QED BY <1>1, <1>3, <1>4, <2>1 DEF InOrder
<1>5. InOrder(t)
  BY <1>2, <1>4 DEF InOrder
<1>6. \A i \in 1 .. Len(t) : s[1].pad = t[i].pad => s[1].seq < t[i].seq
  BY <1>1, <1>3 DEF InOrder
<1>7. Before({Head(s)}, Range(t))
  BY <1>1, <1>2, <1>6 DEF Before
<1> QED BY <1>5, <1>7 DEF t

LEMMA InOrderAppend ==
  ASSUME NEW s \in Seq(Frame), NEW f \in Frame, InOrder(s), Before(Range(s), {f})
  PROVE  InOrder(Append(s, f))
<1> DEFINE t == Append(s, f)
           n == Len(s)
<1>1. /\ t \in Seq(Frame) /\ Len(t) = n + 1 /\ n \in Nat /\ t[n + 1] = f
      /\ \A i \in 1 .. n : t[i] = s[i]
      /\ DOMAIN s = 1 .. n /\ Range(s) = {s[i] : i \in 1 .. n}
  BY AppendProperties, LenProperties, RangeEquality
<1> HIDE DEF t, n
<1>2. DOMAIN t = 1 .. n + 1
  BY <1>1, LenProperties
<1>3. ASSUME NEW i \in 1 .. n + 1, NEW j \in 1 .. n + 1, i < j, t[i].pad = t[j].pad
      PROVE  t[i].seq < t[j].seq
  <2>1. i \in 1 .. n /\ t[i] = s[i] /\ s[i] \in Range(s)
    BY <1>1, <1>3
  <2>2. CASE j \in 1 .. n
    BY <1>1, <1>3, <2>1, <2>2 DEF InOrder
  <2>3. CASE j = n + 1
    BY <1>1, <1>3, <2>1, <2>3 DEF Before
  <2> QED BY <1>1, <2>2, <2>3
<1>4. InOrder(t)
  BY <1>2, <1>3 DEF InOrder
<1> QED BY <1>4 DEF t

\* The generated frames, by pad and number.
LEMMA GeneratedIs ==
  ASSUME TypeOK
  PROVE  /\ Generated \subseteq Frame
         /\ \A f \in Generated : f.pad \in Pads /\ f.seq \in 1 .. gen[f.pad]
         /\ \A f \in Frame : f.seq \in 1 .. gen[f.pad] => f \in Generated
<1>1. gen \in [Pads -> Nat]
  BY DEF TypeOK
<1>2. ASSUME NEW f \in Generated
      PROVE  f \in Frame /\ f.pad \in Pads /\ f.seq \in 1 .. gen[f.pad]
  <2>1. PICK p \in Pads : \E n \in 1 .. gen[p] : f = [pad |-> p, seq |-> n]
    BY DEF Generated
  <2>2. PICK n \in 1 .. gen[p] : f = [pad |-> p, seq |-> n]
    BY <2>1
  <2>3. gen[p] \in Nat /\ n \in Nat
    BY <1>1
  <2> QED BY <2>2, <2>3 DEF Frame
<1>3. ASSUME NEW f \in Frame, f.seq \in 1 .. gen[f.pad] PROVE f \in Generated
  <2>1. f = [pad |-> f.pad, seq |-> f.seq] /\ f.pad \in Pads
    BY DEF Frame
  <2> QED BY <1>3, <2>1 DEF Generated
<1> QED BY <1>2, <1>3

\* What a pull does: nothing, or it moves the oldest frame of the buffer on.
LEMMA PullMove ==
  ASSUME TypeOK, NEW p \in Pads, PullPad(p)
  PROVE  /\ UNCHANGED <<gen, rx, pubq, retry, dupq, held, pending, stored, late, dropped>>
         /\ \/ UNCHANGED <<buf, shuffle>>
            \/ /\ buf[p] \in Seq(Frame) /\ buf[p] # <<>>
               /\ buf' = [buf EXCEPT ![p] = Tail(buf[p])]
               /\ shuffle' = Append(shuffle, Head(buf[p]))
BY DEF PullPad, TypeOK, genVars, brokerVars

LEMMA GiveUpWire ==
  ASSUME TypeOK, PendingTracksInflight, NEW unread \in Seq(Frame),
         Range(unread) \subseteq Staged, GiveUp(unread)
  PROVE  OnWire' \subseteq OnWire \cup Staged
<1>1. PICK k \in 0 .. Len(inflight) :
        late' = late \cup
          {[i \in 1 .. Len(inflight) - k |-> inflight[k + i].frame] \o unread}
  BY DEF GiveUp
<1> DEFINE n == Len(inflight) - k
           s == [i \in 1 .. n |-> inflight[k + i].frame]
<1>2. /\ inflight \in Seq(Confirm) /\ Len(inflight) \in Nat /\ n \in Nat
      /\ \A i \in 1 .. n : k + i \in 1 .. Len(inflight)
  BY LenProperties DEF TypeOK
<1>3. \A i \in 1 .. n : inflight[k + i].frame \in Frames(pending)
  <2>1. DOMAIN pending = 1 .. Len(inflight)
    BY LenProperties DEF TypeOK, PendingTracksInflight
  <2> QED BY <1>2, <2>1 DEF PendingTracksInflight, Frames
<1>4. \A i \in 1 .. n : inflight[k + i].frame \in Frame
  <2>1. \A i \in 1 .. n : inflight[k + i] \in Confirm
    BY <1>2, ElementOfSeq
  <2> QED BY <2>1 DEF Confirm
<1>5. s \in [1 .. n -> Frame] /\ Range(s) \subseteq Frames(pending)
  BY <1>3, <1>4 DEF Range
<1>6. late' = late \cup {s \o unread}
  BY <1>1
<1> HIDE DEF s, n
<1>7. s \in Seq(Frame)
  BY <1>2, <1>5, SeqDef
<1>8. Range(s \o unread) = Range(s) \cup Range(unread)
  BY <1>7, ConcatRange
<1>9. OnWire' = OnWire \cup Range(s \o unread)
  BY <1>6 DEF OnWire
<1> QED BY <1>5, <1>8, <1>9 DEF Staged

\* What reaches the broker was in the edge, or on the wire.
LEMMA WireStep ==
  ASSUME TypeOK, PendingTracksInflight, [Next]_vars
  PROVE  OnWire' \subseteq OnWire \cup Staged /\ stored' \subseteq stored \cup Staged \cup OnWire
<1>1. CASE PublishFail
  <2>1. held \in Seq(Entry) /\ held[1] \in Entry /\ DOMAIN held = {1} /\ UNCHANGED stored
    BY <1>1, HeldOne DEF PublishFail
  <2>2. held[1].frame \in Frame /\ held[1].frame \in Staged
    BY <2>1 DEF Entry, Staged, Frames
  <2>3. <<held[1].frame>> \in Seq(Frame) /\ Range(<<held[1].frame>>) \subseteq Staged
    BY <2>2 DEF Range
  <2>4. CASE UNCHANGED late
    BY <2>1, <2>4 DEF OnWire
  <2>5. CASE GiveUp(<<held[1].frame>>)
    BY <2>1, <2>3, <2>5, GiveUpWire
  <2> QED BY <1>1, <2>4, <2>5 DEF PublishFail
<1>2. CASE ReapTimeout \/ FailConfirms
  <2>1. <<>> \in Seq(Frame) /\ Range(<<>>) \subseteq Staged /\ UNCHANGED stored
    BY <1>2, EmptySeq, EmptyQueues DEF ReapTimeout, FailConfirms
  <2>2. CASE UNCHANGED late
    BY <2>1, <2>2 DEF OnWire
  <2>3. CASE GiveUp(<<>>)
    BY <2>1, <2>3, GiveUpWire
  <2> QED BY <1>2, <2>2, <2>3 DEF ReapTimeout, FailConfirms
<1>3. CASE BrokerStore
  <2>1. PICK i \in DOMAIN inflight :
          stored' = stored \cup {inflight[i].frame} /\ UNCHANGED late
    BY <1>3 DEF BrokerStore
  <2>2. DOMAIN inflight = DOMAIN pending
    BY LenProperties DEF TypeOK, PendingTracksInflight
  <2>3. inflight[i].frame \in Staged
    BY <2>2 DEF PendingTracksInflight, Staged, Frames
  <2> QED BY <2>1, <2>3 DEF OnWire
<1>4. CASE BrokerLate
  <2>1. PICK w \in late \ {<<>>} :
          late' = (late \ {w}) \cup {Tail(w)} /\ stored' = stored \cup {Head(w)}
    BY <1>4 DEF BrokerLate, Arrives
  <2>2. w \in Seq(Frame) /\ Range(w) = {Head(w)} \cup Range(Tail(w))
    BY <2>1, RangeHeadTail DEF TypeOK
  <2>3. Range(w) \subseteq OnWire
    BY <2>1 DEF OnWire
  <2>4. OnWire' \subseteq OnWire
    <3>1. \A v \in late' : Range(v) \subseteq OnWire
      BY <2>1, <2>2, <2>3 DEF OnWire
    <3> QED BY <3>1 DEF OnWire
  <2> QED BY <2>1, <2>2, <2>3, <2>4
<1>5. CASE UNCHANGED <<stored, late>>
  BY <1>5 DEF OnWire
<1>6. \/ PublishFail \/ ReapTimeout \/ FailConfirms \/ BrokerStore \/ BrokerLate
      \/ UNCHANGED <<stored, late>>
  BY DEF Next, vars, Pump, Select, Supervise, Broker, Generate, Control, Receive,
         TakeRetry, TakeDup, TakeStaged, WindowFull, StartFill, PullPad, NextRound,
         FinishFill, PublishOk, ConfirmAck, ConfirmNack, ConfirmErr, Tick,
         ProbeFail, ReapConfirm, RequeueUnconfirmed, EndSession,
         BackoffElapsed, Connected, ConnectFail, SetupOk, SetupFail,
         BrokerNack, BrokerAck, Break, brokerVars
<1> QED BY <1>1, <1>2, <1>3, <1>4, <1>5, <1>6

LEMMA WhoMoves ==
  ASSUME [Next]_vars
  PROVE  \/ (\E p \in Pads : Generate(p)) \/ Receive \/ (\E p \in Pads : PullPad(p))
         \/ UNCHANGED <<gen, rx, buf, dropped>>
BY DEF Next, vars, Pump, Select, Supervise, Broker, Control, TakeRetry, TakeDup, TakeStaged,
       WindowFull, StartFill, NextRound, FinishFill, PublishOk, PublishFail, ConfirmAck,
       ConfirmNack, ConfirmErr, Tick, ProbeFail, ReapConfirm, ReapTimeout,
       RequeueUnconfirmed, EndSession, BackoffElapsed, Connected, ConnectFail, SetupOk, SetupFail,
       BrokerStore,
       BrokerNack, BrokerAck, BrokerLate, Arrives, Break, FailConfirms, genVars, custody

\* The front of a buffer is newer than what has left the buffers and older than
\* everything that waits.
LEMMA FrontOfBuffer ==
  ASSUME TypeOK, OrderInv, NEW p \in Pads, buf[p] # <<>>
  PROVE  /\ Head(buf[p]) \in Frame /\ Head(buf[p]).pad = p /\ Head(buf[p]) \in Buffered
         /\ Tail(buf[p]) \in Seq(Frame) /\ InOrder(Tail(buf[p]))
         /\ Range(buf[p]) = {Head(buf[p])} \cup Range(Tail(buf[p]))
         /\ Before({Head(buf[p])}, Range(Tail(buf[p])))
         /\ Before({Head(buf[p])}, Range(rx))
         /\ Head(buf[p]) \notin Left
<1> DEFINE s == buf[p]
<1>1. s \in Seq(Frame) /\ s # <<>> /\ InOrder(s) /\ Range(s) \subseteq Buffered
      /\ \A f \in Range(s) : f.pad = p
  BY SMTT(30) DEF TypeOK, OrderInv, Buffered
<1> HIDE DEF s
<1>2. /\ Head(s) \in Frame /\ Tail(s) \in Seq(Frame)
      /\ Range(s) = {Head(s)} \cup Range(Tail(s))
      /\ InOrder(Tail(s)) /\ Before({Head(s)}, Range(Tail(s)))
  BY <1>1, HeadTailProperties, RangeHeadTail, InOrderTail
<1>3. Head(s).pad = p /\ Head(s) \in Buffered
  BY <1>1, <1>2
<1>4. Before({Head(s)}, Range(rx))
  BY <1>3, BeforeSmaller DEF OrderInv
<1>5. Head(s) \notin Left
  BY <1>2, <1>3, NotBoth DEF OrderInv
<1> QED BY <1>2, <1>3, <1>4, <1>5 DEF s

\* What buffers become when one of them changes.
LEMMA BufferedWith ==
  ASSUME TypeOK, NEW p \in Pads, NEW s \in Seq(Frame), buf' = [buf EXCEPT ![p] = s]
  PROVE  /\ Range(s) \subseteq Buffered'
         /\ \A f \in Buffered' : f \in Range(s) \/ \E q \in Pads \ {p} : f \in Range(buf[q])
         /\ Buffered' \subseteq Buffered \cup Range(s)
<1>1. buf \in [Pads -> Seq(Frame)]
  BY DEF TypeOK
<1>2. \A q \in Pads : buf'[q] = IF q = p THEN s ELSE buf[q]
  BY <1>1
<1> QED BY <1>2 DEF Buffered

LEMMA PullOrder ==
  ASSUME TypeOK, OrderInv, LossInv, Places, NEW p \in Pads, PullPad(p)
  PROVE  OrderInv' /\ LossInv' /\ Places' /\ InEdge' \subseteq InEdge
<1>0. UNCHANGED <<gen, rx, pubq, retry, dupq, held, pending, stored, late, dropped>>
  BY PullMove
<1>1. CASE UNCHANGED <<buf, shuffle>>
  <2>1. /\ Staged' = Staged /\ Buffered' = Buffered /\ OnWire' = OnWire
        /\ Generated' = Generated /\ Left' = Left
    BY <1>0, <1>1 DEF Staged, Buffered, OnWire, Generated, Left, Released
  <2> QED BY <1>0, <1>1, <2>1 DEF OrderInv, LossInv, Places, InEdge
<1>2. CASE ~UNCHANGED <<buf, shuffle>>
  <2> DEFINE h == Head(buf[p])
             t == Tail(buf[p])
  <2>1. /\ buf[p] # <<>> /\ buf' = [buf EXCEPT ![p] = t] /\ shuffle' = Append(shuffle, h)
        /\ shuffle \in Seq(Frame)
    BY <1>2, PullMove DEF TypeOK
  <2>2. /\ h \in Frame /\ h.pad = p /\ h \in Buffered /\ t \in Seq(Frame) /\ InOrder(t)
        /\ Range(buf[p]) = {h} \cup Range(t) /\ Before({h}, Range(t))
        /\ Before({h}, Range(rx)) /\ h \notin Left
    BY <2>1, FrontOfBuffer
  <2> HIDE DEF h, t
  <2>3. /\ \A f \in Buffered' : f \in Range(t) \/ \E q \in Pads \ {p} : f \in Range(buf[q])
        /\ Buffered' \subseteq Buffered
    <3>1. /\ \A f \in Buffered' : f \in Range(t) \/ \E q \in Pads \ {p} : f \in Range(buf[q])
          /\ Buffered' \subseteq Buffered \cup Range(t)
      BY <2>1, <2>2, BufferedWith
    <3>2. Range(t) \subseteq Buffered
      BY <2>2 DEF Buffered
    <3> QED BY <3>1, <3>2
  <2>4. Range(shuffle') = Range(shuffle) \cup {h}
    BY <2>1, <2>2, RangeAppend
  <2>5. Staged' = Staged \cup {h} /\ OnWire' = OnWire /\ Left' = Left \cup {h}
        /\ Generated' = Generated
    BY <1>0, <2>4 DEF Staged, OnWire, Left, Released, Generated
  <2>6. InEdge' \subseteq InEdge
    BY <1>0, <2>2, <2>3, <2>5 DEF InEdge
  <2>7. Before({h}, Buffered')
    <3>1. \A f \in Buffered' : f.pad = p => f \in Range(t)
      BY <2>3 DEF OrderInv
    <3> QED BY <2>2, <3>1 DEF Before
  <2>8. OrderInv'
    <3>1. Before(Left', Buffered') /\ Before(Left', Range(rx')) /\ Before(Buffered', Range(rx'))
      BY <1>0, <2>2, <2>3, <2>5, <2>7 DEF OrderInv, Before
    <3>2. \A q \in Pads : buf'[q] = IF q = p THEN t ELSE buf[q]
      BY <2>1 DEF TypeOK
    <3>3. \A q \in Pads : InOrder(buf'[q]) /\ \A f \in Range(buf'[q]) : f.pad = q
      <4>1. \A f \in Range(t) : f.pad = p
        BY <2>2 DEF OrderInv
      <4> QED BY <2>2, <3>2, <4>1 DEF OrderInv
    <3>4. InEdge' \cup Left' \subseteq Generated'
      BY <2>2, <2>5, <2>6 DEF OrderInv, InEdge
    <3> QED BY <1>0, <3>1, <3>3, <3>4 DEF OrderInv
  <2>9. LossInv'
    BY <1>0, <2>2, <2>5 DEF LossInv, Left, Released
  <2>10. Places'
    <3>1. h \notin Staged
      BY <2>2 DEF Left, Released
    <3>2. IsInjective(shuffle')
      <4>1. h \notin Range(shuffle) /\ IsInjective(shuffle)
        BY <3>1 DEF Staged, Places
      <4> QED BY <2>1, <2>2, <4>1, AppendFresh
    <3> QED BY <1>0, <2>4, <3>1, <3>2 DEF Places, Disjoint, Staged
  <2> QED BY <2>6, <2>8, <2>9, <2>10
<1> QED BY <1>1, <1>2

LEMMA ReceiveOrder ==
  ASSUME TypeOK, OrderInv, LossInv, Places, Receive
  PROVE  OrderInv' /\ LossInv' /\ Places' /\ InEdge' \subseteq InEdge
<1> DEFINE f == Head(rx)
           p == f.pad
           t == Tail(buf[p])
           w == Tail(rx)
<1>1. /\ rx # <<>> /\ rx \in Seq(Frame) /\ rx' = w /\ BufferFrame(f)
      /\ UNCHANGED <<gen, shuffle, pubq, retry, dupq, held, pending, stored, late>>
  BY DEF Receive, TypeOK, brokerVars
<1>2. /\ f \in Frame /\ f \in Range(rx) /\ Range(rx) = {f} \cup Range(w) /\ w \in Seq(Frame)
      /\ InOrder(w) /\ Before({f}, Range(w))
  BY <1>1, HeadTailProperties, RangeHeadTail, InOrderTail DEF OrderInv
<1>3. /\ p \in Pads /\ buf \in [Pads -> Seq(Frame)] /\ buf[p] \in Seq(Frame)
      /\ Range(buf[p]) \subseteq Buffered
  BY <1>2 DEF Frame, TypeOK, Buffered
<1>4. Before(Buffered, {f}) /\ Before(Left, {f}) /\ Before(Buffered, Range(w))
      /\ Before(Left, Range(w))
  BY <1>2, BeforeSmaller DEF OrderInv
<1>5. /\ Staged' = Staged /\ OnWire' = OnWire /\ Generated' = Generated /\ Places'
  BY <1>1 DEF Staged, OnWire, Generated, Places
<1>6. f.pad = p
  OBVIOUS
<1>7. CASE Len(buf[p]) >= BufferCap
  <2> DEFINE h == Head(buf[p])
             s == Append(t, f)
  <2>1. buf' = [buf EXCEPT ![p] = s] /\ dropped' = dropped \cup {h}
    BY <1>1, <1>7 DEF BufferFrame
  <2>2. buf[p] # <<>>
    BY <1>3, <1>7, EmptySeq, BoundsAssumption
  <2>3. /\ h \in Frame /\ h.pad = p /\ h \in Buffered /\ t \in Seq(Frame) /\ InOrder(t)
        /\ Range(buf[p]) = {h} \cup Range(t) /\ Before({h}, Range(t))
        /\ Before({h}, Range(rx)) /\ h \notin Left
    BY <1>3, <2>2, FrontOfBuffer
  <2> HIDE DEF f, p, t, w, h
  <2>4. Range(t) \subseteq Buffered
    BY <1>3, <2>3
  <2>5. s \in Seq(Frame) /\ Range(s) = Range(t) \cup {f} /\ InOrder(s)
    <3>1. Before(Range(t), {f})
      BY <1>4, <2>4, BeforeSmaller
    <3> QED BY <1>2, <2>3, <3>1, AppendProperties, RangeAppend, InOrderAppend
  <2> HIDE DEF s
  <2>6. /\ \A g \in Buffered' : g \in Range(s) \/ \E q \in Pads \ {p} : g \in Range(buf[q])
        /\ Buffered' \subseteq Buffered \cup {f}
    BY <1>3, <2>1, <2>4, <2>5, BufferedWith
  <2>7. Left' = Left \cup {h}
    BY <1>1, <1>5, <2>1 DEF Left, Released
  <2>8. InEdge' \subseteq InEdge
    BY <1>1, <1>2, <1>5, <2>6 DEF InEdge
  <2>9. Before({h}, Buffered')
    <3>1. \A g \in Buffered' : g.pad = p => g \in Range(t) \cup {f}
      BY <2>5, <2>6 DEF OrderInv
    <3>2. Before({h}, {f})
      BY <1>2, <2>3, BeforeSmaller
    <3> QED BY <2>3, <3>1, <3>2 DEF Before
  <2>10. OrderInv'
    <3>1. Before(Buffered', Range(rx'))
      BY <1>1, <1>2, <1>4, <2>6 DEF Before
    <3>2. Before(Left', Range(rx'))
      BY <1>1, <1>2, <1>4, <2>3, <2>7 DEF Before
    <3>3. Before(Left', Buffered')
      <4>1. Before(Left, Buffered')
        BY <1>4, <2>6 DEF OrderInv, Before
      <4> QED BY <2>7, <2>9, <4>1 DEF Before
    <3>4. \A q \in Pads : buf'[q] = IF q = p THEN s ELSE buf[q]
      BY <1>3, <2>1
    <3>5. \A q \in Pads : InOrder(buf'[q]) /\ \A g \in Range(buf'[q]) : g.pad = q
      <4>1. \A g \in Range(s) : g.pad = p
        BY <1>3, <1>6, <2>3, <2>5 DEF OrderInv
      <4> QED BY <2>5, <3>4, <4>1 DEF OrderInv
    <3>6. InEdge' \cup Left' \subseteq Generated'
      BY <1>5, <2>3, <2>7, <2>8 DEF OrderInv, InEdge
    <3>7. InOrder(rx') /\ \A q \in Pads : gen'[q] <= MaxSeq
      BY <1>1, <1>2 DEF OrderInv
    <3> QED BY <3>1, <3>2, <3>3, <3>5, <3>6, <3>7 DEF OrderInv
  <2>11. LossInv'
    BY <1>1, <1>5, <2>1, <2>3 DEF LossInv, Left, Released
  <2> QED BY <1>5, <2>8, <2>10, <2>11
<1>8. CASE ~(Len(buf[p]) >= BufferCap)
  <2> DEFINE s == Append(buf[p], f)
  <2>1. buf' = [buf EXCEPT ![p] = s] /\ dropped' = dropped
    BY <1>1, <1>8 DEF BufferFrame
  <2> HIDE DEF f, p, t, w
  <2>2. s \in Seq(Frame) /\ Range(s) = Range(buf[p]) \cup {f} /\ InOrder(s)
    <3>1. Before(Range(buf[p]), {f}) /\ InOrder(buf[p])
      BY <1>3, <1>4, BeforeSmaller DEF OrderInv
    <3> QED BY <1>2, <1>3, <3>1, AppendProperties, RangeAppend, InOrderAppend
  <2> HIDE DEF s
  <2>3. Buffered' \subseteq Buffered \cup {f}
    BY <1>3, <2>1, <2>2, BufferedWith
  <2>4. Left' = Left
    BY <1>1, <1>5, <2>1 DEF Left, Released
  <2>5. InEdge' \subseteq InEdge
    BY <1>1, <1>2, <1>5, <2>3 DEF InEdge
  <2>6. OrderInv'
    <3>1. Before(Buffered', Range(rx'))
      BY <1>1, <1>2, <1>4, <2>3 DEF Before
    <3>2. Before(Left', Range(rx'))
      BY <1>1, <1>4, <2>4
    <3>3. Before(Left', Buffered')
      BY <1>4, <2>3, <2>4 DEF OrderInv, Before
    <3>4. \A q \in Pads : buf'[q] = IF q = p THEN s ELSE buf[q]
      BY <1>3, <2>1
    <3>5. \A q \in Pads : InOrder(buf'[q]) /\ \A g \in Range(buf'[q]) : g.pad = q
      <4>1. \A g \in Range(s) : g.pad = p
        BY <1>3, <1>6, <2>2 DEF OrderInv
      <4> QED BY <2>2, <3>4, <4>1 DEF OrderInv
    <3>6. InEdge' \cup Left' \subseteq Generated'
      BY <1>5, <2>4, <2>5 DEF OrderInv
    <3>7. InOrder(rx') /\ \A q \in Pads : gen'[q] <= MaxSeq
      BY <1>1, <1>2 DEF OrderInv
    <3> QED BY <3>1, <3>2, <3>3, <3>5, <3>6, <3>7 DEF OrderInv
  <2>7. LossInv'
    BY <1>1, <1>5, <2>1 DEF LossInv
  <2> QED BY <1>5, <2>5, <2>6, <2>7
<1> QED BY <1>7, <1>8

LEMMA GenerateOrder ==
  ASSUME TypeOK, OrderInv, LossInv, Places, NEW p \in Pads, Generate(p)
  PROVE  /\ OrderInv' /\ LossInv' /\ Places'
         /\ [pad |-> p, seq |-> gen[p] + 1] \notin InEdge \cup Left
         /\ InEdge' = InEdge \cup {[pad |-> p, seq |-> gen[p] + 1]}
<1> DEFINE f == [pad |-> p, seq |-> gen[p] + 1]
<1>1. /\ rx' = Append(rx, f) /\ gen' = [gen EXCEPT ![p] = gen[p] + 1] /\ gen[p] < MaxSeq
      /\ UNCHANGED <<buf, shuffle, pubq, retry, dupq, held, pending, stored, late, dropped>>
  BY DEF Generate, custody, brokerVars
<1>2. gen \in [Pads -> Nat] /\ rx \in Seq(Frame) /\ MaxSeq \in Nat
  BY BoundsAssumption DEF TypeOK
<1>3. f \in Frame /\ f.pad = p /\ f.seq = gen[p] + 1
  BY <1>2 DEF Frame
<1> HIDE DEF f
<1>4. /\ Staged' = Staged /\ OnWire' = OnWire /\ Buffered' = Buffered /\ Left' = Left
      /\ Places'
  BY <1>1 DEF Staged, OnWire, Buffered, Left, Released, Places
<1>5. Range(rx') = Range(rx) \cup {f}
  BY <1>1, <1>2, <1>3, RangeAppend
<1>6. Before(Generated, {f}) /\ f \notin Generated
  <2>1. ASSUME NEW g \in Generated, g.pad = p PROVE g.seq < f.seq
    BY <1>2, <1>3, <2>1, GeneratedIs
  <2>2. Before(Generated, {f})
    BY <1>3, <2>1 DEF Before
  <2> QED BY <1>3, <2>2, NotBoth
<1>7. Before(Buffered, {f}) /\ Before(Left, {f}) /\ Before(Range(rx), {f})
  BY <1>6, BeforeSmaller DEF OrderInv, InEdge
<1>8. InOrder(rx')
  BY <1>1, <1>2, <1>3, <1>7, InOrderAppend DEF OrderInv
<1>9. Generated \cup {f} \subseteq Generated'
  <2>1. \A g \in Generated : g \in Frame /\ g.pad \in Pads /\ g.seq \in 1 .. gen[g.pad]
    BY GeneratedIs
  <2>2. \A q \in Pads : gen'[q] = (IF q = p THEN gen[p] + 1 ELSE gen[q]) /\ gen[q] \in Nat
    BY <1>1, <1>2
  <2>3. ASSUME NEW g \in Frame, g \in Generated \cup {f} PROVE g \in Generated'
    <3>1. g.pad \in Pads /\ g = [pad |-> g.pad, seq |-> g.seq]
      BY DEF Frame
    <3>2. g.seq \in 1 .. gen'[g.pad]
      BY <1>3, <2>1, <2>2, <2>3
    <3> QED BY <3>1, <3>2 DEF Generated
  <2> QED BY <1>3, <2>1, <2>3
<1>10. OrderInv'
  <2>1. Before(Buffered', Range(rx')) /\ Before(Left', Range(rx')) /\ Before(Left', Buffered')
    BY <1>4, <1>5, <1>7 DEF OrderInv, Before
  <2>2. InEdge' \cup Left' \subseteq Generated'
    BY <1>4, <1>5, <1>9 DEF OrderInv, InEdge
  <2>3. \A q \in Pads : gen'[q] <= MaxSeq
    BY <1>1, <1>2 DEF OrderInv
  <2> QED BY <1>1, <1>8, <2>1, <2>2, <2>3 DEF OrderInv
<1>11. LossInv'
  BY <1>1, <1>4 DEF LossInv
<1>12. f \notin InEdge \cup Left /\ InEdge' = InEdge \cup {f}
  BY <1>4, <1>5, <1>6 DEF OrderInv, InEdge
<1> QED BY <1>4, <1>10, <1>11, <1>12 DEF f

LEMMA QuietOrder ==
  ASSUME TypeOK, PendingTracksInflight, StagingInv, OrderInv, LossInv, Places, [Next]_vars,
         \A p \in Pads : ~PullPad(p), UNCHANGED <<gen, rx, buf, dropped>>
  PROVE  OrderInv' /\ LossInv' /\ Places' /\ InEdge' \subseteq InEdge
<1>1. Places' /\ Staged' \subseteq Staged
  BY StagedStep
<1>2. OnWire' \subseteq OnWire \cup Staged /\ stored' \subseteq stored \cup Staged \cup OnWire
  BY WireStep
<1>3. Buffered' = Buffered /\ Generated' = Generated
  BY DEF Buffered, Generated
<1>4. Left' \subseteq Left /\ InEdge' \subseteq InEdge
  BY <1>1, <1>2, <1>3 DEF Left, Released, InEdge
<1>5. LossInv'
  BY <1>1, <1>2 DEF LossInv
<1>6. OrderInv'
  BY <1>3, <1>4 DEF OrderInv, Before
<1> QED BY <1>1, <1>4, <1>5, <1>6

\* A step keeps the order, the exactness of the loss and the single copies, and
\* only the generator adds a frame to the edge.
LEMMA OrderStep ==
  ASSUME TypeOK, PendingTracksInflight, StagingInv, OrderInv, LossInv, Places, [Next]_vars
  PROVE  /\ OrderInv' /\ LossInv' /\ Places'
         /\ InEdge' \subseteq InEdge \/ \E p \in Pads : Generate(p)
<1>1. CASE \E p \in Pads : Generate(p)
  BY <1>1, GenerateOrder
<1>2. CASE Receive
  BY <1>2, ReceiveOrder
<1>3. CASE \E p \in Pads : PullPad(p)
  BY <1>3, PullOrder
<1>4. CASE UNCHANGED <<gen, rx, buf, dropped>> /\ \A p \in Pads : ~PullPad(p)
  BY <1>4, QuietOrder
<1> QED BY <1>1, <1>2, <1>3, <1>4, WhoMoves

LEMMA MovingPlaces ==
  ASSUME TypeOK
  PROVE  Moving \in Seq(Frame) /\ Range(Moving) = Staged /\ (IsInjective(Moving) <=> Places)
<1>1. /\ shuffle \in Seq(Frame) /\ pubq \in Seq(Frame) /\ retry \in Seq(Frame)
      /\ dupq \in Seq(Frame) /\ held \in Seq(Entry) /\ pending \in Seq(Entry)
  BY DEF TypeOK
<1>2. Moving \in Seq(Frame)
  BY <1>1, PlacesOf, Zenon DEF Moving
<1>3. Range(Moving) = Range(shuffle) \cup Range(pubq) \cup Range(retry) \cup Range(dupq)
                       \cup Frames(held) \cup Frames(pending)
  <2> DEFINE e == Bodies(held)
             f == Bodies(pending)
             t2 == shuffle \o pubq
             t3 == t2 \o retry
             t4 == t3 \o dupq
             t5 == t4 \o e
  <2>1. e \in Seq(Frame) /\ f \in Seq(Frame)
        /\ Range(e) = Frames(held) /\ Range(f) = Frames(pending)
    BY <1>1, BodiesOf
  <2> HIDE DEF e, f
  <2>2. t2 \in Seq(Frame) /\ Range(t2) = Range(shuffle) \cup Range(pubq)
    BY <1>1, ConcatRange
  <2> HIDE DEF t2
  <2>3. t3 \in Seq(Frame) /\ Range(t3) = Range(t2) \cup Range(retry)
    BY <1>1, <2>2, ConcatRange
  <2> HIDE DEF t3
  <2>4. t4 \in Seq(Frame) /\ Range(t4) = Range(t3) \cup Range(dupq)
    BY <1>1, <2>3, ConcatRange
  <2> HIDE DEF t4
  <2>5. t5 \in Seq(Frame) /\ Range(t5) = Range(t4) \cup Range(e)
    BY <2>1, <2>4, ConcatRange
  <2> HIDE DEF t5
  <2>6. Range(t5 \o f) = Range(t5) \cup Range(f)
    BY <2>1, <2>5, ConcatRange
  <2>7. Range(t5 \o f) = Range(shuffle) \cup Range(pubq) \cup Range(retry) \cup Range(dupq)
                           \cup Frames(held) \cup Frames(pending)
    BY <2>1, <2>2, <2>3, <2>4, <2>5, <2>6
  <2> QED BY <2>7 DEF Moving, t2, t3, t4, t5, e, f
<1>4. IsInjective(Moving) <=> Places
  BY <1>1, PlacesOf, Zenon DEF Moving, Places
<1> QED BY <1>2, <1>3, <1>4 DEF Staged

LEMMA MovingPlacesNext ==
  ASSUME TypeOK'
  PROVE  IsInjective(Moving)' <=> Places'
<1>1. /\ shuffle' \in Seq(Frame) /\ pubq' \in Seq(Frame) /\ retry' \in Seq(Frame)
      /\ dupq' \in Seq(Frame) /\ held' \in Seq(Entry) /\ pending' \in Seq(Entry)
  BY DEF TypeOK
<1> QED BY <1>1, PlacesOf, Zenon DEF Moving, Places

LEMMA NothingYet ==
  ASSUME Init
  PROVE  /\ OrderInv /\ LossInv /\ Places
         /\ InEdge = {} /\ stored = {} /\ dropped = {}
<1>1. /\ gen = [p \in Pads |-> 0] /\ rx = <<>> /\ buf = [p \in Pads |-> <<>>]
      /\ shuffle = <<>> /\ pubq = <<>> /\ retry = <<>> /\ dupq = <<>>
      /\ held = <<>> /\ pending = <<>> /\ stored = {} /\ late = {} /\ dropped = {}
  BY DEF Init
<1>2. /\ Range(<<>>) = {} /\ IsInjective(<<>>) /\ Frames(<<>>) = {}
      /\ IsInjective(Bodies(<<>>))
  BY EmptyQueues, FramesHeld, BodiesOne
<1>3. Staged = {} /\ Buffered = {} /\ OnWire = {} /\ InEdge = {} /\ Left = {}
  BY <1>1, <1>2 DEF Staged, Buffered, OnWire, InEdge, Left, Released
<1>4. InOrder(<<>>)
  BY DEF InOrder
<1>5. \A p \in Pads : gen[p] = 0 /\ buf[p] = <<>>
  BY <1>1
<1>6. OrderInv
  BY <1>1, <1>2, <1>3, <1>4, <1>5, BoundsAssumption DEF OrderInv, Before
<1>7. LossInv /\ Places
  BY <1>1, <1>2, <1>3 DEF LossInv, Places, Disjoint
<1> QED BY <1>1, <1>3, <1>6, <1>7

\* The inductive invariant: every conjunct is kept by every step, and the
\* conjuncts are what each other's step needs.
THEOREM CustodySafe == Spec => []CustodyInv
<1>1. ASSUME Init PROVE CustodyInv
  <2>1. TypeOK
    BY <1>1, InitType
  <2>2. /\ gen = [p \in Pads |-> 0] /\ retry = <<>> /\ dupq = <<>> /\ held = <<>>
        /\ pending = <<>> /\ inflight = <<>> /\ phase = "connect"
    BY <1>1 DEF Init
  <2>3. PendingTracksInflight /\ StagingInv /\ DupsStored /\ AcksStored
    BY <2>2 DEF PendingTracksInflight, StagingInv, DupsStored, AcksStored, Range
  <2>4. NoSilentLoss
    BY <2>2 DEF NoSilentLoss, Generated
  <2>5. RetryBounded
    BY <2>2, BoundsAssumption DEF RetryBounded
  <2>6. OrderInv /\ LossInv /\ Places
    BY <1>1, NothingYet
  <2>7. IsInjective(Moving)
    BY <2>1, <2>6, MovingPlaces
  <2> QED BY <2>1, <2>3, <2>4, <2>5, <2>6, <2>7 DEF CustodyInv
<1>2. ASSUME CustodyInv, [Next]_vars PROVE CustodyInv'
  <2>0. /\ TypeOK /\ PendingTracksInflight /\ StagingInv /\ DupsStored /\ AcksStored
        /\ NoSilentLoss /\ RetryBounded /\ OrderInv /\ LossInv /\ Places
    BY <1>2, MovingPlaces DEF CustodyInv
  <2>1. TypeOK' /\ PendingTracksInflight'
    BY <1>2, <2>0, TypeStep
  <2>2. NoSilentLoss'
    BY <1>2, <2>0, NextKeeps, KeepsCustody
  <2>3. StagingInv' /\ DupsStored' /\ AcksStored' /\ RetryBounded'
    BY <1>2, <2>0, StagingStep, DupsStep, AcksStep, WindowStep
  <2>4. OrderInv' /\ LossInv' /\ Places'
    BY <1>2, <2>0, OrderStep
  <2>5. IsInjective(Moving)'
    BY <2>1, <2>4, MovingPlacesNext
  <2> QED BY <2>1, <2>2, <2>3, <2>4, <2>5 DEF CustodyInv
<1> QED BY <1>1, <1>2, PTL DEF Spec

\* A frame is never lost silently: the header of uplink.rs promises custody
\* until the confirm, and nothing a session does between taking a frame and
\* settling it breaks the promise.
THEOREM NeverLosesSilently == Spec => []NoSilentLoss
<1>1. CustodyInv => NoSilentLoss
  BY DEF CustodyInv
<1> QED BY <1>1, CustodySafe, PTL

\* What waits for retransmission or for its confirm fits one confirm window,
\* after any number of failed sessions.
THEOREM RetransmissionBounded == Spec => []RetryBounded
<1>1. CustodyInv => RetryBounded
  BY DEF CustodyInv
<1> QED BY <1>1, CustodySafe, PTL

\* "Drain preserves seq order": neither outages nor overflow, reordering or
\* retransmission let a buffered frame be overtaken by a newer one of its pad.
THEOREM DrainsInOrder == Spec => []DrainInSeqOrder
<1>1. OrderInv => DrainInSeqOrder
  BY BeforeSmaller DEF OrderInv, DrainInSeqOrder, Left
<1>2. CustodyInv => OrderInv
  BY DEF CustodyInv
<1> QED BY <1>1, <1>2, CustodySafe, PTL

\* buffer_dropped is the exact loss: the frame that overflow takes from the
\* front of a buffer is nowhere else, and never comes back.
THEOREM LossIsExact == Spec => []ExactLoss
<1>1. CustodyInv => ExactLoss
  <2> SUFFICES ASSUME CustodyInv PROVE ExactLoss
    OBVIOUS
  <2>1. TypeOK /\ OrderInv /\ LossInv
    BY DEF CustodyInv
  <2>2. ASSUME NEW f \in dropped PROVE f \notin Buffered /\ f \notin Range(rx)
    <3>1. f \in Left /\ f \in Frame
      BY <2>1 DEF Left, Released, TypeOK
    <3> QED BY <2>1, <3>1, NotBoth DEF OrderInv
  <2> QED BY <2>1, <2>2 DEF ExactLoss, LossInv, InEdge
<1> QED BY <1>1, CustodySafe, PTL

LEMMA InOrderFresh ==
  ASSUME NEW s \in Seq(Frame), InOrder(s)
  PROVE  IsInjective(s)
<1>1. DOMAIN s = 1 .. Len(s) /\ Len(s) \in Nat /\ \A i \in 1 .. Len(s) : s[i] \in Frame
  BY LenProperties, ElementOfSeq
<1>2. ASSUME NEW i \in DOMAIN s, NEW j \in DOMAIN s, s[i] = s[j], i < j PROVE FALSE
  <2>1. s[i].seq < s[i].seq /\ s[i].seq \in Nat
    BY <1>1, <1>2 DEF InOrder, Frame
  <2> QED BY <2>1
<1>3. \A i, j \in DOMAIN s : s[i] = s[j] => i = j
  BY <1>1, <1>2
<1> QED BY <1>3 DEF IsInjective

\* The edge never holds two copies of a frame, wherever it keeps them.
THEOREM OneCopy == Spec => []SingleCustody
<1>1. CustodyInv => SingleCustody
  <2> SUFFICES ASSUME CustodyInv PROVE SingleCustody
    OBVIOUS
  <2>1. TypeOK /\ OrderInv /\ IsInjective(Moving)
    BY DEF CustodyInv
  <2>2. Moving \in Seq(Frame) /\ Range(Moving) = Staged
    BY <2>1, MovingPlaces
  <2>3. rx \in Seq(Frame) /\ IsInjective(rx) /\ buf \in [Pads -> Seq(Frame)]
    BY <2>1, InOrderFresh DEF TypeOK, OrderInv
  <2>4. Range(rx) \subseteq Frame /\ Buffered \subseteq Frame
    BY <2>3, RangeEquality, ElementOfSeq DEF Buffered
  <2>5. /\ Buffered \cap Range(rx) = {}
        /\ Staged \cap Buffered = {} /\ Staged \cap Range(rx) = {}
    <3>1. \A f \in Frame : ~(f \in Buffered /\ f \in Range(rx))
      BY <2>1, NotBoth DEF OrderInv
    <3>2. \A f \in Frame : ~(f \in Left /\ f \in Buffered) /\ ~(f \in Left /\ f \in Range(rx))
      BY <2>1, NotBoth DEF OrderInv
    <3> QED BY <2>4, <3>1, <3>2 DEF Left, Released
  <2>6. ASSUME NEW p \in Pads PROVE IsInjective(buf[p] \o rx \o Moving)
    <3> DEFINE b == buf[p]
               m == Moving
    <3>1. b \in Seq(Frame) /\ InOrder(b) /\ Range(b) \subseteq Buffered
      BY <2>1, <2>3 DEF OrderInv, Buffered
    <3>2. m \in Seq(Frame) /\ IsInjective(m) /\ Range(m) = Staged
      BY <2>1, <2>2
    <3> HIDE DEF b, m
    <3>3. IsInjective(b)
      BY <3>1, InOrderFresh
    <3> DEFINE c == b \o rx
    <3>4. c \in Seq(Frame) /\ Range(c) = Range(b) \cup Range(rx) /\ IsInjective(c)
      BY <2>3, <2>5, <3>1, <3>3, ConcatRange, ConcatInjective
    <3> HIDE DEF c
    <3>5. IsInjective(c \o m)
      BY <2>5, <3>1, <3>2, <3>4, ConcatInjective
    <3> QED BY <3>5 DEF b, c, m
  <2>7. \A p, q \in Pads : p # q => Range(buf[p]) \cap Range(buf[q]) = {}
    BY <2>1 DEF OrderInv
  <2> QED BY <2>6, <2>7 DEF SingleCustody
<1> QED BY <1>1, CustodySafe, PTL
-----------------------------------------------------------------------------
(* The uplink as a hop.                                                     *)

\* A step outside the generator takes from what is owed exactly what it
\* stores or drops.
LEMMA OwedStep ==
  ASSUME CustodyInv, [Next]_vars, ~\E p \in Pads : Generate(p)
  PROVE  /\ stored \subseteq stored' /\ dropped \subseteq dropped'
         /\ InEdge' \ (stored' \cup dropped') =
              (InEdge \ (stored \cup dropped)) \ (stored' \cup dropped')
<1>1. /\ TypeOK /\ PendingTracksInflight /\ StagingInv /\ DupsStored /\ AcksStored
      /\ OrderInv /\ LossInv /\ Places
  BY MovingPlaces DEF CustodyInv
<1>2. InEdge' \subseteq InEdge
  BY <1>1, OrderStep
<1>3. Keeps
  BY <1>1, NextKeeps
<1> QED BY <1>2, <1>3 DEF Keeps

LEMMA Drops ==
  ASSUME TypeOK, OrderInv, Receive
  PROVE  /\ UNCHANGED stored
         /\ \/ UNCHANGED dropped
            \/ \E h \in InEdge \ Left : dropped' = dropped \cup {h}
<1> DEFINE p == Head(rx).pad
<1>1. Head(rx) \in Frame /\ p \in Pads /\ BufferFrame(Head(rx)) /\ UNCHANGED stored
  <2>1. rx \in Seq(Frame) /\ rx # <<>> /\ BufferFrame(Head(rx)) /\ UNCHANGED stored
    BY DEF Receive, TypeOK, brokerVars
  <2>2. Head(rx) \in Frame
    BY <2>1, HeadTailProperties
  <2> QED BY <2>1, <2>2 DEF Frame
<1>2. CASE Len(buf[p]) >= BufferCap
  <2>1. buf[p] \in Seq(Frame) /\ buf[p] # <<>>
    BY <1>1, <1>2, EmptySeq, BoundsAssumption DEF TypeOK
  <2>2. Head(buf[p]) \in Buffered /\ Head(buf[p]) \notin Left
    BY <1>1, <2>1, FrontOfBuffer
  <2>3. dropped' = dropped \cup {Head(buf[p])}
    BY <1>1, <1>2 DEF BufferFrame
  <2> QED BY <1>1, <2>2, <2>3 DEF InEdge
<1>3. CASE ~(Len(buf[p]) >= BufferCap)
  BY <1>1, <1>3 DEF BufferFrame
<1> QED BY <1>2, <1>3

LEMMA HopStep ==
  ASSUME CustodyInv, [Next]_vars
  PROVE  [Hop!Next]_(Hop!vars)
<1> DEFINE O == InEdge \ (stored \cup dropped)
<1>1. /\ TypeOK /\ PendingTracksInflight /\ StagingInv /\ NoSilentLoss
      /\ OrderInv /\ LossInv /\ Places
  BY MovingPlaces DEF CustodyInv
<1>2. CASE \E p \in Pads : Generate(p)
  <2>1. PICK p \in Pads : Generate(p)
    BY <1>2
  <2> DEFINE f == [pad |-> p, seq |-> gen[p] + 1]
  <2>2. f \notin InEdge \cup Left /\ InEdge' = InEdge \cup {f}
    BY <1>1, <2>1, GenerateOrder
  <2>3. UNCHANGED <<stored, dropped>> /\ gen[p] < MaxSeq /\ gen[p] \in Nat
        /\ MaxSeq \in Nat
    BY <1>1, <2>1, BoundsAssumption DEF Generate, brokerVars, TypeOK
  <2>4. f \in [pad : Pads, seq : 1 .. MaxSeq]
    <3>1. gen[p] + 1 \in 1 .. MaxSeq
      BY <2>3
    <3> QED BY <3>1
  <2> HIDE DEF f
  <2>5. f \notin O \cup stored \cup dropped /\ O' = O \cup {f}
    BY <2>2, <2>3 DEF Left, Released
  <2>6. Hop!Accept(f)
    BY <2>3, <2>5 DEF Hop!Accept
  <2> QED BY <2>4, <2>6 DEF Hop!Next
<1>3. CASE ~\E p \in Pads : Generate(p)
  <2>1. /\ stored \subseteq stored' /\ dropped \subseteq dropped'
        /\ O' = O \ (stored' \cup dropped')
    BY <1>3, OwedStep
  <2>2. CASE UNCHANGED dropped
    <3> DEFINE batch == stored' \ stored
    <3>1. batch \subseteq O
      <4> SUFFICES ASSUME NEW f \in stored', f \notin stored PROVE f \in O
        OBVIOUS
      <4>1. f \in Staged \cup OnWire
        BY <1>1, WireStep
      <4>2. f \notin dropped /\ f \in Generated
        BY <1>1, <4>1 DEF LossInv, OrderInv, InEdge, Left
      <4> QED BY <1>1, <4>2 DEF NoSilentLoss
    <3>2. stored' = stored \cup batch /\ O' = O \ batch
      BY <2>1, <2>2
    <3> HIDE DEF batch
    <3>3. Hop!Land(batch)
      BY <2>2, <3>2 DEF Hop!Land
    <3> QED BY <3>1, <3>3 DEF Hop!Next
  <2>3. CASE ~UNCHANGED dropped
    <3>1. Receive
      BY <1>3, <2>3, WhoMoves, PullMove, <1>1
    <3>2. PICK h \in InEdge \ Left : dropped' = dropped \cup {h}
      BY <1>1, <2>3, <3>1, Drops
    <3>3. UNCHANGED stored
      BY <1>1, <3>1, Drops
    <3>4. h \in O /\ O' = O \ {h}
      BY <2>1, <3>2, <3>3 DEF Left, Released
    <3>5. Hop!Count(h)
      BY <3>2, <3>3, <3>4 DEF Hop!Count
    <3> QED BY <3>4, <3>5 DEF Hop!Next
  <2> QED BY <2>2, <2>3
<1> QED BY <1>2, <1>3

\* The classic publisher is an at-least-once hop: what it has generated it
\* owes, until the broker has it or the drop counter says it is lost.
THEOREM UplinkIsHop == Spec => ImplementsHop
<1>1. Init => Hop!Init
  BY NothingYet DEF Hop!Init
<1>2. CustodyInv /\ [Next]_vars => [Hop!Next]_(Hop!vars)
  BY HopStep
<1> QED BY <1>1, <1>2, CustodySafe, PTL DEF Spec, ImplementsHop, Hop!Spec
=============================================================================
