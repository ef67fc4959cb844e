------------------------- MODULE IngestStream_proofs -------------------------
(***************************************************************************)
(* The stream consumer explains every hole, wherever it starts; and when   *)
(* it starts from the first record its stored offset never runs ahead of   *)
(* the data.  For every size of batch, every stream and every schedule of  *)
(* failures.                                                               *)
(***************************************************************************)
EXTENDS IngestStream, Lemmas

\* The locals of a session: nothing is read before it reaches the client, a
\* batch that is not empty has an offset, and what is accounted is stored.
ReadInv ==
  /\ lastOffset <= sent /\ (lastOffset < sent => sent <= Len(log))
  /\ batch # <<>> => lastOffset \in 1 .. Len(log)
  /\ phase \in {"down", "start"} => batch = <<>>
  /\ phase = "account" => Range(batch) \subseteq rows

\* What the accounting knows of its generation has landed, or is older than
\* the process.
HistoryInv == History(well, floor, rows)
StreamInv  == TypeOK /\ ReadInv /\ HistoryInv

\* What is read and not yet stored is in the batch; and a transaction in doubt,
\* whenever it is decided, brings all that its offset passes.
CoverInv ==
  /\ sent <= Len(log)
  /\ phase \in {"loop", "commit", "account"} =>
       FramesAt(1 .. lastOffset) \subseteq rows \cup Range(batch)
StoredInv ==
  /\ committed <= Len(log) /\ OffsetNeverAhead
  /\ doubt # <<>> => FramesAt(1 .. doubt[1].offset) \subseteq rows \cup doubt[1].frames
OffsetInv == StreamInv /\ CoverInv /\ StoredInv

-----------------------------------------------------------------------------
(* The log and the batch.                                                   *)

LEMMA BatchRange ==
  ASSUME TypeOK
  PROVE  Range(batch) \subseteq Frames
<1>1. Range(batch) = {batch[i] : i \in 1 .. Len(batch)}
  BY RangeEquality DEF TypeOK
<1> QED BY <1>1, ElementOfSeq DEF TypeOK

\* Appending to the stream changes nothing that has been read.
LEMMA AppendKeeps ==
  ASSUME TypeOK, NEW i \in Items, log' = Append(log, i), NEW o \in 0 .. Len(log)
  PROVE  /\ log' \in Seq(Items) /\ Len(log') = Len(log) + 1
         /\ {log'[k] : k \in (1 .. o) \cap DOMAIN log'} \ Poison = FramesAt(1 .. o)
<1>1. /\ log' \in Seq(Items) /\ Len(log') = Len(log) + 1 /\ Len(log) \in Nat
      /\ \A k \in 1 .. Len(log) : log'[k] = log[k]
  BY AppendProperties, LenProperties DEF TypeOK
<1>2. (1 .. o) \cap DOMAIN log' = (1 .. o) \cap DOMAIN log
  BY <1>1 DEF TypeOK
<1>3. \A k \in (1 .. o) \cap DOMAIN log : log'[k] = log[k]
  BY <1>1 DEF TypeOK
<1> QED BY <1>1, <1>2, <1>3 DEF FramesAt

\* One record further, one frame more or none.
LEMMA NextRecord ==
  ASSUME TypeOK, NEW o \in Nat, o + 1 \in 1 .. Len(log)
  PROVE  /\ log[o + 1] \in Items
         /\ log[o + 1] \in Poison => FramesAt(1 .. o + 1) = FramesAt(1 .. o)
         /\ FramesAt(1 .. o + 1) \subseteq FramesAt(1 .. o) \cup {log[o + 1]}
<1>1. DOMAIN log = 1 .. Len(log) /\ log[o + 1] \in Items
  BY DEF TypeOK
<1>2. (1 .. o + 1) \cap DOMAIN log = ((1 .. o) \cap DOMAIN log) \cup {o + 1}
  BY <1>1
<1> QED BY <1>1, <1>2 DEF FramesAt

LEMMA FrameFields ==
  ASSUME NEW f \in Frames
  PROVE  f.epoch \in Nat /\ f.seq \in Nat \ {0} /\ f = [epoch |-> f.epoch, seq |-> f.seq]
BY StreamAssumption DEF Frames

LEMMA NoFrames == FramesAt(1 .. 0) = {}
  BY DEF FramesAt

-----------------------------------------------------------------------------
(* The session and its accounting.                                          *)

\* The accounting is not touched and nothing leaves the database.
LEMMA HistoryKept ==
  ASSUME HistoryInv, UNCHANGED gapVars, rows \subseteq rows'
  PROVE  HistoryInv'
BY DEF HistoryInv, History, gapVars

\* A session that ends leaves its locals empty.
LEMMA EndReads ==
  ASSUME TypeOK, EndSession, UNCHANGED log
  PROVE  /\ ReadInv' /\ conn' = "none" /\ phase' = "down"
         /\ sent' \in Nat /\ lastOffset' \in Nat /\ batch' \in Seq(Frames) /\ batch' = <<>>
         /\ done' \in 0 .. Len(batch')
<1>1. Len(<<>>) = 0 /\ Len(log) \in Nat /\ <<>> \in Seq(Frames)
  BY EmptySeq DEF TypeOK
<1> QED BY <1>1 DEF EndSession, ReadInv

LEMMA InitStream == Init => StreamInv
<1> SUFFICES ASSUME Init PROVE StreamInv
  OBVIOUS
<1>1. History(NoWell, 0, rows)
  BY NoHistory
<1>2. HistoryInv /\ well \in Well
  BY <1>1, HistoryType DEF Init, HistoryInv
<1> QED BY <1>2 DEF Init, StreamInv, TypeOK, ReadInv

LEMMA BrokerStream ==
  ASSUME StreamInv, (\E i \in Items : Publish(i)) \/ Deliver \/ Break
  PROVE  StreamInv'
<1>1. UNCHANGED <<phase, lastOffset, batch, done, gapVars, dbVars>>
  BY DEF Publish, Deliver, Break, sessionVars
<1>2. HistoryInv'
  BY <1>1, HistoryKept DEF StreamInv, dbVars
<1>3. CASE \E i \in Items : Publish(i)
  <2>1. PICK i \in Items : log' = Append(log, i) /\ UNCHANGED <<conn, sessionVars>>
    BY <1>3 DEF Publish
  <2>2. log' \in Seq(Items) /\ Len(log') = Len(log) + 1 /\ Len(log) \in Nat
    BY <2>1, AppendProperties, LenProperties DEF StreamInv, TypeOK
  <2>3. doubt # <<>> => doubt[1] \in [frames : SUBSET Frames, offset : 1 .. Len(log')]
    <3>1. 1 .. Len(log) \subseteq 1 .. Len(log')
      BY <2>2
    <3> QED BY <3>1 DEF StreamInv, TypeOK
  <2>4. TypeOK'
    BY <1>1, <2>1, <2>2, <2>3 DEF StreamInv, TypeOK, sessionVars, gapVars, dbVars
  <2>5. ReadInv'
    BY <1>1, <2>1, <2>2 DEF StreamInv, TypeOK, ReadInv, sessionVars, dbVars
  <2> QED BY <1>2, <2>4, <2>5 DEF StreamInv
<1>4. CASE Deliver
  BY <1>1, <1>2, <1>4 DEF Deliver, StreamInv, TypeOK, ReadInv, gapVars, dbVars
<1>5. CASE Break
  BY <1>1, <1>2, <1>5 DEF Break, StreamInv, TypeOK, ReadInv, sessionVars, gapVars, dbVars
<1> QED BY <1>3, <1>4, <1>5

LEMMA StartStream ==
  ASSUME StreamInv, StartSession
  PROVE  StreamInv'
<1>1. /\ phase = "down" /\ phase' = "start" /\ conn' = "up"
      /\ UNCHANGED <<log, sessionVars, dbVars>>
  BY DEF StartSession
<1>2. HistoryInv' /\ well' \in Well /\ floor' \in Nat
  <2>1. CASE rows = {} \/ Known(well)
    BY <1>1, <2>1, HistoryKept DEF StartSession, StreamInv, TypeOK, gapVars, dbVars
  <2>2. CASE ~(rows = {} \/ Known(well))
    <3>1. PICK f \in rows : well' = SeedWell(well, f.epoch, f.seq) /\ floor' = f.seq
      BY <2>2 DEF StartSession
    <3>2. f.epoch \in Nat /\ f.seq \in Nat
      BY FrameFields DEF StreamInv, TypeOK
    <3>3. well' = NewWell(f.epoch, f.seq + 1)
      BY <2>2, <3>1 DEF SeedWell
    <3>4. History(NewWell(f.epoch, f.seq + 1), f.seq, rows')
      BY <3>2, SeededHistory
    <3>5. History(well', floor', rows')
      BY <3>1, <3>3, <3>4
    <3> QED BY <3>1, <3>2, <3>5, HistoryType DEF HistoryInv
  <2> QED BY <2>1, <2>2
<1> QED BY <1>1, <1>2 DEF StreamInv, TypeOK, ReadInv, sessionVars, dbVars

LEMMA PositionStream ==
  ASSUME StreamInv, Position
  PROVE  StreamInv'
<1>1. /\ phase = "start" /\ phase' = "loop" /\ sent' = Start - 1 /\ lastOffset' = Start - 1
      /\ UNCHANGED <<log, conn, batch, done, gapVars, dbVars>>
  BY DEF Position
<1>2. Start - 1 \in Nat
  BY StreamAssumption DEF Start, StreamInv, TypeOK
<1>3. HistoryInv'
  BY <1>1, HistoryKept DEF StreamInv, dbVars
<1> QED BY <1>1, <1>2, <1>3 DEF StreamInv, TypeOK, ReadInv, gapVars, dbVars

LEMMA ReadStream ==
  ASSUME StreamInv, Read
  PROVE  StreamInv'
<1> DEFINE o == lastOffset + 1
<1>1. /\ lastOffset' = o /\ lastOffset \in Nat /\ o \in 1 .. Len(log) /\ o <= sent
      /\ phase = "loop" /\ phase' = (IF Len(batch') >= BatchMax THEN "commit" ELSE "loop")
      /\ sent \in Nat /\ sent <= Len(log)
      /\ batch' = IF log[o] \in Poison THEN batch ELSE Append(batch, log[o])
      /\ UNCHANGED <<log, conn, sent, done, gapVars, dbVars>>
  BY DEF Read, StreamInv, TypeOK, ReadInv
<1>2. log[o] \in Items
  BY <1>1, NextRecord DEF StreamInv
<1> HIDE DEF o
<1>3. batch' \in Seq(Frames) /\ Len(batch') \in Nat /\ Len(batch) <= Len(batch')
  <2>1. CASE log[o] \in Poison
    BY <1>1, <2>1 DEF StreamInv, TypeOK
  <2>2. CASE log[o] \notin Poison
    <3>1. log[o] \in Frames /\ batch' = Append(batch, log[o])
      BY <1>1, <1>2, <2>2 DEF Items
    <3>2. batch' \in Seq(Frames) /\ Len(batch') = Len(batch) + 1 /\ Len(batch) \in Nat
      BY <3>1, AppendProperties, LenProperties DEF StreamInv, TypeOK
    <3> QED BY <3>2
  <2> QED BY <2>1, <2>2
<1>4. phase' \in {"loop", "commit"} /\ (phase' = "commit" => batch' # <<>>)
  BY <1>1, <1>3, StreamAssumption
<1>5. TypeOK'
  BY <1>1, <1>3, <1>4 DEF StreamInv, TypeOK, gapVars, dbVars
<1>6. ReadInv'
  BY <1>1, <1>4 DEF ReadInv
<1>7. HistoryInv'
  BY <1>1, HistoryKept DEF StreamInv, dbVars
<1> QED BY <1>5, <1>6, <1>7 DEF StreamInv

LEMMA TurnStream ==
  ASSUME StreamInv, FlushTick \/ SessionLost
  PROVE  StreamInv'
<1>1. UNCHANGED <<log, gapVars, dbVars>>
  BY DEF FlushTick, SessionLost
<1>2. HistoryInv'
  BY <1>1, HistoryKept DEF StreamInv, dbVars
<1>3. CASE FlushTick
  BY <1>1, <1>2, <1>3
     DEF FlushTick, StreamInv, TypeOK, ReadInv, sessionVars, gapVars, dbVars
<1>4. CASE SessionLost
  <2>1. EndSession
    BY <1>4 DEF SessionLost
  <2>2. TypeOK'
    BY <1>1, <2>1, EndReads DEF StreamInv, TypeOK, gapVars, dbVars
  <2> QED BY <1>1, <1>2, <2>1, <2>2, EndReads DEF StreamInv
<1> QED BY <1>3, <1>4

\* The batch has an offset, so a transaction in doubt has one too.
LEMMA DoubtType ==
  ASSUME StreamInv, phase = "commit", InDoubt
  PROVE  doubt' = <<>> \/ /\ doubt' = <<doubt'[1]>>
                          /\ doubt'[1] \in [frames : SUBSET Frames, offset : 1 .. Len(log)]
<1>1. lastOffset \in 1 .. Len(log) /\ Range(batch) \in SUBSET Frames
  BY BatchRange DEF StreamInv, TypeOK, ReadInv
<1>2. CASE UNCHANGED doubt
  BY <1>2 DEF StreamInv, TypeOK
<1>3. CASE doubt' = <<[frames |-> Range(batch), offset |-> lastOffset]>>
  BY <1>1, <1>3
<1> QED BY <1>2, <1>3 DEF InDoubt, OffsetCommitted

LEMMA FailStream ==
  ASSUME StreamInv, CommitFails \/ Crash
  PROVE  StreamInv'
<1>1. /\ EndSession /\ UNCHANGED <<log, rows, committed>>
      /\ UNCHANGED gapVars \/ (well' = NoWell /\ floor' = 0)
  BY DEF CommitFails, Crash
<1>2. HistoryInv' /\ well' \in Well /\ floor' \in Nat
  <2>1. CASE UNCHANGED gapVars
    BY <1>1, <2>1, HistoryKept DEF StreamInv, TypeOK, gapVars
  <2>2. CASE well' = NoWell /\ floor' = 0
    <3>1. History(well', floor', rows')
      BY <2>2, NoHistory
    <3> QED BY <2>2, <3>1, HistoryType DEF HistoryInv
  <2> QED BY <1>1, <2>1, <2>2
<1>3. doubt' = <<>> \/ /\ doubt' = <<doubt'[1]>>
                       /\ doubt'[1] \in [frames : SUBSET Frames, offset : 1 .. Len(log)]
  <2>1. CASE phase = "commit"
    BY <2>1, DoubtType DEF CommitFails, Crash
  <2>2. CASE phase # "commit"
    BY <2>2 DEF CommitFails, Crash, StreamInv, TypeOK
  <2> QED BY <2>1, <2>2
<1>4. TypeOK'
  BY <1>1, <1>2, <1>3, EndReads DEF StreamInv, TypeOK
<1> QED BY <1>1, <1>2, <1>4, EndReads DEF StreamInv

LEMMA StoreStream ==
  ASSUME StreamInv, Commit \/ Decide
  PROVE  StreamInv'
<1>1. CASE Commit
  <2>1. /\ phase = "commit" /\ doubt = <<>> /\ rows' = rows \cup Range(batch)
        /\ committed' = lastOffset /\ phase' = "account" /\ done' = 0
        /\ UNCHANGED <<log, conn, sent, lastOffset, batch, gapVars, doubt>>
    BY <1>1 DEF Commit, OffsetCommitted
  <2>2. Range(batch) \subseteq Frames /\ 0 \in 0 .. Len(batch)
    BY BatchRange DEF StreamInv, TypeOK
  <2>3. TypeOK'
    BY <2>1, <2>2 DEF StreamInv, TypeOK, gapVars
  <2>4. ReadInv'
    BY <2>1 DEF StreamInv, ReadInv
  <2> QED BY <2>1, <2>3, <2>4, HistoryKept DEF StreamInv
<1>2. CASE Decide
  <2>1. /\ doubt # <<>> /\ doubt' = <<>> /\ UNCHANGED <<log, conn, phase, sessionVars, gapVars>>
        /\ \/ rows' = rows \cup doubt[1].frames /\ committed' = doubt[1].offset
           \/ UNCHANGED <<rows, committed>>
    BY <1>2 DEF Decide
  <2>2. doubt[1].frames \subseteq Frames /\ doubt[1].offset \in Nat
    BY <2>1 DEF StreamInv, TypeOK
  <2>3. rows \subseteq rows' /\ rows' \subseteq Frames /\ committed' \in Nat
    BY <2>1, <2>2 DEF StreamInv, TypeOK
  <2>4. TypeOK'
    BY <2>1, <2>3 DEF StreamInv, TypeOK, sessionVars, gapVars
  <2>5. ReadInv'
    BY <2>1, <2>3 DEF StreamInv, ReadInv, sessionVars
  <2> QED BY <2>1, <2>3, <2>4, <2>5, HistoryKept DEF StreamInv
<1> QED BY <1>1, <1>2

\* A frame is accounted after it has been stored.
LEMMA AccountStream ==
  ASSUME StreamInv, AccountFrame \/ Flushed
  PROVE  StreamInv'
<1>1. CASE AccountFrame
  <2> DEFINE f == batch[done + 1]
  <2>1. /\ phase = "account" /\ done < Len(batch) /\ done' = done + 1
        /\ well' = ObserveWell(well, f.epoch, f.seq)
        /\ floor' = IF well'.epoch > well.epoch THEN 0 ELSE floor
        /\ UNCHANGED <<log, conn, phase, sent, lastOffset, batch, dbVars>>
    BY <1>1 DEF AccountFrame
  <2>2. /\ Len(batch) \in Nat /\ done \in Nat /\ done + 1 \in 1 .. Len(batch)
        /\ Range(batch) = {batch[i] : i \in 1 .. Len(batch)} /\ Range(batch) \subseteq rows
    BY <2>1, RangeEquality DEF StreamInv, TypeOK, ReadInv
  <2>3. f \in rows /\ rows \subseteq Frames
    BY <2>2 DEF StreamInv, TypeOK
  <2> HIDE DEF f
  <2>4. f.epoch \in Nat /\ f.seq \in Nat \ {0} /\ [epoch |-> f.epoch, seq |-> f.seq] \in rows
    BY <2>3, FrameFields
  <2>5. floor \in Nat /\ History(well, floor, rows)
    BY DEF StreamInv, TypeOK, HistoryInv
  <2>6. History(well', floor', rows)
    BY <2>1, <2>4, <2>5, AccountHistory
  <2>7. HistoryInv'
    BY <2>1, <2>6 DEF HistoryInv, dbVars
  <2>8. TypeOK'
    <3>1. floor' \in Nat /\ well' \in Well /\ done' \in 0 .. Len(batch)
      BY <2>1, <2>2, <2>5, <2>6, HistoryType
    <3> QED BY <2>1, <3>1 DEF StreamInv, TypeOK, dbVars
  <2> QED BY <2>1, <2>7, <2>8 DEF StreamInv, ReadInv, dbVars
<1>2. CASE Flushed
  <2>1. /\ phase = "account" /\ batch' = <<>> /\ done' = 0 /\ phase' = "loop"
        /\ UNCHANGED <<log, conn, sent, lastOffset, gapVars, dbVars>>
    BY <1>2 DEF Flushed
  <2>2. Len(<<>>) = 0 /\ <<>> \in Seq(Frames)
    BY EmptySeq
  <2> QED BY <2>1, <2>2, HistoryKept DEF StreamInv, TypeOK, ReadInv, gapVars, dbVars
<1> QED BY <1>1, <1>2

LEMMA NextStream ==
  ASSUME StreamInv, [Next]_vars
  PROVE  StreamInv'
<1>1. CASE UNCHANGED vars
  BY <1>1 DEF vars, sessionVars, gapVars, dbVars, StreamInv, TypeOK, ReadInv, HistoryInv
<1> QED BY <1>1, BrokerStream, StartStream, PositionStream, ReadStream, TurnStream,
           FailStream, StoreStream, AccountStream DEF Next, Session

-----------------------------------------------------------------------------
(* The stored offset.                                                       *)

LEMMA InitOffset ==
  ASSUME Init
  PROVE  CoverInv /\ StoredInv
<1>1. FramesAt(1 .. 0) = {} /\ Len(log) = 0
  BY NoFrames DEF Init
<1> QED BY <1>1 DEF Init, CoverInv, StoredInv, OffsetNeverAhead

LEMMA EndCovers ==
  ASSUME StreamInv, EndSession, UNCHANGED log
  PROVE  CoverInv'
BY DEF EndSession, StreamInv, TypeOK, CoverInv

LEMMA PublishOffset ==
  ASSUME OffsetInv, NEW i \in Items, Publish(i)
  PROVE  CoverInv' /\ StoredInv'
<1>1. log' = Append(log, i) /\ UNCHANGED <<conn, phase, sessionVars, gapVars, dbVars>>
  BY DEF Publish
<1> USE <1>1 DEF OffsetInv, StreamInv, sessionVars, dbVars
<1>2. /\ log' \in Seq(Items) /\ Len(log') = Len(log) + 1 /\ Len(log) \in Nat
      /\ \A o \in 0 .. Len(log) : FramesAt(1 .. o)' = FramesAt(1 .. o)
  <2>1. \A o \in 0 .. Len(log) : FramesAt(1 .. o)' = FramesAt(1 .. o)
    BY AppendKeeps DEF FramesAt
  <2>2. Len(log) \in Nat /\ 0 \in 0 .. Len(log)
    BY DEF TypeOK
  <2> QED BY <2>1, <2>2, AppendKeeps
<1>3. CoverInv'
  <2>1. FramesAt(1 .. lastOffset)' = FramesAt(1 .. lastOffset)
    BY <1>2 DEF TypeOK, ReadInv, CoverInv
  <2> QED BY <1>2, <2>1 DEF CoverInv, TypeOK
<1>4. StoredInv'
  <2>1. OffsetNeverAhead'
    BY <1>2 DEF StoredInv, OffsetNeverAhead, TypeOK
  <2>2. ASSUME doubt # <<>>
        PROVE  FramesAt(1 .. doubt[1].offset)' = FramesAt(1 .. doubt[1].offset)
    <3>1. doubt[1].offset \in 0 .. Len(log)
      BY <2>2 DEF TypeOK
    <3> QED BY <1>2, <3>1
  <2> QED BY <1>2, <2>1, <2>2 DEF StoredInv, TypeOK
<1> QED BY <1>3, <1>4

\* Steps that change no custody.
LEMMA IdleOffset ==
  ASSUME OffsetInv, UNCHANGED <<log, rows, committed, doubt>>, CoverInv'
  PROVE  CoverInv' /\ StoredInv'
BY DEF OffsetInv, StoredInv, OffsetNeverAhead, FramesAt

LEMMA TurnOffset ==
  ASSUME OffsetInv,
         Deliver \/ Break \/ StartSession \/ FlushTick \/ SessionLost \/ AccountFrame \/ Flushed
  PROVE  CoverInv' /\ StoredInv'
<1>1. UNCHANGED <<log, rows, committed, doubt>>
  BY DEF Deliver, Break, StartSession, FlushTick, SessionLost, AccountFrame, Flushed, dbVars
<1>2. CASE Deliver \/ Break \/ StartSession \/ FlushTick \/ AccountFrame
  <2>1. /\ UNCHANGED <<lastOffset, batch>> /\ sent' <= Len(log)
        /\ phase' \in {"loop", "commit", "account"} => phase \in {"loop", "commit", "account"}
    BY <1>2 DEF Deliver, Break, StartSession, FlushTick, AccountFrame, sessionVars,
                OffsetInv, StreamInv, TypeOK, CoverInv
  <2>2. CoverInv'
    BY <1>1, <2>1 DEF OffsetInv, CoverInv, FramesAt
  <2> QED BY <1>1, <2>2, IdleOffset
<1>3. CASE SessionLost
  BY <1>1, <1>3, EndCovers, IdleOffset DEF SessionLost, OffsetInv
<1>4. CASE Flushed
  <2>1. phase = "account" /\ batch' = <<>> /\ UNCHANGED <<sent, lastOffset>>
    BY <1>4 DEF Flushed
  <2>2. FramesAt(1 .. lastOffset) \subseteq rows
    BY <2>1 DEF OffsetInv, StreamInv, ReadInv, CoverInv
  <2>3. CoverInv'
    BY <1>1, <2>1, <2>2 DEF OffsetInv, CoverInv, FramesAt
  <2> QED BY <1>1, <2>3, IdleOffset
<1> QED BY <1>2, <1>3, <1>4

\* A session starts one past the stored offset, or at the first record.
LEMMA PositionOffset ==
  ASSUME OffsetInv, Position, StreamFrom = "first"
  PROVE  CoverInv' /\ StoredInv'
<1>1. Start - 1 \in {0, committed} /\ Start - 1 <= Len(log)
  BY DEF Start, OffsetInv, StreamInv, TypeOK, StoredInv
<1>2. FramesAt(1 .. Start - 1) \subseteq rows
  BY <1>1, NoFrames DEF OffsetInv, StoredInv, OffsetNeverAhead
<1>3. UNCHANGED <<log, rows, committed, doubt>> /\ sent' = Start - 1 /\ lastOffset' = Start - 1
  BY DEF Position, dbVars
<1>4. CoverInv'
  BY <1>1, <1>2, <1>3 DEF CoverInv, FramesAt
<1> QED BY <1>3, <1>4, IdleOffset

LEMMA ReadOffset ==
  ASSUME OffsetInv, Read
  PROVE  CoverInv' /\ StoredInv'
<1> DEFINE o == lastOffset + 1
<1>1. /\ lastOffset' = o /\ lastOffset \in Nat /\ o \in 1 .. Len(log) /\ phase = "loop"
      /\ batch' = IF log[o] \in Poison THEN batch ELSE Append(batch, log[o])
      /\ UNCHANGED <<log, sent, rows, committed, doubt>>
  BY DEF Read, OffsetInv, StreamInv, TypeOK, ReadInv, dbVars
<1>2. /\ log[o] \in Items
      /\ log[o] \in Poison => FramesAt(1 .. o) = FramesAt(1 .. lastOffset)
      /\ FramesAt(1 .. o) \subseteq FramesAt(1 .. lastOffset) \cup {log[o]}
  BY <1>1, NextRecord DEF OffsetInv, StreamInv
<1>3. FramesAt(1 .. lastOffset) \subseteq rows \cup Range(batch)
  BY <1>1 DEF OffsetInv, CoverInv
<1> HIDE DEF o
<1>4. FramesAt(1 .. o) \subseteq rows \cup Range(batch')
  <2>1. CASE log[o] \in Poison
    BY <1>1, <1>2, <1>3, <2>1
  <2>2. CASE log[o] \notin Poison
    <3>1. batch' = Append(batch, log[o]) /\ log[o] \in Frames
      BY <1>1, <1>2, <2>2 DEF Items
    <3>2. Range(batch') = Range(batch) \cup {log[o]}
      BY <3>1, RangeAppend DEF OffsetInv, StreamInv, TypeOK
    <3> QED BY <1>2, <1>3, <3>2
  <2> QED BY <2>1, <2>2
<1>5. CoverInv'
  BY <1>1, <1>4 DEF OffsetInv, CoverInv, FramesAt
<1> QED BY <1>1, <1>5, IdleOffset

LEMMA CommitOffset ==
  ASSUME OffsetInv, Commit
  PROVE  CoverInv' /\ StoredInv'
<1>1. /\ phase = "commit" /\ doubt = <<>> /\ rows' = rows \cup Range(batch)
      /\ committed' = lastOffset /\ phase' = "account" /\ done' = 0
      /\ UNCHANGED <<log, conn, sent, lastOffset, batch, doubt>>
  BY DEF Commit, OffsetCommitted
<1>2. FramesAt(1 .. lastOffset)' \subseteq rows'
  BY <1>1 DEF OffsetInv, CoverInv, FramesAt
<1>3. CoverInv'
  BY <1>1, <1>2 DEF OffsetInv, CoverInv
<1>4. StoredInv'
  BY <1>1, <1>2 DEF OffsetInv, StreamInv, TypeOK, ReadInv, CoverInv, StoredInv,
                    OffsetNeverAhead
<1> QED BY <1>3, <1>4

\* The transaction left in doubt covers what its offset passes.
LEMMA FailOffset ==
  ASSUME OffsetInv, CommitFails \/ Crash
  PROVE  CoverInv' /\ StoredInv'
<1>1. EndSession /\ UNCHANGED <<log, rows, committed>>
  BY DEF CommitFails, Crash
<1>2. CoverInv'
  BY <1>1, EndCovers DEF OffsetInv
<1>3. CASE UNCHANGED doubt
  BY <1>1, <1>2, <1>3, IdleOffset
<1>4. CASE phase = "commit" /\ doubt' = <<[frames |-> Range(batch), offset |-> lastOffset]>>
  <2>1. doubt'[1].frames = Range(batch) /\ doubt'[1].offset = lastOffset
    BY <1>4
  <2>2. FramesAt(1 .. lastOffset) \subseteq rows \cup Range(batch)
    BY <1>4 DEF OffsetInv, CoverInv
  <2>3. StoredInv'
    BY <1>1, <2>1, <2>2 DEF OffsetInv, StoredInv, OffsetNeverAhead, FramesAt
  <2> QED BY <1>2, <2>3
<1> QED BY <1>3, <1>4 DEF CommitFails, Crash, InDoubt, OffsetCommitted

LEMMA DecideOffset ==
  ASSUME OffsetInv, Decide
  PROVE  CoverInv' /\ StoredInv'
<1>1. doubt # <<>> /\ doubt' = <<>> /\ UNCHANGED <<log, phase, sent, lastOffset, batch>>
  BY DEF Decide, sessionVars
<1>2. /\ doubt[1].offset \in 1 .. Len(log)
      /\ FramesAt(1 .. doubt[1].offset) \subseteq rows \cup doubt[1].frames
  BY <1>1 DEF OffsetInv, StreamInv, TypeOK, StoredInv
<1>3. rows \subseteq rows'
  BY DEF Decide
<1>4. CoverInv'
  BY <1>1, <1>3 DEF OffsetInv, CoverInv, FramesAt
<1>5. StoredInv'
  <2>1. CASE rows' = rows \cup doubt[1].frames /\ committed' = doubt[1].offset
    BY <1>1, <1>2, <2>1 DEF StoredInv, OffsetNeverAhead, FramesAt
  <2>2. CASE UNCHANGED <<rows, committed>>
    BY <1>1, <2>2 DEF OffsetInv, StoredInv, OffsetNeverAhead, FramesAt
  <2> QED BY <2>1, <2>2 DEF Decide
<1> QED BY <1>4, <1>5

LEMMA NextOffset ==
  ASSUME StreamFrom = "first", OffsetInv, [Next]_vars
  PROVE  OffsetInv'
<1>1. ASSUME UNCHANGED vars PROVE CoverInv' /\ StoredInv'
  <2>1. UNCHANGED <<log, phase, sent, lastOffset, batch, rows, committed, doubt>>
    BY <1>1 DEF vars, sessionVars, dbVars
  <2>2. CoverInv'
    BY <2>1 DEF OffsetInv, CoverInv, FramesAt
  <2> QED BY <2>1, <2>2, IdleOffset
<1>2. ASSUME Session PROVE CoverInv' /\ StoredInv'
  BY <1>2, TurnOffset, PositionOffset, ReadOffset, CommitOffset, FailOffset DEF Session
<1>3. ASSUME (\E i \in Items : Publish(i)) \/ Deliver \/ Break \/ Decide \/ Crash
      PROVE  CoverInv' /\ StoredInv'
  BY <1>3, PublishOffset, TurnOffset, DecideOffset, FailOffset
<1>4. CoverInv' /\ StoredInv'
  BY <1>1, <1>2, <1>3 DEF Next
<1>5. StreamInv'
  BY NextStream DEF OffsetInv
<1> QED BY <1>4, <1>5 DEF OffsetInv

-----------------------------------------------------------------------------
(* What follows of every behaviour.                                         *)

\* The locals of a session and the accounting keep their invariant, wherever
\* the consumer starts.
THEOREM StreamInvariant == Spec => []StreamInv
<1>1. Init => StreamInv
  BY InitStream
<1>2. StreamInv /\ [Next]_vars => StreamInv'
  BY NextStream
<1> QED BY <1>1, <1>2, PTL DEF Spec

\* While no gap went untracked, every seq below the watermark has landed, is
\* reported missing, or is older than what the process was seeded with.
THEOREM StreamHolesReported == Spec => []EveryHoleReported
<1>1. ASSUME StreamInv, well.untracked = 0, NEW s \in floor + 1 .. well.next - 1
      PROVE  [epoch |-> well.epoch, seq |-> s] \in rows \cup ReportedGaps
  <2>1. [epoch |-> well.epoch, seq |-> s] \in rows \/ s \in ReportedMissing(well)
    BY <1>1, HistoryReports DEF StreamInv, TypeOK, HistoryInv
  <2> QED BY <2>1 DEF ReportedGaps
<1>2. StreamInv => EveryHoleReported
  BY <1>1 DEF EveryHoleReported
<1> QED BY <1>2, StreamInvariant, PTL

\* Everything at or below the offset of a session is stored or in its batch,
\* when the consumer starts from the first record.
THEOREM OffsetsCover ==
  ASSUME StreamFrom = "first"
  PROVE  Spec => []OffsetInv
<1>1. Init => OffsetInv
  BY InitStream, InitOffset DEF OffsetInv
<1>2. OffsetInv /\ [Next]_vars => OffsetInv'
  BY NextOffset
<1> QED BY <1>1, <1>2, PTL DEF Spec

\* "The stored offset can never run ahead of ... the data it covers": sink.rs
\* commits the offset in the transaction of its batch.
THEOREM OffsetSafe ==
  ASSUME StreamFrom = "first"
  PROVE  Spec => []OffsetNeverAhead
<1>1. OffsetInv => OffsetNeverAhead
  BY DEF OffsetInv, StoredInv
<1> QED BY <1>1, OffsetsCover, PTL
=============================================================================
