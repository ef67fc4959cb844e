---------------------------- MODULE IngestStream ----------------------------
(***************************************************************************)
(* The stream consumer, crates/coldbore-ingest/src/consume_stream.rs: the  *)
(* offset is committed in the transaction of the batch it covers, and a    *)
(* session resumes one past it.  The gap accounting and the sink are those *)
(* of the classic consumer; poison is skipped.                             *)
(*                                                                         *)
(* One (pad, well).  The stream and the database are external.  Offsets    *)
(* are numbered from 1; 0 stands for "no stored offset".                   *)
(***************************************************************************)
EXTENDS WellGaps, Sequences, SequencesExt

CONSTANTS
  Epochs, Seqs,  \* the frames the edge may publish
  Poison,        \* records that do not parse or validate
  ForceFrom,     \* stream_force_from: ignore the stored offset
  StreamFrom,    \* stream_from: "first", "next", or an offset
  BatchMax,      \* batch_max_frames (500)
  MaxPubs, MaxBreaks, MaxCrashes, MaxDbFails  \* budgets of the environment

ASSUME StreamAssumption ==
  /\ Epochs \subseteq Nat /\ Seqs \subseteq Nat \ {0}
  /\ ForceFrom \in BOOLEAN /\ BatchMax \in Nat \ {0}
  /\ StreamFrom \in {"first", "next"} \/ StreamFrom \in Nat \ {0}

VARIABLES
  log,        \* the stream
  conn,       \* "none", "up", "half" or "closed"
  phase,      \* "down", or the await of the session
  sent,       \* offset up to which records have reached the client
  lastOffset, \* last_offset: the newest record read
  batch,      \* frames read since the last flush
  done,       \* frames of the batch already accounted
  well,       \* the gap accounting of the well
  floor,      \* the max_seq the accounting was seeded with, if it was
  rows,       \* frames in the hypertable
  committed,  \* stream_offsets.committed_offset
  doubt,      \* the transaction whose outcome the consumer never learnt
  budget

sessionVars == <<sent, lastOffset, batch, done>>
gapVars     == <<well, floor>>
dbVars      == <<rows, committed, doubt>>
vars == <<log, conn, phase, sessionVars, gapVars, dbVars, budget>>
-----------------------------------------------------------------------------
Frames == [epoch : Epochs, seq : Seqs]
Items  == Frames \cup Poison

Spend(what) == budget[what] > 0 /\ budget' = [budget EXCEPT ![what] = @ - 1]

Init ==
  /\ log = <<>> /\ conn = "none" /\ phase = "down"
  /\ sent = 0 /\ lastOffset = 0 /\ batch = <<>> /\ done = 0
  /\ well = NoWell /\ floor = 0
  /\ rows = {} /\ committed = 0 /\ doubt = <<>>
  /\ budget = [pubs |-> MaxPubs, breaks |-> MaxBreaks, crashes |-> MaxCrashes,
               dbfails |-> MaxDbFails]

EndSession ==
  /\ phase' = "down" /\ conn' = "none"
  /\ sent' = 0 /\ lastOffset' = 0 /\ batch' = <<>> /\ done' = 0

-----------------------------------------------------------------------------
(* The stream (external).                                                   *)

Publish(i) ==
  /\ Spend("pubs")
  /\ log' = Append(log, i)
  /\ UNCHANGED <<conn, phase, sessionVars, gapVars, dbVars>>

Deliver ==
  /\ conn = "up" /\ phase # "start" /\ sent < Len(log)
  /\ sent' = sent + 1
  /\ UNCHANGED <<log, conn, phase, lastOffset, batch, done, gapVars, dbVars, budget>>

Break ==
  /\ conn = "up"
  /\ Spend("breaks")
  /\ conn' \in {"half", "closed"}
  /\ UNCHANGED <<log, phase, sessionVars, gapVars, dbVars>>

-----------------------------------------------------------------------------
(* The session of run_stream.                                               *)

\* The row whose epoch and seq the accounting is seeded with.
Newest(f) == \A g \in rows : g.epoch < f.epoch \/ (g.epoch = f.epoch /\ g.seq <= f.seq)

Start == IF ~ForceFrom /\ committed # 0 THEN committed + 1
         ELSE IF StreamFrom = "first" THEN 1
         ELSE IF StreamFrom = "next" THEN Len(log) + 1 ELSE StreamFrom

\* Connect and seed the accounting; then, in a second query, find where to
\* start.  The database may decide a transaction in doubt in between.
StartSession ==
  /\ phase = "down"
  /\ phase' = "start" /\ conn' = "up"
  /\ IF rows = {} \/ Known(well)
     THEN UNCHANGED gapVars
     ELSE \E f \in rows :
            /\ Newest(f)
            /\ well' = SeedWell(well, f.epoch, f.seq)
            /\ floor' = f.seq
  /\ UNCHANGED <<log, sessionVars, dbVars, budget>>

Position ==
  /\ phase = "start"
  /\ phase' = "loop"
  /\ sent' = Start - 1 /\ lastOffset' = Start - 1
  /\ UNCHANGED <<log, conn, batch, done, gapVars, dbVars, budget>>

\* Poison moves the offset and nothing else.
Read ==
  /\ phase = "loop" /\ lastOffset < sent
  /\ lastOffset' = lastOffset + 1
  /\ batch' = IF log[lastOffset'] \in Poison THEN batch
              ELSE Append(batch, log[lastOffset'])
  /\ phase' = IF Len(batch') >= BatchMax THEN "commit" ELSE "loop"
  /\ UNCHANGED <<log, conn, sent, done, gapVars, dbVars, budget>>

FlushTickFull ==  \* mutant: only a full batch is flushed
  /\ phase = "loop" /\ Len(batch) >= BatchMax
  /\ phase' = "commit"
  /\ UNCHANGED <<log, conn, sessionVars, gapVars, dbVars, budget>>
FlushTick ==
  /\ phase = "loop" /\ batch # <<>>
  /\ phase' = "commit"
  /\ UNCHANGED <<log, conn, sessionVars, gapVars, dbVars, budget>>

SessionLost ==
  /\ phase \in {"start", "loop"} /\ conn \in {"half", "closed"}
  /\ EndSession
  /\ UNCHANGED <<log, gapVars, dbVars, budget>>

-----------------------------------------------------------------------------
(* flush: data and offset in one transaction, then the accounting.  The     *)
(* upsert locks the consumer's row, so no transaction passes one in doubt.  *)

OffsetCommittedAhead == sent  \* mutant: the newest record received
OffsetCommitted == lastOffset

Commit ==
  /\ phase = "commit" /\ doubt = <<>>
  /\ rows' = rows \cup Range(batch)
  /\ committed' = OffsetCommitted
  /\ phase' = "account" /\ done' = 0
  /\ UNCHANGED <<log, conn, sent, lastOffset, batch, gapVars, doubt, budget>>

InDoubt ==
  \/ UNCHANGED doubt
  \/ /\ doubt = <<>>
     /\ doubt' = <<[frames |-> Range(batch), offset |-> OffsetCommitted]>>

\* The transaction failed, or FLUSH_TIMEOUT passed.
CommitFails ==
  /\ phase = "commit"
  /\ Spend("dbfails")
  /\ InDoubt
  /\ EndSession
  /\ UNCHANGED <<log, gapVars, rows, committed>>

\* The database decides the transaction in doubt.
Decide ==
  /\ doubt # <<>>
  /\ doubt' = <<>>
  /\ \/ rows' = rows \cup doubt[1].frames /\ committed' = doubt[1].offset
     \/ UNCHANGED <<rows, committed>>
  /\ UNCHANGED <<log, conn, phase, sessionVars, gapVars, budget>>

AccountFrame ==
  /\ phase = "account" /\ done < Len(batch)
  /\ LET f == batch[done + 1] IN well' = ObserveWell(well, f.epoch, f.seq)
  /\ floor' = IF well'.epoch > well.epoch THEN 0 ELSE floor
  /\ done' = done + 1
  /\ UNCHANGED <<log, conn, phase, sent, lastOffset, batch, dbVars, budget>>

\* store_offset tells the broker; whatever it answers, the flush is over.
Flushed ==
  /\ phase = "account" /\ done = Len(batch)
  /\ batch' = <<>> /\ done' = 0 /\ phase' = "loop"
  /\ UNCHANGED <<log, conn, sent, lastOffset, gapVars, dbVars, budget>>

Crash ==
  /\ Spend("crashes")
  /\ IF phase = "commit" THEN InDoubt ELSE UNCHANGED doubt
  /\ well' = NoWell /\ floor' = 0
  /\ EndSession
  /\ UNCHANGED <<log, rows, committed>>

-----------------------------------------------------------------------------
Session == \/ StartSession \/ Position \/ Read \/ FlushTick \/ SessionLost \/ Commit
           \/ CommitFails \/ AccountFrame \/ Flushed
Next == (\E i \in Items : Publish(i)) \/ Deliver \/ Break \/ Session \/ Decide \/ Crash

Spec == Init /\ [][Next]_vars

\* As for the classic consumer; the database decides what is in doubt.
Fairness == /\ WF_vars(Deliver) /\ WF_vars(Decide)
            /\ WF_vars(Session) /\ SF_vars(SessionLost)
FairSpec == Spec /\ Fairness
-----------------------------------------------------------------------------
FramesAt(offsets) == {log[i] : i \in offsets \cap DOMAIN log} \ Poison

TypeOK ==
  /\ log \in Seq(Items) /\ conn \in {"none", "up", "half", "closed"}
  /\ phase \in {"down", "start", "loop", "commit", "account"}
  /\ sent \in Nat /\ lastOffset \in Nat /\ batch \in Seq(Frames)
  /\ done \in 0 .. Len(batch) /\ well \in Well /\ floor \in Nat
  /\ rows \subseteq Frames /\ committed \in Nat
  /\ doubt = <<>> \/ /\ doubt = <<doubt[1]>>
                     /\ doubt[1] \in [frames : SUBSET Frames, offset : 1 .. Len(log)]
  /\ phase = "down" <=> conn = "none"
  /\ phase \in {"commit", "account"} => batch # <<>>

\* "The stored offset can never run ahead of ... the data it covers": every
\* frame at or below it is in the hypertable, poison in between or not.  When
\* it starts from the first record.
OffsetNeverAhead ==
  FramesAt(1 .. committed) \subseteq rows

\* A gap that is reported although its frame has landed heals: the frame is
\* still to be read again, or to be accounted with its batch.
ReportedGaps == {[epoch |-> well.epoch, seq |-> s] : s \in ReportedMissing(well)}
PhantomsHeal ==
  ReportedGaps \cap rows \subseteq
    FramesAt(committed + 1 .. Len(log)) \cup Range(SubSeq(batch, done + 1, Len(batch)))

\* Below the watermark every frame has landed, is reported missing, or is
\* older than the process.
EveryHoleReported ==
  well.untracked = 0 => \A s \in floor + 1 .. well.next - 1 :
    [epoch |-> well.epoch, seq |-> s] \in rows \cup ReportedGaps

\* Every frame of the stream lands, through any finite number of failures.
EverythingLands ==
  \A f \in Frames : f \in Range(log) ~> f \in rows
=============================================================================
