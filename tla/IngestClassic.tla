---------------------------- MODULE IngestClassic ----------------------------
(***************************************************************************)
(* The classic (AMQP) consumer, crates/coldbore-ingest/src/consume.rs,     *)
(* with the gap accounting of gap.rs, the idempotent sink of sink.rs and   *)
(* the supervisor of main.rs: deliveries are batched, a batch is committed,*)
(* accounted, then acked, and the process, the connection and the database *)
(* may fail between any two of these steps.                                *)
(*                                                                         *)
(* One (pad, well): wells are accounted and keyed independently.  The      *)
(* broker and the database are external and modelled from how they are     *)
(* used: manual acks, prefetch, dead-lettering, a unique key.              *)
(***************************************************************************)
EXTENDS WellGaps, Sequences, SequencesExt

CONSTANTS
  Epochs, Seqs,  \* the frames the edge may publish
  Poison,        \* messages that do not parse or validate
  Prefetch,      \* basic_qos: deliveries without an ack (512)
  BatchMax,      \* batch_max_frames (500)
  MaxPubs, MaxIngestBreaks, MaxCrashes, MaxDbFails  \* budgets of the environment

ASSUME IngestAssumption ==
  /\ Epochs \subseteq Nat /\ Seqs \subseteq Nat \ {0}
  /\ Prefetch \in Nat \ {0} /\ BatchMax \in Nat \ {0}

VARIABLES
  \* the broker
  queue,    \* the durable frames queue: messages ready for delivery
  unacked,  \* deliveries of the live connection without an ack
  orphans,  \* ledgers of dead connections the broker has yet to notice
  dlq,      \* the dead-letter queue
  ingestConn,   \* "none", "up", "half" (dead without saying so) or "closed"
  \* the consumer: the session's locals, and the accounting that outlives it
  ingestPhase,  \* "down", or the await of the session
  wire,     \* deliveries sent to the client and not yet accepted
  batch,    \* frames accepted since the last ack
  tag,      \* highest_tag
  nextTag,  \* the channel's delivery tags
  done,     \* frames of the batch already accounted
  well,     \* the gap accounting of the well
  floor,    \* the max_seq the accounting was seeded with, if it was
  \* the database
  rows,     \* frames in the hypertable
  limbo,    \* inserts whose reply was lost and which may still commit
  ingestBudget

queueVars  == <<queue, unacked, orphans, dlq, ingestConn>>
sessionVars == <<wire, batch, tag, nextTag, done>>
gapVars     == <<well, floor>>
dbVars      == <<rows, limbo>>
ingestVars  == <<queueVars, ingestPhase, sessionVars, gapVars, dbVars, ingestBudget>>
-----------------------------------------------------------------------------
FrameIds == [epoch : Epochs, seq : Seqs]
Items  == FrameIds \cup Poison

ASSUME PoisonAssumption == FrameIds \cap Poison = {}  \* a frame parses

SpendIngest(what) ==
  /\ ingestBudget[what] > 0
  /\ ingestBudget' = [ingestBudget EXCEPT ![what] = @ - 1]

IngestInit ==
  /\ queue = <<>> /\ unacked = <<>> /\ orphans = <<>> /\ dlq = <<>>
  /\ ingestConn = "none"
  /\ ingestPhase = "down" /\ wire = <<>> /\ batch = <<>> /\ tag = 0 /\ nextTag = 1
  /\ done = 0
  /\ well = NoWell /\ floor = 0
  /\ rows = {} /\ limbo = {}
  /\ ingestBudget = [pubs |-> MaxPubs, breaks |-> MaxIngestBreaks,
                     crashes |-> MaxCrashes, dbfails |-> MaxDbFails]

\* The locals of a session end with it, and so does its connection: what the
\* broker holds unacked for it waits until the broker notices.
Abandon ==
  /\ unacked' = <<>>
  /\ orphans' = IF unacked = <<>> THEN orphans ELSE Append(orphans, unacked)

EndIngest ==
  /\ ingestPhase' = "down" /\ ingestConn' = "none"
  /\ wire' = <<>> /\ batch' = <<>> /\ tag' = 0 /\ nextTag' = 1 /\ done' = 0
  /\ Abandon

\* A statement whose reply is lost commits now, later or never.
CommitUnknown == limbo' \in {limbo, limbo \cup {Range(batch)}}
-----------------------------------------------------------------------------
(* The broker (external).                                                   *)

\* The edge publishes frames in any order, any of them more than once.
EnqueueItem(i) ==
  /\ SpendIngest("pubs")
  /\ queue' = Append(queue, i)
  /\ UNCHANGED <<unacked, orphans, dlq, ingestConn, ingestPhase, sessionVars,
                 gapVars, dbVars>>

Deliver ==
  /\ ingestConn = "up" /\ queue # <<>> /\ Len(unacked) < Prefetch
  /\ LET d == [tag |-> nextTag, item |-> Head(queue)]
     IN unacked' = Append(unacked, d) /\ wire' = Append(wire, d)
  /\ queue' = Tail(queue)
  /\ nextTag' = nextTag + 1
  /\ UNCHANGED <<orphans, dlq, ingestConn, ingestPhase, batch, tag, done,
                 gapVars, dbVars, ingestBudget>>

\* The connection is closed, or dies without saying so: acks and rejects
\* written from here on have no effect.
IngestBreak ==
  /\ ingestConn = "up"
  /\ SpendIngest("breaks")
  /\ ingestConn' \in {"half", "closed"}
  /\ Abandon
  /\ UNCHANGED <<queue, dlq, ingestPhase, sessionVars, gapVars, dbVars>>

\* The broker closes a dead connection: what it held is ready again, ahead of
\* what has not been delivered.
Requeue ==
  \E i \in DOMAIN orphans :
    /\ queue' = [j \in DOMAIN orphans[i] |-> orphans[i][j].item] \o queue
    /\ orphans' = RemoveAt(orphans, i)
    /\ UNCHANGED <<unacked, dlq, ingestConn, ingestPhase, sessionVars,
                   gapVars, dbVars, ingestBudget>>

-----------------------------------------------------------------------------
(* The session of run_classic.                                              *)

\* Connect, declare, seed the accounting from the durable store (the newest
\* epoch and its max seq), consume.
Newest(f) == \A g \in rows : g.epoch < f.epoch \/ (g.epoch = f.epoch /\ g.seq <= f.seq)

StartSession ==
  /\ ingestPhase = "down"
  /\ ingestPhase' = "loop" /\ ingestConn' = "up"
  /\ IF rows = {} \/ Known(well)
     THEN UNCHANGED gapVars
     ELSE \E f \in rows :
            /\ Newest(f)
            /\ well' = SeedWell(well, f.epoch, f.seq)
            /\ floor' = f.seq
  /\ UNCHANGED <<queue, unacked, orphans, dlq, sessionVars, dbVars,
                 ingestBudget>>

TagByCounting(d) == tag + 1          \* mutant: counts the accepted frames
TagOfNewestSent(d) == nextTag - 1    \* mutant: whatever has been delivered
HighestTag(d) == d.tag

\* accept: parse or dead-letter.  A full batch is flushed at once.
AcceptFrame ==
  /\ ingestPhase = "loop" /\ wire # <<>> /\ Head(wire).item \notin Poison
  /\ wire' = Tail(wire)
  /\ batch' = Append(batch, Head(wire).item)
  /\ tag' = HighestTag(Head(wire))
  /\ ingestPhase' = IF Len(batch') >= BatchMax THEN "commit" ELSE "loop"
  /\ UNCHANGED <<queueVars, nextTag, done, gapVars, dbVars, ingestBudget>>

Reject(d) ==
  /\ \E i \in DOMAIN unacked :
       unacked[i].tag = d.tag /\ unacked' = RemoveAt(unacked, i)
  /\ dlq' = Append(dlq, d.item)

RejectPoison ==
  /\ ingestPhase = "loop" /\ wire # <<>> /\ Head(wire).item \in Poison
  /\ wire' = Tail(wire)
  /\ IF ingestConn = "up" THEN Reject(Head(wire)) ELSE UNCHANGED <<unacked,
                                                                   dlq>>
  /\ UNCHANGED <<queue, orphans, ingestConn, ingestPhase, batch, tag,
                 nextTag, done, gapVars,
                 dbVars, ingestBudget>>

FlushTickFull ==  \* mutant: only a full batch is flushed
  /\ ingestPhase = "loop" /\ Len(batch) >= BatchMax
  /\ ingestPhase' = "commit"
  /\ UNCHANGED <<queueVars, sessionVars, gapVars, dbVars, ingestBudget>>
FlushTick ==
  /\ ingestPhase = "loop" /\ batch # <<>>
  /\ ingestPhase' = "commit"
  /\ UNCHANGED <<queueVars, sessionVars, gapVars, dbVars, ingestBudget>>

\* The consumer stream ended, the metrics publish timed out or the liveness
\* probe failed.
SessionLost ==
  /\ ingestPhase = "loop" /\ ingestConn \in {"half", "closed"}
  /\ EndIngest
  /\ UNCHANGED <<queue, dlq, gapVars, dbVars, ingestBudget>>

-----------------------------------------------------------------------------
(* flush: commit, account, then ack, strictly in that order.                *)

Commit ==
  /\ ingestPhase = "commit"
  /\ rows' = rows \cup Range(batch)
  /\ ingestPhase' = "account" /\ done' = 0
  /\ UNCHANGED <<queueVars, wire, batch, tag, nextTag, gapVars, limbo,
                 ingestBudget>>

\* A multiple ack settles everything up to its tag; tags grow with delivery.
Unsettled(t) ==
  LET settled == {i \in DOMAIN unacked : unacked[i].tag <= t}
  IN SubSeq(unacked, Cardinality(settled) + 1, Len(unacked))

CommitFailsAcks ==  \* mutant: logs the failure, acks and carries on
  /\ ingestPhase = "commit"
  /\ SpendIngest("dbfails")
  /\ CommitUnknown
  /\ unacked' = Unsettled(tag)
  /\ batch' = <<>> /\ ingestPhase' = "loop"
  /\ UNCHANGED <<queue, orphans, dlq, ingestConn, wire, tag, nextTag, done,
                 gapVars, rows>>
\* insert_batch failed, or FLUSH_TIMEOUT passed.
CommitFails ==
  /\ ingestPhase = "commit"
  /\ SpendIngest("dbfails")
  /\ CommitUnknown
  /\ EndIngest
  /\ UNCHANGED <<queue, dlq, gapVars, rows>>

LateCommit ==
  \E b \in limbo :
    /\ rows' = rows \cup b
    /\ limbo' = limbo \ {b}
    /\ UNCHANGED <<queueVars, ingestPhase, sessionVars, gapVars, ingestBudget>>

\* One frame is accounted, and its gap event published, at a time.
AccountFrame ==
  /\ ingestPhase = "account" /\ done < Len(batch)
  /\ LET f == batch[done + 1] IN well' = ObserveWell(well, f.epoch, f.seq)
  /\ floor' = IF well'.epoch > well.epoch THEN 0 ELSE floor
  /\ done' = done + 1
  /\ UNCHANGED <<queueVars, ingestPhase, wire, batch, tag, nextTag, dbVars,
                 ingestBudget>>

\* The ack settles everything up to the newest frame of the batch.
Ack ==
  /\ ingestPhase = "account" /\ done = Len(batch)
  /\ \/ /\ ingestConn \in {"up", "half"}
        /\ unacked' = Unsettled(tag)
        /\ batch' = <<>> /\ ingestPhase' = "loop" /\ done' = 0
        /\ UNCHANGED <<orphans, ingestConn, wire, tag, nextTag>>
     \/ /\ ingestConn \in {"half", "closed"}
        /\ EndIngest
  /\ UNCHANGED <<queue, dlq, gapVars, dbVars, ingestBudget>>

\* The process dies (the kill drill, a panic, a host restart); the script
\* supervisor starts another.
Crash ==
  /\ SpendIngest("crashes")
  /\ IF ingestPhase = "commit" THEN CommitUnknown ELSE UNCHANGED limbo
  /\ well' = NoWell /\ floor' = 0
  /\ EndIngest
  /\ UNCHANGED <<queue, dlq, rows>>

-----------------------------------------------------------------------------
Session == \/ StartSession \/ AcceptFrame \/ RejectPoison \/ FlushTick
           \/ SessionLost \/ Commit \/ CommitFails \/ AccountFrame \/ Ack
Consume == Deliver \/ IngestBreak \/ Requeue \/ Session \/ LateCommit \/ Crash
IngestNext == (\E i \in Items : EnqueueItem(i)) \/ Consume

IngestSpec == IngestInit /\ [][IngestNext]_ingestVars

\* The broker delivers, and notices dead connections; the consumer runs and
\* restarts; the probe is polled again and again.  A write to a half-dead
\* connection returns: it is buffered. The setup of
\* a session is taken to end: see EdgeUplink for what follows when it does not.
IngestFairness ==
  /\ WF_ingestVars(Deliver) /\ WF_ingestVars(Requeue)
  /\ WF_ingestVars(Session) /\ SF_ingestVars(SessionLost)
-----------------------------------------------------------------------------
Held(ledger) == {ledger[i].item : i \in DOMAIN ledger}
AtBroker == Range(queue) \cup Held(unacked) \cup UNION {Held(l) : l \in Range(orphans)}

Delivery == [tag : Nat, item : Items]
IngestTypeOK ==
  /\ queue \in Seq(Items) /\ unacked \in Seq(Delivery)
  /\ orphans \in Seq(Seq(Delivery)) /\ dlq \in Seq(Poison)
  /\ ingestConn \in {"none", "up", "half", "closed"}
  /\ ingestPhase \in {"down", "loop", "commit", "account"}
  /\ wire \in Seq(Delivery) /\ batch \in Seq(FrameIds)
  /\ tag \in Nat /\ nextTag \in Nat /\ done \in 0 .. Len(batch)
  /\ well \in Well /\ floor \in Nat
  /\ rows \subseteq FrameIds /\ limbo \subseteq SUBSET FrameIds
  /\ ingestPhase = "down" <=> ingestConn = "none"
  /\ ingestPhase # "loop" => batch # <<>> \/ ingestPhase = "down"

\* The hop's promise: a frame leaves the broker only once it is in the
\* hypertable, poison only once it is in the dead-letter queue.
IngestHop == INSTANCE DeliveryHop WITH
  owed    <- AtBroker \ (rows \cup Range(dlq)),
  landed  <- rows,
  counted <- Range(dlq)
IngestImplementsHop == IngestHop!Spec

\* While the connection lives, the deliveries the broker counts against the
\* prefetch are the batch and what has not been accepted, in this order: the
\* multiple ack settles the batch and nothing else, and leaks no slot.
Live(s) == [i \in DOMAIN s |-> s[i].item]
LedgerMatches == ingestConn = "up" => Live(unacked) = batch \o Live(wire)

\* A gap that is reported although its frame has landed heals: the commit
\* whose reply was lost is still unacked, so the frame comes again.
ReportedGaps == {[epoch |-> well.epoch, seq |-> s] : s \in ReportedMissing(well)}
PhantomsHeal == ReportedGaps \cap rows \subseteq AtBroker

\* The accounting never runs ahead of the commits: below the watermark every
\* frame has landed, is reported missing, or is older than the process.
EveryHoleReported ==
  well.untracked = 0 => \A s \in floor + 1 .. well.next - 1 :
    [epoch |-> well.epoch, seq |-> s] \in rows \cup ReportedGaps

\* What the broker accepted lands, or is dead-lettered if it is poison, through
\* any finite number of failures, also when the prefetch never fills a batch.
EverythingLands == IngestHop!Settled
=============================================================================
