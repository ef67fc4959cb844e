------------------------------ MODULE Pipeline ------------------------------
(***************************************************************************)
(* The pipeline end to end in classic mode: the publisher of EdgeUplink    *)
(* and the consumer of IngestClassic on the two sides of cb.frames.q, the  *)
(* durable queue both declare.  They share that queue and nothing else, so *)
(* a step is a step of one of them, but for a message the broker enqueues: *)
(* it is stored for the edge and published to the ingest.                  *)
(*                                                                         *)
(* One pad with one well, one incarnation of the edge, no poison.          *)
(***************************************************************************)
EXTENDS EdgeUplink, IngestClassic

CONSTANT Epoch  \* the epoch of the edge's process

\* What the edge generates, and nothing else, reaches the ingest.
ASSUME PipelineAssumption ==
  /\ \A p, q \in Pads : p = q
  /\ Epoch \in Epochs /\ 1 .. MaxSeq \subseteq Seqs /\ Poison = {}

Landing(f) == [epoch |-> Epoch, seq |-> f.seq]
-----------------------------------------------------------------------------
\* Whatever the broker stores, whichever connection it came by, it enqueues.
Enqueue ==
  \/ /\ BrokerStore
     /\ \E i \in DOMAIN inflight :
          NextOnWire(i) /\ EnqueueItem(Landing(inflight[i].frame))
  \/ /\ BrokerLate
     /\ \E w \in late \ {<<>>} : Arrives(w) /\ EnqueueItem(Landing(Head(w)))

EdgeStep ==
  /\ \/ \E p \in Pads : Generate(p)
     \/ Pump \/ Select \/ Supervise \/ Control
     \/ BrokerNack \/ BrokerAck \/ Break \/ FailConfirms
  /\ UNCHANGED ingestVars

IngestStep == Consume /\ UNCHANGED vars

PipelineInit == Init /\ IngestInit
PipelineNext == EdgeStep \/ Enqueue \/ IngestStep

PipelineSpec == PipelineInit /\ [][PipelineNext]_<<vars, ingestVars>>
FairPipeline == PipelineSpec /\ Fairness /\ IngestFairness
-----------------------------------------------------------------------------
\* A gap the ingest reports is explained: the frame is still in the edge's
\* custody, or in the queue, or the edge has counted it in buffer_dropped.
Landings(F) == {Landing(f) : f \in F}
OnItsWay    == Landings(InEdge) \cup AtBroker
EveryGapExplained == ReportedGaps \subseteq OnItsWay \cup Landings(dropped)

\* Two hops make one: a generated frame is owed until it is in the
\* hypertable, once, or counted in buffer_dropped.
EndToEnd == INSTANCE DeliveryHop WITH
  Items   <- FrameIds,
  owed    <- OnItsWay \ (rows \cup Landings(dropped)),
  landed  <- rows,
  counted <- Landings(dropped)
ImplementsHopEndToEnd == EndToEnd!Spec

\* Every gap that is reported heals, unless the edge has dropped the frame or
\* hangs for ever in the setup of a session.
GapsHeal ==
  []<>~SetupHangs =>
    \A f \in FrameIds :
      f \in ReportedGaps ~> f \notin ReportedGaps \/ f \in Landings(dropped)
=============================================================================
