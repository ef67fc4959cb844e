----------------------------- MODULE EdgeStream -----------------------------
(***************************************************************************)
(* The stream publisher of the edge service,                               *)
(* crates/coldbore-edge/src/uplink_stream.rs: frames are sent in batches   *)
(* under publishing ids, a retransmission reuses the id of the first try,  *)
(* and the stream drops what a named producer sends at or below the highest*)
(* id it has stored for that name.                                         *)
(*                                                                         *)
(* One process incarnation (one producer name), one well.  The buffers of  *)
(* UplinkState before the publish queue are those of EdgeUplink, with the  *)
(* link up, the reorder fault off and no overflow: one FIFO here.          *)
(***************************************************************************)
EXTENDS Integers, Sequences, FiniteSets, SequencesExt

CONSTANTS
  MaxSeq,         \* frames generated (bounds the model)
  ConfirmWindow,  \* confirm_window
  PublishBatch,   \* PUBLISH_BATCH (128)
  MaxBreaks, MaxNacks, MaxSweeps, MaxDups  \* budgets of the environment

ASSUME StreamBounds ==
  /\ MaxSeq \in Nat /\ ConfirmWindow \in Nat \ {0} /\ PublishBatch \in Nat \ {0}
  /\ {MaxBreaks, MaxNacks, MaxSweeps, MaxDups} \subseteq Nat

VARIABLES
  gen,       \* frames received from the generator
  src,       \* UplinkState: what next_publishable takes originals from
  dupq,      \* dup_queue
  nextId,    \* StreamCustody: next_id
  retryIds,  \* StreamCustody: retry_ids, a stack of <<frame, id>>
  phase,     \* "down", "pump", "send" or "select"
  inflight,  \* the map of unconfirmed publishes, in send order
  staged,    \* the messages of the batch_send being awaited
  confs,     \* confirmations of this session, <<id, ok>>
  conn,      \* "none", "up", "half" or "closed"
  net,       \* messages on the wire
  late,      \* what broken connections may still deliver
  log,       \* the stream: the messages stored
  high,      \* highest id stored for the producer name, -1 at first
  budget

edgeVars   == <<gen, src, dupq, nextId, retryIds>>
brokerVars == <<conn, net, late, log, high>>
vars == <<edgeVars, phase, inflight, staged, confs, brokerVars, budget>>
-----------------------------------------------------------------------------
Message(id, f, dup) == [id |-> id, frame |-> f, dup |-> dup]

Spend(what) == budget[what] > 0 /\ budget' = [budget EXCEPT ![what] = @ - 1]

Init ==
  /\ gen = 0 /\ src = <<>> /\ dupq = <<>> /\ nextId = 0 /\ retryIds = <<>>
  /\ phase = "down" /\ inflight = <<>> /\ staged = <<>> /\ confs = <<>>
  /\ conn = "none" /\ net = <<>> /\ late = {} /\ log = <<>> /\ high = -1
  /\ budget = [breaks |-> MaxBreaks, nacks |-> MaxNacks, sweeps |-> MaxSweeps,
               dups |-> MaxDups]

\* Frames back on the retransmission stack, with the ids they were sent
\* under; the map they come from has no order.  Duplicates are forgotten.
Stacked(messages) ==
  LET originals == {m \in Range(messages) : ~m.dup}
  IN {retryIds \o order : order \in SetToSeqs(originals)}

-----------------------------------------------------------------------------
(* The pump.                                                                *)

\* A frame of the generator enters the buffers, in a session or between two.
Receive ==
  /\ gen < MaxSeq
  /\ \/ phase = "down" /\ UNCHANGED phase
     \/ phase = "select" /\ confs = <<>> /\ phase' = "pump"
  /\ gen' = gen + 1
  /\ src' = Append(src, gen + 1)
  /\ UNCHANGED <<dupq, nextId, retryIds, inflight, staged, confs, brokerVars, budget>>

\* Retransmissions first, last in first out; then new publishes, injected
\* duplicates before originals, each under the next id.
RoomIgnoresWindow == PublishBatch  \* mutant: a batch may overrun the window
Room == IF Len(inflight) < ConfirmWindow
        THEN Min({ConfirmWindow - Len(inflight), PublishBatch}) ELSE 0

FillBatch ==
  /\ phase = "pump"
  /\ LET again == Min({Room, Len(retryIds)})
         dups  == Min({Room - again, Len(dupq)})
         new   == Min({Room - again - dups, Len(src)})
         resent == Reverse(SubSeq(retryIds, Len(retryIds) - again + 1, Len(retryIds)))
         fresh == [i \in 1 .. dups + new |->
                     IF i <= dups THEN Message(nextId + i - 1, dupq[i], TRUE)
                     ELSE Message(nextId + i - 1, src[i - dups], FALSE)]
     IN /\ staged' = resent \o fresh
        /\ inflight' = inflight \o staged'
        /\ phase' = IF staged' = <<>> THEN "select" ELSE "send"
        /\ retryIds' = SubSeq(retryIds, 1, Len(retryIds) - again)
        /\ dupq' = SubSeq(dupq, dups + 1, Len(dupq))
        /\ src' = SubSeq(src, new + 1, Len(src))
        /\ nextId' = nextId + dups + new
  /\ UNCHANGED <<gen, confs, brokerVars, budget>>

\* batch_send returned: the batch is on the wire, or in the write buffer of a
\* connection that is dead without saying so.
SentKeepsStaged == staged' = staged /\ phase' = "pump"  \* mutant: never cleared
Sent == staged' = <<>> /\ phase' = "pump"

SendOk ==
  /\ phase = "send" /\ conn # "closed"
  /\ net' = IF conn = "up" THEN net \o staged ELSE net
  /\ Sent
  /\ UNCHANGED <<edgeVars, inflight, confs, conn, late, log, high, budget>>

\* The session is over: everything unconfirmed goes back to the stack.
Drain(first) ==
  /\ \E order \in {s \in Stacked(inflight) :
                     SubSeq(s, Len(retryIds) + 1, Len(retryIds) + Len(first)) = first} :
       retryIds' = order
  /\ inflight' = <<>> /\ staged' = <<>> /\ confs' = <<>>
  /\ phase' = "down" /\ conn' = "none"

\* batch_send failed or SEND_TIMEOUT passed; its bytes may have left.  The
\* staged frames are stacked first, in their order, then the rest.
SendFail ==
  /\ phase = "send" /\ conn \in {"half", "closed"}
  /\ Drain(SelectSeq(staged, LAMBDA m : ~m.dup))
  /\ late' \in {late, late \cup {staged}}
  /\ UNCHANGED <<gen, src, dupq, nextId, net, log, high, budget>>

-----------------------------------------------------------------------------
(* The select.                                                              *)

ConfirmForgetsId(m) ==  \* mutant: a refused frame is sent under a new id
  retryIds' = Append(retryIds, Message(nextId, m.frame, FALSE))
RestackRefused(m) == retryIds' = Append(retryIds, m)

Settle(m, ok) ==
  \/ ok /\ UNCHANGED <<retryIds, dupq, budget>>
  \/ /\ ok /\ ~m.dup /\ Spend("dups")  \* the dup fault
     /\ dupq' = Append(dupq, m.frame)
     /\ UNCHANGED retryIds
  \/ /\ ~ok
     /\ IF m.dup THEN UNCHANGED retryIds ELSE RestackRefused(m)
     /\ UNCHANGED <<dupq, budget>>

Confirm ==
  /\ phase = "select" /\ confs # <<>>
  /\ confs' = Tail(confs)
  /\ phase' = "pump"
  /\ LET id == Head(confs)[1]
         ok == Head(confs)[2]
     IN \/ \E i \in DOMAIN inflight :
             /\ inflight[i].id = id
             /\ inflight' = RemoveAt(inflight, i)
             /\ Settle(inflight[i], ok)
        \/ /\ \A i \in DOMAIN inflight : inflight[i].id # id  \* swept away already
           /\ UNCHANGED <<inflight, retryIds, dupq, budget>>
  /\ UNCHANGED <<gen, src, nextId, staged, brokerVars>>

\* The sweep: publishes older than CONFIRM_TIMEOUT are sent again.
SweepForgets(stale) == UNCHANGED retryIds  \* mutant: dropped, not re-sent
RestackRenumbers(stale) ==  \* mutant: re-sent under new ids
  retryIds' = retryIds \o [i \in DOMAIN stale |->
                             [stale[i] EXCEPT !.id = nextId + i - 1]]
Restack(stale) == retryIds' \in Stacked(stale)

Sweep ==
  /\ phase = "select" /\ confs = <<>>
  /\ Spend("sweeps")
  /\ \E n \in 1 .. Len(inflight) :
       /\ Restack(SubSeq(inflight, 1, n))
       /\ inflight' = SubSeq(inflight, n + 1, Len(inflight))
  /\ phase' = "pump"
  /\ UNCHANGED <<gen, src, dupq, nextId, staged, confs, brokerVars>>

Tick ==
  /\ phase = "select" /\ confs = <<>>
  /\ phase' = "pump"
  /\ UNCHANGED <<edgeVars, inflight, staged, confs, brokerVars, budget>>

\* CONFIRM_STALL_TIMEOUT passed without a confirm, or the probe failed.
SessionLost ==
  /\ phase = "select" /\ confs = <<>> /\ conn \in {"half", "closed"}
  /\ Drain(<<>>)
  /\ UNCHANGED <<gen, src, dupq, nextId, net, late, log, high, budget>>

Connect ==
  /\ phase = "down"
  /\ phase' = "pump" /\ conn' = "up"
  /\ UNCHANGED <<edgeVars, inflight, staged, confs, net, late, log, high, budget>>

-----------------------------------------------------------------------------
(* The stream (external): deduplication by the highest id of the producer.  *)

Store(m) ==
  IF m.id > high
  THEN log' = Append(log, m) /\ high' = m.id
  ELSE UNCHANGED <<log, high>>

BrokerStore ==
  /\ conn = "up" /\ net # <<>>
  /\ Store(Head(net))
  /\ net' = Tail(net)
  /\ confs' = Append(confs, <<Head(net).id, TRUE>>)
  /\ UNCHANGED <<edgeVars, phase, inflight, staged, conn, late, budget>>

BrokerNack ==
  /\ conn = "up" /\ net # <<>>
  /\ Spend("nacks")
  /\ net' = Tail(net)
  /\ confs' = Append(confs, <<Head(net).id, FALSE>>)
  /\ UNCHANGED <<edgeVars, phase, inflight, staged, conn, late, log, high>>

\* What is on the wire when a connection breaks arrives later, in part or not
\* at all, and its confirms do not.
Break ==
  /\ conn = "up"
  /\ Spend("breaks")
  /\ conn' \in {"half", "closed"}
  /\ late' = late \cup ({net} \ {<<>>}) /\ net' = <<>>
  /\ UNCHANGED <<edgeVars, phase, inflight, staged, confs, log, high>>

BrokerLate ==
  /\ \E w \in late :
       /\ Store(Head(w))
       /\ late' = (late \ {w}) \cup ({Tail(w)} \ {<<>>})
  /\ UNCHANGED <<edgeVars, phase, inflight, staged, confs, conn, net, budget>>

-----------------------------------------------------------------------------
Uplink == \/ Receive \/ FillBatch \/ SendOk \/ SendFail \/ Confirm \/ Sweep
          \/ Tick \/ SessionLost \/ Connect
Broker == BrokerStore \/ BrokerNack \/ Break \/ BrokerLate
Next == Uplink \/ Broker
Spec == Init /\ [][Next]_vars

\* The uplink task runs; the generator's arm and the sweep are polled again
\* and again; the stream stores what reaches it. The setup of
\* a session is taken to end: see EdgeUplink for what follows when it does not.
Fairness == /\ WF_vars(Uplink) /\ SF_vars(Receive) /\ SF_vars(SessionLost)
            /\ WF_vars(BrokerStore)
FairSpec == Spec /\ Fairness
-----------------------------------------------------------------------------
FramesOf(s) == {s[i].frame : i \in DOMAIN s}
Stored == FramesOf(log)
InEdge == Range(src) \cup Range(dupq) \cup FramesOf(retryIds) \cup FramesOf(inflight)

Msg == [id : Nat, frame : Nat, dup : BOOLEAN]
TypeOK ==
  /\ gen \in 0 .. MaxSeq /\ src \in Seq(1 .. gen) /\ dupq \in Seq(1 .. gen)
  /\ nextId \in Nat /\ retryIds \in Seq(Msg)
  /\ phase \in {"down", "pump", "send", "select"}
  /\ inflight \in Seq(Msg) /\ staged \in Seq(Msg)
  /\ phase = "send" <=> staged # <<>>
  /\ confs \in Seq(Nat \X BOOLEAN) /\ conn \in {"none", "up", "half", "closed"}
  /\ net \in Seq(Msg) /\ log \in Seq(Msg) /\ high \in Nat \cup {-1}
  /\ late \subseteq Seq(Msg) \ {<<>>}
  /\ budget \in [{"breaks", "nacks", "sweeps", "dups"} -> Nat]
  /\ phase = "down" <=> conn = "none"

\* "A frame leaves edge custody only on a positive confirmation": a frame is
\* held by the edge or stored in the stream.
NoSilentLoss == 1 .. gen \subseteq InEdge \cup Stored

\* While no connection is lost and nothing is refused, resending what is not
\* confirmed in time loses nothing, whatever the injected duplicates do.
Undisturbed == budget.breaks = MaxBreaks /\ budget.nacks = MaxNacks
SweepsLoseNothing == Undisturbed => NoSilentLoss

\* One original, one id, one place: no id is ever used for two messages, so a
\* confirm cannot settle, and the stream cannot drop, one frame for another.
Custody == retryIds \o inflight
OneIdPerMessage ==
  /\ \A i, j \in DOMAIN Custody : i # j => Custody[i].id # Custody[j].id
  /\ \A m \in Range(Custody) :
       /\ m.id < nextId
       /\ \A n \in Range(log \o net) : n.id = m.id => n = m
  /\ \A m \in Range(retryIds) : ~m.dup

\* "The broker itself drops confirm-loss duplicates": a frame is stored twice
\* only when the dup fault was asked to send it again under a new id.
OnceUnlessInjected ==
  \A i, j \in DOMAIN log : i # j /\ log[i].frame = log[j].frame => log[i].dup \/ log[j].dup

\* However many sessions fail, what waits for a confirm or to be sent again
\* stays within one confirm window.
RetryBounded == Len(retryIds) + Len(inflight) <= ConfirmWindow

=============================================================================
