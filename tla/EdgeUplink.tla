----------------------------- MODULE EdgeUplink -----------------------------
(***************************************************************************)
(* The classic (AMQP) publisher of the edge service,                       *)
(* crates/coldbore-edge/src/uplink.rs: frames enter per-pad buffers, pass  *)
(* the reorder stage, are published inside a window of outstanding         *)
(* publisher confirms, and stay in the edge's custody until the broker has *)
(* acknowledged them.  The uplink task is one sequential process; `phase'  *)
(* is the await it is suspended at.  The generator, the control task and   *)
(* the broker run beside it and interleave at every await.                 *)
(*                                                                         *)
(* One process incarnation is modelled, one well per pad.  A frame is its  *)
(* identity: pad and sequence number.                                      *)
(***************************************************************************)
EXTENDS Integers, Sequences, FiniteSets, Functions

CONSTANTS
  Pads,           \* pad ids, ordered as in the BTreeMap of buffers
  MaxSeq,         \* frames generated per pad (bounds the model)
  ChannelCap,     \* capacity of the generator -> uplink mpsc channel (8192)
  BufferCap,      \* buffer_cap: frames kept per pad, oldest dropped beyond
  ConfirmWindow,  \* confirm_window: publishes awaiting their confirm
  FillLimit,      \* frames pulled per fill of the publish queue (512)
  Windows,        \* reorder windows the control command may set
  MaxBreaks, MaxNacks, MaxDups, MaxCtrl  \* budgets of the environment

ASSUME PadsAssumption == Pads \subseteq Nat /\ Pads # {}
ASSUME BoundsAssumption ==
  /\ MaxSeq \in Nat /\ ChannelCap \in Nat \ {0} /\ BufferCap \in Nat \ {0}
  /\ ConfirmWindow \in Nat \ {0} /\ FillLimit \in Nat \ {0}
  /\ Windows \subseteq Nat
  /\ MaxBreaks \in Nat /\ MaxNacks \in Nat /\ MaxDups \in Nat /\ MaxCtrl \in Nat

VARIABLES
  \* the generator and its channel to the uplink
  gen,        \* last sequence number generated, per pad
  rx,         \* the bounded mpsc channel
  \* UplinkState: custody that survives reconnects
  buf,        \* pad_buffers
  shuffle,    \* frames held by the reorder stage
  pubq,       \* publish_queue
  retry,      \* frames that failed a publish or were refused
  dupq,       \* dup_queue
  \* locals of the uplink task
  phase,      \* the await it is suspended at, or the loop it runs
  fill,       \* progress of fill_publish_queue
  held,       \* <<>> or the <<entry>> whose publish is being awaited
  pending,    \* (frame, is_dup) of every publish without a confirm
  inflight,   \* the confirm futures, in push order
  \* fault state, set by the control task
  link, window, dupOn,
  \* the connection and the broker
  conn,       \* "none", "up", "broken" (no answers) or "closed" (given up)
  stored,     \* frames enqueued in the durable frames queue, ever
  late,       \* what given-up connections may still deliver, in wire order
  dropped,    \* frames the buffer cap discarded (counted in buffer_dropped)
  budget      \* what the environment may still do

genVars    == <<gen, rx>>
custody    == <<buf, shuffle, pubq, retry, dupq>>
faultVars  == <<link, window, dupOn>>
brokerVars == <<conn, stored, late>>
vars == <<genVars, custody, phase, fill, held, pending, inflight, faultVars,
          brokerVars, dropped, budget>>

-----------------------------------------------------------------------------
Frame  == [pad : Pads, seq : Nat]
Entry  == [frame : Frame, dup : BOOLEAN]
Phases == {"backoff", "connect", "setup", "pump", "fill", "publish", "select",
           "reap", "requeue"}

\* A confirm future: "sent" and "stored" are unresolved (the broker has not,
\* or has, enqueued the frame), the others are what it resolves to.
Unresolved == {"sent", "stored"}
Resolved   == {"ack", "nack", "err"}
Confirm    == [frame : Frame, conf : Unresolved \cup Resolved]

NoFill == [todo |-> {}, any |-> FALSE, pulled |-> 0, window |-> 0]

Spend(what) ==
  /\ budget[what] > 0
  /\ budget' = [budget EXCEPT ![what] = @ - 1]

\* reap_all and the confirm arm: an original goes behind the retry queue, an
\* injected duplicate is forgotten.
RequeuedDupsOnly(e) == IF e.dup THEN Append(retry, e.frame) ELSE retry  \* mutant
Requeued(e) == IF e.dup THEN retry ELSE Append(retry, e.frame)

SessionUp == phase \notin {"backoff", "connect"}
HeadResolved == inflight # <<>> /\ Head(inflight).conf \in Resolved

Init ==
  /\ gen = [p \in Pads |-> 0] /\ rx = <<>>
  /\ buf = [p \in Pads |-> <<>>]
  /\ shuffle = <<>> /\ pubq = <<>> /\ retry = <<>> /\ dupq = <<>>
  /\ phase = "connect" /\ fill = NoFill
  /\ held = <<>> /\ pending = <<>> /\ inflight = <<>>
  /\ link = [p \in Pads |-> TRUE] /\ window = 0 /\ dupOn = FALSE
  /\ conn = "none" /\ stored = {} /\ late = {}
  /\ dropped = {}
  /\ budget = [breaks |-> MaxBreaks, nacks |-> MaxNacks, dups |-> MaxDups,
               ctrl |-> MaxCtrl]

\* The broker may still read what was published and not yet read, in order,
\* after the edge has given the connection up.
GiveUp(unread) ==
  /\ conn' = "closed"
  /\ \E k \in 0 .. Len(inflight) :
       /\ \A i \in 1 .. Len(inflight) : inflight[i].conf = "sent" <=> i > k
       /\ late' = late \cup
            {[i \in 1 .. Len(inflight) - k |-> inflight[k + i].frame] \o unread}

-----------------------------------------------------------------------------
(* The generator task: the next frame of a pad, handed to the channel when  *)
(* it has room (tx.send awaits otherwise).                                  *)
Generate(p) ==
  /\ gen[p] < MaxSeq
  /\ Len(rx) < ChannelCap
  /\ gen' = [gen EXCEPT ![p] = @ + 1]
  /\ rx' = Append(rx, [pad |-> p, seq |-> gen[p] + 1])
  /\ UNCHANGED <<custody, phase, fill, held, pending, inflight, faultVars,
                 brokerVars, dropped, budget>>

-----------------------------------------------------------------------------
(* Entering the custody of the uplink.                                      *)

BufferFrameMiscounts(f) ==    \* mutant: counts the newcomer instead
  /\ buf' = [buf EXCEPT ![f.pad] =
                IF Len(@) >= BufferCap THEN Append(Tail(@), f) ELSE Append(@, f)]
  /\ dropped' = IF Len(buf[f.pad]) >= BufferCap THEN dropped \cup {f} ELSE dropped

BufferFrameNewestFirst(f) ==  \* mutant: pushes to the front
  /\ buf' = [buf EXCEPT ![f.pad] =
                IF Len(@) >= BufferCap THEN <<f>> \o Tail(@) ELSE <<f>> \o @]
  /\ dropped' = IF Len(buf[f.pad]) >= BufferCap
                THEN dropped \cup {Head(buf[f.pad])} ELSE dropped

BufferFrame(f) ==
  IF Len(buf[f.pad]) >= BufferCap
  THEN /\ buf' = [buf EXCEPT ![f.pad] = Append(Tail(@), f)]
       /\ dropped' = dropped \cup {Head(buf[f.pad])}
  ELSE /\ buf' = [buf EXCEPT ![f.pad] = Append(@, f)]
       /\ UNCHANGED dropped

ReceiveLinkedPad ==           \* mutant: a frame of a cut pad stays in the channel
  /\ rx # <<>> /\ link[Head(rx).pad]
  /\ \/ phase = "backoff" /\ UNCHANGED phase
     \/ phase = "select" /\ ~HeadResolved /\ phase' = "pump"
  /\ rx' = Tail(rx)
  /\ BufferFrame(Head(rx))
  /\ UNCHANGED <<gen, shuffle, pubq, retry, dupq, fill, held, pending,
                 inflight, faultVars, brokerVars, budget>>

\* The select arm of a session, and the wait of the supervisor between two
\* sessions: both buffer what the channel holds.  The select is biased: the
\* confirm arm goes first when its future is ready.
Receive ==
  /\ rx # <<>>
  /\ \/ phase = "backoff" /\ UNCHANGED phase
     \/ phase = "select" /\ ~HeadResolved /\ phase' = "pump"
  /\ rx' = Tail(rx)
  /\ BufferFrame(Head(rx))
  /\ UNCHANGED <<gen, shuffle, pubq, retry, dupq, fill, held, pending,
                 inflight, faultVars, brokerVars, budget>>

-----------------------------------------------------------------------------
(* The pump: next_publishable and start_publish while the window has room.  *)

WindowOpenOneMore == Len(inflight) <= ConfirmWindow  \* mutant
WindowOpen == Len(inflight) < ConfirmWindow

Publish(e) == held' = <<e>> /\ phase' = "publish"

TakeRetry ==
  /\ phase = "pump" /\ WindowOpen
  /\ retry # <<>>
  /\ Publish([frame |-> Head(retry), dup |-> FALSE])
  /\ retry' = Tail(retry)
  /\ UNCHANGED <<genVars, buf, shuffle, pubq, dupq, fill, pending, inflight,
                 faultVars, brokerVars, dropped, budget>>

TakeDup ==
  /\ phase = "pump" /\ WindowOpen
  /\ retry = <<>> /\ dupq # <<>>
  /\ Publish([frame |-> Head(dupq), dup |-> TRUE])
  /\ dupq' = Tail(dupq)
  /\ UNCHANGED <<genVars, buf, shuffle, pubq, retry, fill, pending, inflight,
                 faultVars, brokerVars, dropped, budget>>

TakeStaged ==
  /\ phase = "pump" /\ WindowOpen
  /\ retry = <<>> /\ dupq = <<>> /\ pubq # <<>>
  /\ Publish([frame |-> Head(pubq), dup |-> FALSE])
  /\ pubq' = Tail(pubq)
  /\ UNCHANGED <<genVars, buf, shuffle, retry, dupq, fill, pending, inflight,
                 faultVars, brokerVars, dropped, budget>>

WindowFull ==
  /\ phase = "pump" /\ ~WindowOpen
  /\ phase' = "select"
  /\ UNCHANGED <<genVars, custody, fill, held, pending, inflight, faultVars,
                 brokerVars, dropped, budget>>

\* fill_publish_queue: the window is read once, the link of a pad each time
\* the round reaches it, and the control task may run in between.
StartFill ==
  /\ phase = "pump" /\ WindowOpen
  /\ retry = <<>> /\ dupq = <<>> /\ pubq = <<>>
  /\ phase' = "fill"
  /\ fill' = [todo |-> Pads, any |-> FALSE, pulled |-> 0, window |-> window]
  /\ UNCHANGED <<genVars, custody, held, pending, inflight, faultVars,
                 brokerVars, dropped, budget>>

PullPad(p) ==
  /\ phase = "fill"
  /\ p \in fill.todo /\ \A q \in fill.todo : p <= q
  /\ IF link[p] /\ buf[p] # <<>>
     THEN /\ buf' = [buf EXCEPT ![p] = Tail(@)]
          /\ shuffle' = Append(shuffle, Head(buf[p]))
          /\ fill' = [todo |-> fill.todo \ {p}, any |-> TRUE,
                      pulled |-> fill.pulled + 1, window |-> fill.window]
     ELSE /\ fill' = [fill EXCEPT !.todo = @ \ {p}]
          /\ UNCHANGED <<buf, shuffle>>
  /\ UNCHANGED <<genVars, pubq, retry, dupq, phase, held, pending, inflight,
                 faultVars, brokerVars, dropped, budget>>

NextRound ==
  /\ phase = "fill" /\ fill.todo = {}
  /\ fill.any /\ fill.pulled < FillLimit
  /\ fill' = [fill EXCEPT !.todo = Pads, !.any = FALSE]
  /\ UNCHANGED <<genVars, custody, phase, held, pending, inflight, faultVars,
                 brokerVars, dropped, budget>>

Rearrangements(n) ==
  {f \in [1..n -> 1..n] : \A j \in 1..n : \E i \in 1..n : f[i] = j}

\* The end of the fill and the pop of its result: with the reorder fault off
\* the frames pass in order, a full window passes shuffled, and a partial
\* window stays where it is.
FinishFill ==
  /\ phase = "fill" /\ fill.todo = {}
  /\ ~(fill.any /\ fill.pulled < FillLimit)
  /\ fill' = NoFill
  /\ \E r \in Rearrangements(Len(shuffle)) :
       LET passes == fill.window <= 1 \/ Len(shuffle) >= fill.window
           staged == [i \in 1..Len(shuffle) |-> shuffle[r[i]]]
       IN /\ fill.window <= 1 \/ ~passes => \A i \in DOMAIN r : r[i] = i
          /\ IF passes /\ shuffle # <<>>
             THEN /\ shuffle' = <<>>
                  /\ pubq' = Tail(staged)
                  /\ Publish([frame |-> Head(staged), dup |-> FALSE])
             ELSE /\ phase' = "select"
                  /\ UNCHANGED <<shuffle, pubq, held>>
  /\ UNCHANGED <<genVars, buf, retry, dupq, pending, inflight, faultVars,
                 brokerVars, dropped, budget>>

\* start_publish returned: the frame is on the wire, or in the write buffer
\* of a connection that is dead without saying so.
PublishOk ==
  /\ phase = "publish" /\ conn # "closed"
  /\ pending' = Append(pending, held[1])
  /\ inflight' = Append(inflight, [frame |-> held[1].frame, conf |-> "sent"])
  /\ held' = <<>>
  /\ phase' = "pump"
  /\ UNCHANGED <<genVars, custody, fill, faultVars, brokerVars, dropped, budget>>

\* start_publish failed or did not return within PUBLISH_TIMEOUT.  The frame,
\* whatever it was, becomes the first retransmission; its bytes may have left.
PublishFail ==
  /\ phase = "publish" /\ conn \in {"broken", "closed"}
  /\ retry' = <<held[1].frame>> \o retry
  /\ held' = <<>>
  /\ phase' = "reap"
  /\ \/ conn = "broken" /\ GiveUp(<<held[1].frame>>)
     \/ UNCHANGED <<conn, late>>
  /\ UNCHANGED <<genVars, buf, shuffle, pubq, dupq, fill, pending, inflight,
                 faultVars, stored, dropped, budget>>

-----------------------------------------------------------------------------
(* The select: the confirm arm, the drain tick and the liveness probe.      *)

PopConfirmKeepsDups(outcome) ==  \* mutant: settles originals only
  /\ inflight # <<>> /\ Head(inflight).conf = outcome
  /\ inflight' = Tail(inflight)
  /\ pending' = IF Head(pending).dup THEN pending ELSE Tail(pending)

PopConfirmPeeks(outcome) ==      \* mutant: looks at a failed confirm, keeps it
  /\ inflight # <<>> /\ Head(inflight).conf = outcome
  /\ inflight' = IF outcome = "err" THEN inflight ELSE Tail(inflight)
  /\ pending' = IF outcome = "err" THEN pending ELSE Tail(pending)

PopConfirm(outcome) ==
  /\ inflight # <<>> /\ Head(inflight).conf = outcome
  /\ inflight' = Tail(inflight)
  /\ pending' = Tail(pending)

\* An acknowledged original may be re-published by the dup fault.
ConfirmAck ==
  /\ phase = "select"
  /\ PopConfirm("ack")
  /\ phase' = "pump"
  /\ \/ UNCHANGED <<dupq, budget>>
     \/ /\ dupOn /\ ~Head(pending).dup
        /\ Spend("dups")
        /\ dupq' = Append(dupq, Head(pending).frame)
  /\ UNCHANGED <<genVars, buf, shuffle, pubq, retry, fill, held, faultVars,
                 brokerVars, dropped>>

ConfirmNack ==
  /\ phase = "select"
  /\ PopConfirm("nack")
  /\ phase' = "pump"
  /\ retry' = Requeued(Head(pending))
  /\ UNCHANGED <<genVars, buf, shuffle, pubq, dupq, fill, held, faultVars,
                 brokerVars, dropped, budget>>

ConfirmErr ==
  /\ phase = "select"
  /\ PopConfirm("err")
  /\ phase' = "reap"
  /\ retry' = Requeued(Head(pending))
  /\ UNCHANGED <<genVars, buf, shuffle, pubq, dupq, fill, held, faultVars,
                 brokerVars, dropped, budget>>

\* The drain tick, or a probe the broker answered: pump again.
Tick ==
  /\ phase = "select" /\ ~HeadResolved /\ rx = <<>>
  /\ phase' = "pump"
  /\ UNCHANGED <<genVars, custody, fill, held, pending, inflight, faultVars,
                 brokerVars, dropped, budget>>

ProbeOnlyWhenIdle ==  \* mutant: probes only with nothing in flight
  /\ phase = "select" /\ inflight = <<>> /\ rx = <<>>
  /\ conn \in {"broken", "closed"}
  /\ phase' = "reap"
  /\ UNCHANGED <<genVars, custody, fill, held, pending, inflight, faultVars,
                 brokerVars, dropped, budget>>

\* The probe failed or timed out, or confirms have stalled.
ProbeFail ==
  /\ phase = "select" /\ ~HeadResolved /\ rx = <<>>
  /\ conn \in {"broken", "closed"}
  /\ phase' = "reap"
  /\ UNCHANGED <<genVars, custody, fill, held, pending, inflight, faultVars,
                 brokerVars, dropped, budget>>

-----------------------------------------------------------------------------
(* reap_all, and the supervisor around the session.                         *)

\* A confirm that resolves before REAP_TIMEOUT.
ReapConfirm ==
  /\ phase = "reap"
  /\ \/ PopConfirm("ack") /\ UNCHANGED retry
     \/ PopConfirm("nack") /\ retry' = Requeued(Head(pending))
     \/ PopConfirm("err") /\ retry' = Requeued(Head(pending))
  /\ UNCHANGED <<genVars, buf, shuffle, pubq, dupq, phase, fill, held,
                 faultVars, brokerVars, dropped, budget>>

ReapTimeout ==
  /\ phase = "reap" /\ ~HeadResolved
  /\ phase' = "requeue"
  /\ IF conn = "closed" THEN UNCHANGED <<conn, late>> ELSE GiveUp(<<>>)
  /\ UNCHANGED <<genVars, custody, fill, held, pending, inflight, faultVars,
                 stored, dropped, budget>>

\* Past the deadline every remaining frame counts as unconfirmed.
RequeueUnconfirmed ==
  /\ phase = "requeue" /\ pending # <<>>
  /\ retry' = Requeued(Head(pending))
  /\ pending' = Tail(pending)
  /\ inflight' = Tail(inflight)
  /\ UNCHANGED <<genVars, buf, shuffle, pubq, dupq, phase, fill, held,
                 faultVars, brokerVars, dropped, budget>>

EndSession ==
  /\ phase = "requeue" /\ pending = <<>>
  /\ phase' = "backoff" /\ conn' = "none"
  /\ UNCHANGED <<genVars, custody, fill, held, pending, inflight, faultVars,
                 stored, late, dropped, budget>>

BackoffElapsed ==
  /\ phase = "backoff"
  /\ phase' = "connect"
  /\ UNCHANGED <<genVars, custody, fill, held, pending, inflight, faultVars,
                 brokerVars, dropped, budget>>

\* The attempt to reach the broker ends, one way or the other: the operating
\* system gives up a connect that nobody answers.
Connected ==
  /\ phase = "connect"
  /\ phase' = "setup" /\ conn' = "up"
  /\ UNCHANGED <<genVars, custody, fill, held, pending, inflight, faultVars,
                 stored, late, dropped, budget>>

ConnectFail ==
  /\ phase = "connect"
  /\ phase' = "backoff"
  /\ UNCHANGED <<genVars, custody, fill, held, pending, inflight, faultVars,
                 brokerVars, dropped, budget>>

\* In phase "setup" the task awaits one answer of the broker after another:
\* handshake, channels, declare_topology, confirm_select.  None of these awaits
\* has a timeout and the generator's channel is not polled, so on a half-dead
\* connection the task has no step to take.
SetupOk ==
  /\ phase = "setup" /\ conn = "up"
  /\ phase' = "pump"
  /\ UNCHANGED <<genVars, custody, fill, held, pending, inflight, faultVars,
                 brokerVars, dropped, budget>>

\* The broker refused a declaration, or the connection was closed.
SetupFail ==
  /\ phase = "setup" /\ conn \in {"up", "closed"}
  /\ phase' = "backoff" /\ conn' = "none"
  /\ UNCHANGED <<genVars, custody, fill, held, pending, inflight, faultVars,
                 stored, late, dropped, budget>>

-----------------------------------------------------------------------------
(* The control task is spawned before the last awaits of the setup and lives *)
(* as long as the session; a command published while it is down is lost with *)
(* its auto-delete queue.                                                    *)

\* FaultBox::apply: a link, the reorder window, the dup rate, or a reset.
ApplyCommand ==
  \/ \E p \in Pads, up \in BOOLEAN :
       link' = [link EXCEPT ![p] = up] /\ UNCHANGED <<window, dupOn>>
  \/ window' \in Windows /\ UNCHANGED <<link, dupOn>>
  \/ dupOn' \in BOOLEAN /\ UNCHANGED <<link, window>>
  \/ /\ link' = [p \in Pads |-> TRUE]
     /\ window' = 0 /\ dupOn' = FALSE

Control ==
  /\ SessionUp /\ conn = "up"
  /\ Spend("ctrl")
  /\ ApplyCommand
  /\ UNCHANGED <<genVars, custody, phase, fill, held, pending, inflight,
                 brokerVars, dropped>>

-----------------------------------------------------------------------------
(* The broker and the network (external): messages of a channel are         *)
(* enqueued in publish order; confirms come back in any order.              *)

Resolve(i, outcome) == inflight' = [inflight EXCEPT ![i].conf = outcome]

NextOnWire(i) ==
  /\ inflight[i].conf = "sent"
  /\ \A j \in 1 .. i - 1 : inflight[j].conf # "sent"

BrokerStore ==
  /\ conn \in {"up", "broken"}
  /\ \E i \in DOMAIN inflight :
       /\ NextOnWire(i)
       /\ Resolve(i, "stored")
       /\ stored' = stored \cup {inflight[i].frame}
  /\ UNCHANGED <<genVars, custody, phase, fill, held, pending, faultVars, conn,
                 late, dropped, budget>>

BrokerNack ==
  /\ conn = "up"
  /\ Spend("nacks")
  /\ \E i \in DOMAIN inflight : NextOnWire(i) /\ Resolve(i, "nack")
  /\ UNCHANGED <<genVars, custody, phase, fill, held, pending, faultVars,
                 brokerVars, dropped>>

BrokerAck ==
  /\ conn = "up"
  /\ \E i \in DOMAIN inflight :
       inflight[i].conf = "stored" /\ Resolve(i, "ack")
  /\ UNCHANGED <<genVars, custody, phase, fill, held, pending, faultVars,
                 brokerVars, dropped, budget>>

\* A message of an abandoned connection arrives after all.
Arrives(w) ==
  /\ late' = (late \ {w}) \cup {Tail(w)}
  /\ stored' = stored \cup {Head(w)}

BrokerLate ==
  /\ \E w \in late \ {<<>>} : Arrives(w)
  /\ UNCHANGED <<genVars, custody, phase, fill, held, pending, inflight,
                 faultVars, conn, dropped, budget>>

Break ==
  /\ conn = "up"
  /\ Spend("breaks")
  /\ conn' = "broken"
  /\ UNCHANGED <<genVars, custody, phase, fill, held, pending, inflight,
                 faultVars, stored, late, dropped>>

\* A closed connection fails every outstanding confirm; a half-dead one
\* never takes this step.
FailConfirms ==
  /\ conn = "broken"
  /\ GiveUp(<<>>)
  /\ inflight' = [i \in DOMAIN inflight |->
                    IF inflight[i].conf \in Unresolved
                    THEN [inflight[i] EXCEPT !.conf = "err"] ELSE inflight[i]]
  /\ UNCHANGED <<genVars, custody, phase, fill, held, pending, faultVars,
                 stored, dropped, budget>>

-----------------------------------------------------------------------------
Pump == \/ TakeRetry \/ TakeDup \/ TakeStaged \/ WindowFull \/ StartFill
        \/ (\E p \in Pads : PullPad(p)) \/ NextRound \/ FinishFill
        \/ PublishOk \/ PublishFail

Select == Receive \/ ConfirmAck \/ ConfirmNack \/ ConfirmErr \/ Tick \/ ProbeFail

Supervise == \/ ReapConfirm \/ ReapTimeout \/ RequeueUnconfirmed \/ EndSession
             \/ BackoffElapsed \/ Connected \/ ConnectFail
             \/ SetupOk \/ SetupFail

Broker == \/ BrokerStore \/ BrokerNack \/ BrokerAck \/ BrokerLate
          \/ Break \/ FailConfirms

Next == (\E p \in Pads : Generate(p)) \/ Pump \/ Select \/ Supervise
        \/ Control \/ Broker

Spec == Init /\ [][Next]_vars

\* The uplink task is scheduled; the probe, polled behind the other arms, is
\* polled again and again; an outage ends while the edge keeps retrying; a
\* live connection carries publishes and confirms.  That a half-dead connection
\* is ever closed from outside is not assumed.
Fairness ==
  /\ WF_vars(Pump \/ Select \/ Supervise)
  /\ SF_vars(ProbeFail) /\ SF_vars(Receive)
  /\ SF_vars(Connected) /\ SF_vars(SetupOk)
  /\ WF_vars(conn = "up" /\ BrokerStore) /\ WF_vars(BrokerAck)

FairSpec == Spec /\ Fairness
-----------------------------------------------------------------------------
Generated    == UNION {{[pad |-> p, seq |-> n] : n \in 1 .. gen[p]} : p \in Pads}
Frames(s)    == {s[i].frame : i \in DOMAIN s}
Buffered     == UNION {Range(buf[p]) : p \in Pads}
Staged       == Range(shuffle) \cup Range(pubq) \cup Range(retry)
                \cup Range(dupq) \cup Frames(held) \cup Frames(pending)
InEdge       == Range(rx) \cup Buffered \cup Staged

\* Shapes: every queue holds frames, the publish being awaited is held
\* exactly in phase "publish", a fill is in progress exactly in "fill".
TypeOK ==
  /\ gen \in [Pads -> Nat] /\ rx \in Seq(Frame)
  /\ buf \in [Pads -> Seq(Frame)]
  /\ shuffle \in Seq(Frame) /\ pubq \in Seq(Frame)
  /\ retry \in Seq(Frame) /\ dupq \in Seq(Frame)
  /\ phase \in Phases
  /\ fill \in [todo : SUBSET Pads, any : BOOLEAN, pulled : Nat, window : Nat]
  /\ phase # "fill" => fill = NoFill
  /\ held \in Seq(Entry) /\ Len(held) = IF phase = "publish" THEN 1 ELSE 0
  /\ pending \in Seq(Entry) /\ inflight \in Seq(Confirm)
  /\ link \in [Pads -> BOOLEAN] /\ window \in Nat /\ dupOn \in BOOLEAN
  /\ conn \in {"none", "up", "broken", "closed"}
  /\ stored \subseteq Frame /\ dropped \subseteq Frame
  /\ \A w \in late : w \in Seq(Frame)
  /\ budget \in [{"breaks", "nacks", "dups", "ctrl"} -> Nat]

\* "Never loses a frame silently": a generated frame is somewhere in the edge,
\* or enqueued in the durable queue, or counted in buffer_dropped.
NoSilentLoss == Generated \subseteq InEdge \cup stored \cup dropped

\* The front of `pending' always pairs with the next confirm to be yielded,
\* so the expect() of the confirm arm and of reap_all cannot panic and no
\* frame is settled by the confirm of another.
PendingTracksInflight ==
  /\ Len(pending) = Len(inflight)
  /\ \A i \in DOMAIN pending : pending[i].frame = inflight[i].frame

\* The edge never holds two copies of a frame: retransmission, requeueing and
\* duplicate injection move the one copy around, so the duplicates the sink
\* must absorb come from lost confirms and from injection alone.
Bodies(s) == [i \in DOMAIN s |-> s[i].frame]
Moving == shuffle \o pubq \o retry \o dupq \o Bodies(held) \o Bodies(pending)
SingleCustody ==
  /\ \A p \in Pads : IsInjective(buf[p] \o rx \o Moving)
  /\ \A p, q \in Pads : p # q => Range(buf[p]) \cap Range(buf[q]) = {}

\* buffer_dropped is the exact loss: a frame it counts is never delivered,
\* and is no longer held to be delivered.
ExactLoss == dropped \cap (stored \cup InEdge) = {}

\* What awaits a confirm, is being published or waits for retransmission stays
\* within one confirm window, however many sessions fail: a new frame is taken
\* only when nothing waits for retransmission.
RetryBounded == Len(retry) + Len(held) + Len(pending) <= ConfirmWindow

\* The hop's promise, as the abstract specification of a hop states it.
Hop == INSTANCE DeliveryHop WITH
         Items   <- [pad : Pads, seq : 1 .. MaxSeq],
         owed    <- InEdge \ (stored \cup dropped),
         landed  <- stored,
         counted <- dropped
ImplementsHop == Hop!Spec

\* "Drain preserves seq order; buffered frames publish before newer live
\* frames of the same pad": what has left the buffer of a pad, whatever
\* became of it, is older than what waits in it, and that is in order.  Link
\* flaps, overflow, reordering and retransmission never let a frame of the
\* buffer be overtaken by a newer one.
Released == Staged \cup stored \cup dropped
InOrder(s) == \A i, j \in DOMAIN s :
                i < j /\ s[i].pad = s[j].pad => s[i].seq < s[j].seq
Before(A, B) == \A f \in A, g \in B : f.pad = g.pad => f.seq < g.seq
DrainInSeqOrder ==
  /\ InOrder(rx) /\ \A p \in Pads : InOrder(buf[p])
  /\ Before(Buffered, Range(rx))
  /\ Before(Released, Buffered) /\ Before(Released, Range(rx))

\* The inductive invariant behind these properties.  Duplicates are of frames
\* the broker has; a frame whose confirm is, or will be, an ack is stored.
DupsStored ==
  /\ Range(dupq) \subseteq stored
  /\ \A i \in DOMAIN held : held[i].dup => held[i].frame \in stored
  /\ \A i \in DOMAIN pending : pending[i].dup => pending[i].frame \in stored
AcksStored ==
  \A i \in DOMAIN inflight :
    inflight[i].conf \in {"stored", "ack"} => inflight[i].frame \in stored
\* New frames are staged only when nothing older waits and the window has
\* room; nothing the other tasks do in between changes that.
StagingInv ==
  /\ phase \in {"fill", "publish"} => WindowOpen
  /\ phase = "fill" => retry = <<>> /\ dupq = <<>> /\ pubq = <<>>
\* What a given-up connection may still deliver has left the buffers too, and
\* was not dropped; only what was generated is anywhere.
OnWire == UNION {Range(w) : w \in late}
Left   == Released \cup OnWire
OrderInv ==
  /\ InOrder(rx)
  /\ \A p \in Pads : InOrder(buf[p]) /\ \A f \in Range(buf[p]) : f.pad = p
  /\ Before(Buffered, Range(rx))
  /\ Before(Left, Buffered) /\ Before(Left, Range(rx))
  /\ InEdge \cup Left \subseteq Generated
  /\ \A p \in Pads : gen[p] <= MaxSeq
LossInv == dropped \cap (Staged \cup stored \cup OnWire) = {}
CustodyInv ==
  /\ TypeOK /\ PendingTracksInflight /\ StagingInv
  /\ DupsStored /\ AcksStored /\ NoSilentLoss /\ RetryBounded
  /\ OrderInv /\ LossInv /\ IsInjective(Moving)

\* A session whose connection died half way through its setup.
SetupHangs == phase = "setup" /\ conn = "broken"

\* Every frame is eventually enqueued or counted as dropped, once the links
\* stay up and the reorder fault stays off, unless a setup hangs for ever.
EventuallyDelivered ==
  <>[](window <= 1 /\ \A p \in Pads : link[p]) /\ []<>~SetupHangs =>
    \A p \in Pads, n \in 1 .. MaxSeq :
      gen[p] >= n ~> [pad |-> p, seq |-> n] \in stored \cup dropped

\* "Generation never pauses" (specs/004-edge-producer/spec.md:36), as far as a
\* bounded channel can promise it: the wait for room in it always ends.
GenerationNeverPauses == Len(rx) = ChannelCap ~> Len(rx) < ChannelCap

\* That is so as long as no setup hangs for ever: whatever the links, the
\* buffers and an established connection do, for good, the uplink goes on
\* taking frames from the channel.
GeneratorUnblocked == []<>~SetupHangs => GenerationNeverPauses
=============================================================================
