---------------------------- MODULE TelemetryFeed ----------------------------
(***************************************************************************)
(* The telemetry plane, from a service's publish to what a dashboard shows *)
(* and what the events and metrics tables hold: the ingest's snapshots and *)
(* gap events (crates/coldbore-ingest/src/telemetry.rs), the api's queue   *)
(* and handlers (services/api/app/broker.py, main.py), and the WebSocket   *)
(* hub with a bounded queue per dashboard (ws.py).                         *)
(*                                                                         *)
(* One service, in one session: its messages are numbered as published.    *)
(* A handler runs without interruption until it awaits the database, so    *)
(* what it does before is one step; inserts then end in any order.         *)
(***************************************************************************)
EXTENDS Integers, Sequences, FiniteSets

CONSTANTS
  Dashboards,
  QueueCap,      \* QUEUE_CAP (500)
  Prefetch,      \* prefetch_count (256)
  MaxSent,       \* messages published (bounds the model)
  MaxPolls, MaxJoins,  \* budgets of the environment
  MaxFaults      \* lost connections, crashes and failed inserts together

ASSUME FeedAssumption ==
  QueueCap \in Nat \ {0} /\ Prefetch \in Nat \ {0} /\ MaxSent \in Nat

VARIABLES
  sent,      \* messages the service has published
  ready,     \* the api's telemetry queue: what is not delivered, in order of no
  dead,      \* a connection the api has lost and the broker still keeps
  held,      \* what that connection's consumer was delivered
  halved,    \* history: there has been such a connection
  up,        \* the api's connection is open
  session,   \* its number
  tasks,     \* handlers awaiting their insert, <<message, session>>
  rows,      \* rows inserted, by message
  latest,    \* Broker.latest, of the service
  client,    \* the hub's end of each dashboard
  view,      \* the snapshot each dashboard shows
  budget

oldConn   == <<dead, held, halved>>
queueVars == <<ready, oldConn, up, session>>
apiVars   == <<tasks, rows, latest>>
hubVars   == <<client, view>>
vars == <<sent, queueVars, apiVars, hubVars, budget>>
-----------------------------------------------------------------------------
\* A message is its number, its kind and the broker's redelivered flag.
NoSnap == [no |-> 0, kind |-> "none", redelivered |-> FALSE]

\* `sending` is what the sender task has taken from the queue; `offered`
\* counts what was queued, the hello first; `stale` says that a snapshot was
\* broadcast after the hello was read and before the client was added.
Gone == [stage |-> "gone", hello |-> NoSnap, queue |-> <<>>, sending |-> <<>>,
         offered |-> 0, taken |-> 0, dropped |-> 0, stale |-> FALSE]

Spend(what) == budget[what] > 0 /\ budget' = [budget EXCEPT ![what] = @ - 1]

Init ==
  /\ sent = 0 /\ ready = {} /\ dead = FALSE /\ held = {} /\ halved = FALSE
  /\ up = FALSE /\ session = 0 /\ tasks = {}
  /\ rows = [n \in 1 .. MaxSent |-> 0]
  /\ latest = NoSnap
  /\ client = [d \in Dashboards |-> Gone]
  /\ view = [d \in Dashboards |-> NoSnap]
  /\ budget = [polls |-> MaxPolls, joins |-> MaxJoins, faults |-> MaxFaults]
-----------------------------------------------------------------------------
(***************************************************************************)
(* The broker: the topic exchange and cb.telemetry.api.q.                  *)
(***************************************************************************)
\* Messages requeued take their place in the queue again.
Requeued(messages) ==
  ready \cup {[m EXCEPT !.redelivered = TRUE] : m \in messages}

\* The queue delivers in the order of publication.
IsNext(m) == m \in ready /\ \A x \in ready : m.no <= x.no

\* Mutant: the queue is not declared auto_delete.
QueueOutlives(unacked, shared) == Requeued(unacked)

\* A consumer of the queue is gone: what it had not acknowledged is
\* requeued, but the queue goes with its last consumer.
QueueWithout(unacked, shared) == IF shared THEN Requeued(unacked) ELSE {}

Unacked == {t[1] : t \in {u \in tasks : up /\ u[2] = session}}

\* publish_metrics, publish_event, publish_gap_event: nobody waits for a
\* confirm and an error is only logged; without a queue the message is gone.
Publish(kind) ==
  /\ sent < MaxSent
  /\ sent' = sent + 1
  /\ \/ UNCHANGED ready
     \/ /\ up \/ dead
        /\ ready' = ready \cup {[no |-> sent + 1, kind |-> kind,
                                 redelivered |-> FALSE]}
  /\ UNCHANGED <<oldConn, up, session, apiVars, hubVars, budget>>

\* The broker serves the consumer it still believes in, and in the end
\* misses its heartbeats.
DeadTakes ==
  /\ dead /\ Cardinality(held) < Prefetch
  /\ \E m \in ready : /\ IsNext(m)
                      /\ held' = held \cup {m} /\ ready' = ready \ {m}
  /\ UNCHANGED <<sent, dead, halved, up, session, apiVars, hubVars, budget>>

DeadExpires ==
  /\ dead
  /\ ready' = QueueWithout(held, up)
  /\ dead' = FALSE /\ held' = {}
  /\ UNCHANGED <<sent, halved, up, session, apiVars, hubVars, budget>>
-----------------------------------------------------------------------------
(***************************************************************************)
(* The hub: ws.py.                                                         *)
(***************************************************************************)
\* Mutant: on overflow the new message is the one that is lost.
OfferDropsNewest(c, snap) ==
  IF Len(c.queue) < QueueCap
  THEN [c EXCEPT !.offered = @ + 1,
                 !.queue = Append(@, [no |-> c.offered + 1, snap |-> snap])]
  ELSE [c EXCEPT !.offered = @ + 1, !.dropped = @ + 1]

\* put_nowait; on overflow the oldest is dropped and counted first.
Offer(c, snap) ==
  LET full == Len(c.queue) = QueueCap
      kept == IF full THEN Tail(c.queue) ELSE c.queue
  IN [c EXCEPT !.offered = @ + 1,
               !.queue = Append(kept, [no |-> c.offered + 1, snap |-> snap]),
               !.dropped = IF full THEN @ + 1 ELSE @,
               !.stale = @ /\ snap = NoSnap]

\* Mutant: a client is added once its hello has been sent.
InHubOnceGreeted(c) == c.stage \in {"open", "mute"} /\ c.taken > 0

InHub(c) == c.stage \in {"open", "mute"}

\* To every client of the hub; NoSnap stands for a message that carries no
\* snapshot of the service.
Broadcast(snap) ==
  client' = [d \in Dashboards |->
               IF InHub(client[d]) THEN Offer(client[d], snap) ELSE client[d]]

\* The route reads the hello, then serve() awaits accept().
Join(d) ==
  /\ client[d].stage = "gone"
  /\ Spend("joins")
  /\ client' = [client EXCEPT ![d] = [Gone EXCEPT !.stage = "accepting",
                                                  !.hello = latest]]
  /\ UNCHANGED <<sent, queueVars, apiVars, view>>

\* Accepted: the client enters the hub with its hello queued.
Accept(d) ==
  /\ client[d].stage = "accepting"
  /\ client' = [client EXCEPT ![d] =
       [Gone EXCEPT !.stage = "open", !.offered = 1,
                    !.queue = <<[no |-> 1, snap |-> client[d].hello]>>,
                    !.stale = (client[d].hello # latest)]]
  /\ UNCHANGED <<sent, queueVars, apiVars, view, budget>>

\* _send_loop takes a message; send_text delivers it, and app.js shows the
\* snapshot it carries.
Take(d) ==
  /\ client[d].stage = "open" /\ client[d].sending = <<>>
  /\ client[d].queue # <<>>
  /\ client' = [client EXCEPT ![d].sending = <<Head(client[d].queue)>>,
                              ![d].queue = Tail(@), ![d].taken = @ + 1]
  /\ UNCHANGED <<sent, queueVars, apiVars, view, budget>>

Show(d) ==
  /\ client[d].sending # <<>>
  /\ LET snap == client[d].sending[1].snap
     IN view' = IF snap = NoSnap THEN view ELSE [view EXCEPT ![d] = snap]
  /\ client' = [client EXCEPT ![d].sending = <<>>]
  /\ UNCHANGED <<sent, queueVars, apiVars, budget>>

\* send_text raises: the sender task is over, the client stays in the hub.
SendRaises(d) ==
  /\ client[d].stage = "open" /\ client[d].sending # <<>>
  /\ client' = [client EXCEPT ![d].sending = <<>>, ![d].stage = "mute"]
  /\ UNCHANGED <<sent, queueVars, apiVars, view, budget>>

\* receive_text raises: the client leaves the hub, its drops with it.
Disconnect(d) ==
  /\ client[d].stage # "gone"
  /\ client' = [client EXCEPT ![d] = Gone]
  /\ UNCHANGED <<sent, queueVars, apiVars, view, budget>>

\* The broker poll, the wells poll and the scenario engine broadcast too.
Poll ==
  /\ Spend("polls")
  /\ Broadcast(NoSnap)
  /\ UNCHANGED <<sent, queueVars, apiVars, view>>
-----------------------------------------------------------------------------
(***************************************************************************)
(* The api's consumer: broker.py, main.py, db.py.                          *)
(***************************************************************************)
\* start(), and every reconnection of the robust connection.
Connect ==
  /\ ~up /\ up' = TRUE /\ session' = session + 1
  /\ UNCHANGED <<sent, ready, oldConn, apiVars, hubVars, budget>>

\* A delivery: _handle up to the await of the insert.
Handle ==
  /\ up /\ Cardinality(Unacked) < Prefetch
  /\ \E m \in ready :
       /\ IsNext(m)
       /\ latest' = IF m.kind = "metrics" THEN m ELSE latest
       /\ Broadcast(IF m.kind = "metrics" THEN m ELSE NoSnap)
       /\ tasks' = tasks \cup {<<m, session>>}
       /\ ready' = ready \ {m}
  /\ UNCHANGED <<sent, oldConn, up, session, rows, view, budget>>

\* Mutant: the snapshot is remembered once it is stored.
RememberStored(m) == latest' = IF m.kind = "metrics" THEN m ELSE latest
Stored(m) == UNCHANGED latest

\* insert_metric, insert_event: a row with no key.  The message is
\* acknowledged, in vain when its connection is gone.
Insert ==
  \E t \in tasks :
    /\ rows' = [rows EXCEPT ![t[1].no] = @ + 1]
    /\ tasks' = tasks \ {t}
    /\ Stored(t[1])
    /\ UNCHANGED <<sent, queueVars, hubVars, budget>>

\* The insert raises: logged, and the message is acknowledged all the same.
InsertRaises ==
  /\ Spend("faults")
  /\ \E t \in tasks : tasks' = tasks \ {t}
  /\ UNCHANGED <<sent, queueVars, rows, latest, hubVars>>

\* The connection ends on both sides, or only on the api's: the broker then
\* keeps the consumer and what it holds.  Handlers already running go on.
Break ==
  /\ up
  /\ Spend("faults")
  /\ ready' = QueueWithout(Unacked, dead)
  /\ up' = FALSE
  /\ UNCHANGED <<sent, oldConn, session, tasks, rows, latest, hubVars>>

HalfBreak ==
  /\ up /\ ~dead
  /\ Spend("faults")
  /\ up' = FALSE /\ dead' = TRUE /\ halved' = TRUE /\ held' = Unacked
  /\ UNCHANGED <<sent, ready, session, tasks, rows, latest, hubVars>>

\* The api process stops: handlers, snapshots, clients and the connection.
Crash ==
  /\ Spend("faults")
  /\ ready' = IF up THEN QueueWithout(Unacked, dead) ELSE ready
  /\ up' = FALSE /\ tasks' = {} /\ latest' = NoSnap
  /\ client' = [d \in Dashboards |-> Gone]
  /\ UNCHANGED <<sent, oldConn, session, rows, view>>
-----------------------------------------------------------------------------
Service == \E kind \in {"metrics", "event"} : Publish(kind)
Broker  == DeadTakes \/ DeadExpires
Hub     == \/ Poll
           \/ \E d \in Dashboards :
                \/ Join(d) \/ Accept(d) \/ Disconnect(d)
                \/ Take(d) \/ Show(d) \/ SendRaises(d)
Api     == \/ Connect \/ Handle \/ Insert \/ InsertRaises
           \/ Break \/ HalfBreak \/ Crash

Next == Service \/ Broker \/ Hub \/ Api
Spec == Init /\ [][Next]_vars
-----------------------------------------------------------------------------
\* However many tasks broadcast to a client that reads slowly or not at all,
\* its queue holds, without a hole, the newest messages it was offered, and
\* what it lost is exactly what `dropped` says (ws.py's slow-consumer policy).
FeedExact ==
  \A d \in Dashboards :
    LET c == client[d] IN
    /\ Len(c.queue) <= QueueCap
    /\ \A i \in DOMAIN c.queue : c.queue[i].no = c.offered - Len(c.queue) + i
    /\ c.taken + c.dropped + Len(c.queue) = c.offered

\* A dashboard never goes back to an older snapshot, through hellos, drops
\* and reconnections, though no one compares ages: only a message the broker
\* redelivers beside a half-open connection takes it back.
NeverGoesBack ==
  [][\A d \in Dashboards :
       view'[d] # view[d] => \/ view'[d].no > view[d].no
                             \/ view'[d].redelivered]_view

\* The tables have no key: a message is inserted twice only if a half-open
\* connection kept the queue while the api was away.
OneRowEach ==
  \A n \in 1 .. MaxSent : rows[n] > 1 => halved

\* A dashboard that has read all it was sent and lost nothing shows the
\* api's latest snapshot, unless one arrived while its socket was being
\* accepted: that one reaches neither its hello nor its queue.
FreshWhenDrained ==
  \A d \in Dashboards :
    LET c == client[d] IN
    (/\ c.stage = "open" /\ c.queue = <<>> /\ c.sending = <<>>
     /\ c.dropped = 0 /\ ~c.stale /\ latest # NoSnap) => view[d] = latest
=============================================================================
