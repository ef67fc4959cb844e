------------------------- MODULE ControlPlane_proofs -------------------------
(***************************************************************************)
(* The reset at the end of a shift clears every fault, and the generator   *)
(* numbers its frames without a hole, for any scenarios, any commands and  *)
(* any field.                                                              *)
(***************************************************************************)
EXTENDS ControlPlane, FiniteSetTheorems, TLAPS

\* A timeline is a sequence of valid commands.
LEMMA Commands ==
  /\ Reset \in Command /\ Kill("edge") \in Command /\ Valid(Reset)
  /\ \A c \in Command : c = Reset \/ c.cmd # "reset"
BY DEF Command, Reset, Kill, Valid

-----------------------------------------------------------------------------
(* The fault state.                                                         *)

LEMMA HealthyFaults ==
  ASSUME NEW p \in 1..MaxPads, NEW w \in 1..MaxWells
  PROVE  FaultState(Healthy(p, w)) /\ Faultless(Healthy(p, w))
BY ControlAssumption DEF FaultState, Faultless, Healthy

\* Every command leaves a fault state.
LEMMA ApplyFaults ==
  ASSUME NEW f, FaultState(f), NEW c \in Command, Valid(c)
  PROVE  FaultState(Apply(f, c))
<1> DEFINE g == Apply(f, c)
<1>1. CASE c.cmd = "link"
  <2>1. g = [f EXCEPT !.links = WithLink(f.links, c.pad, c.up)]
    BY <1>1 DEF Apply
  <2> QED BY <2>1 DEF FaultState, WithLink
<1>2. CASE c.cmd \in {"dup", "reorder", "rate"}
  <2>1. \/ g = [f EXCEPT !.dup = c.rate]
        \/ g = [f EXCEPT !.reorder = c.window]
        \/ g = [f EXCEPT !.rate = c.multiplier]
    BY <1>2 DEF Apply
  <2> QED BY <2>1 DEF FaultState
<1>3. CASE c.cmd = "topology"
  <2>1. g = WithField(f, c)
    BY <1>3 DEF Apply
  <2>2. c.pads \in 1..MaxPads /\ c.wells \in 1..MaxWells
    BY <1>3 DEF Valid
  <2>3. /\ g.pads = c.pads /\ g.wells = c.wells
        /\ g.links = [q \in DOMAIN f.links \cup 1..c.pads |->
                        IF q \in DOMAIN f.links THEN f.links[q] ELSE TRUE]
        /\ g = [dup |-> g.dup, reorder |-> g.reorder, rate |-> g.rate,
                pads |-> g.pads, wells |-> g.wells, links |-> g.links]
    BY <2>1 DEF FaultState, WithField
  <2>4. g.links = [q \in DOMAIN g.links |-> g.links[q]] /\ 1..g.pads \subseteq DOMAIN g.links
    BY <2>3
  <2>5. g.pads \in 1..MaxPads /\ g.wells \in 1..MaxWells
    BY <2>2, <2>3
  <2>6. g = [dup |-> g.dup, reorder |-> g.reorder, rate |-> g.rate, pads |-> g.pads,
            wells |-> g.wells, links |-> [q \in DOMAIN g.links |-> g.links[q]]]
    BY <2>3, <2>4, Zenon
  <2> HIDE DEF g
  <2>7. FaultState(g)
    BY <2>4, <2>5, <2>6, Zenon DEF FaultState
  <2> QED BY <2>7 DEF g
<1>4. CASE c.cmd = "reset"
  <2>1. g = Healthy(f.pads, f.wells)
    BY <1>4 DEF Apply, AfterReset
  <2> QED BY <2>1, HealthyFaults DEF FaultState
<1>5. CASE c.cmd \notin {"link", "dup", "reorder", "rate", "topology", "reset"}
  <2>1. g = f
    BY <1>5 DEF Apply
  <2> QED BY <2>1
<1> QED BY <1>1, <1>2, <1>3, <1>4, <1>5

\* What may follow a reset without bringing a fault back.
Harmless(c) == c = Reset \/ c.cmd \in {"topology", "kill"}

LEMMA HarmlessApply ==
  ASSUME NEW f, FaultState(f), Faultless(f), NEW c \in Command, Valid(c), Harmless(c)
  PROVE  Faultless(Apply(f, c))
<1>1. CASE c.cmd = "topology"
  <2>1. Apply(f, c) = WithField(f, c)
    BY <1>1 DEF Apply
  <2> DEFINE g == WithField(f, c)
  <2>2. /\ g.dup = f.dup /\ g.reorder = f.reorder /\ g.rate = f.rate
        /\ g.links = [q \in DOMAIN f.links \cup 1..c.pads |->
                        IF q \in DOMAIN f.links THEN f.links[q] ELSE TRUE]
    BY DEF FaultState, WithField
  <2> HIDE DEF g
  <2>3. Faultless(g)
    BY <2>2 DEF Faultless
  <2> QED BY <2>1, <2>3 DEF g
<1>2. CASE c = Reset
  <2>1. Apply(f, c) = Healthy(f.pads, f.wells)
    BY <1>2 DEF Apply, AfterReset, Reset
  <2> QED BY <2>1, HealthyFaults DEF FaultState
<1>3. CASE c.cmd = "kill"
  BY <1>3 DEF Apply
<1> QED BY <1>1, <1>2, <1>3 DEF Harmless

LEMMA ResetApply ==
  ASSUME NEW f, FaultState(f)
  PROVE  Faultless(Apply(f, Reset))
<1>1. Apply(f, Reset) = Healthy(f.pads, f.wells)
  BY DEF Apply, AfterReset, Reset
<1> QED BY <1>1, HealthyFaults DEF FaultState

-----------------------------------------------------------------------------
(* The type invariant: each action disturbs some of its four parts.         *)

LEMMA EmptyQueue == <<>> \in Seq(Command)
OBVIOUS

LEMMA NoRunType ==
  NoRun \in [phase : {"idle", "firing", "settling"}, todo : Seq(Command), fired : Nat]
BY EmptyQueue DEF NoRun

LEMMA InitType == Init => TypeOK
<1> SUFFICES ASSUME Init PROVE TypeOK
  OBVIOUS
<1>1. EngineOK
  <2>1. budget \in [{"runs", "posts", "breaks", "crashes"} -> Nat]
    BY ControlAssumption DEF Init
  <2> QED BY <2>1, NoRunType DEF Init, EngineOK
<1>2. QueueOK
  BY EmptyQueue DEF Init, QueueOK
<1>3. FaultState(faults)
  BY ControlAssumption, HealthyFaults DEF Init
<1>4. GeneratorOK
  BY ControlAssumption DEF Init, GeneratorOK, Grid
<1> QED BY <1>1, <1>2, <1>3, <1>4 DEF TypeOK

\* What a part does not mention leaves it alone.
LEMMA EngineStays == EngineOK /\ UNCHANGED <<apiVars, budget>> => EngineOK'
BY DEF EngineOK, apiVars
LEMMA QueueStays == QueueOK /\ UNCHANGED <<alive, queueVars, clean>> => QueueOK'
BY DEF QueueOK, queueVars
LEMMA GeneratorStays == GeneratorOK /\ UNCHANGED genVars => GeneratorOK'
BY DEF GeneratorOK, genVars
LEMMA FaultsStay == FaultState(faults) /\ UNCHANGED faults => FaultState(faults')
OBVIOUS

LEMMA EngineSpends ==
  ASSUME EngineOK, UNCHANGED apiVars,
         NEW what \in {"runs", "posts", "breaks", "crashes"}, Spend(what)
  PROVE  EngineOK'
<1>1. budget' \in [{"runs", "posts", "breaks", "crashes"} -> Nat]
  BY DEF Spend, EngineOK
<1> QED BY <1>1 DEF EngineOK, apiVars

\* What the fanout exchange does to the queue.
LEMMA RouteKeeps ==
  ASSUME QueueOK, NEW c \in Command, Route(c), UNCHANGED <<alive, bound, taken>>
  PROVE  QueueOK'
<1>1. CASE bound
  <2>1. ctrlQ' = Append(ctrlQ, c) /\ ctrlQ \in Seq(Command)
    BY <1>1 DEF Route, QueueOK
  <2>2. clean' \in BOOLEAN
    BY <1>1 DEF Route, QueueOK
  <2>3. /\ ctrlQ' \in Seq(Command) /\ ctrlQ' # <<>>
        /\ ctrlQ # <<>> => Head(ctrlQ') = Head(ctrlQ)
    BY <2>1
  <2> QED BY <1>1, <2>2, <2>3 DEF QueueOK
<1>2. CASE ~bound
  BY <1>2 DEF Route, QueueOK
<1> QED BY <1>1, <1>2

LEMMA NextCommandType == EngineOK => NextCommand \in Command
BY Commands DEF EngineOK, NextCommand

LEMMA EngineType == TypeOK /\ Engine => TypeOK'
<1> SUFFICES ASSUME TypeOK, Engine PROVE TypeOK'
  OBVIOUS
<1> USE DEF TypeOK
<1>1. ASSUME NEW t \in Timelines, Start(t) PROVE TypeOK'
  <2>1. t \in Seq(Command)
    BY ControlAssumption
  <2>2. budget' \in [{"runs", "posts", "breaks", "crashes"} -> Nat]
    BY <1>1 DEF Start, Spend, EngineOK
  <2>3. EngineOK'
    BY <1>1, <2>1, <2>2 DEF Start, EngineOK
  <2> QED BY <1>1, <2>3, QueueStays, FaultsStay, GeneratorStays DEF Start
<1>2. CASE Fire
  <2>1. QueueOK'
    BY <1>2, NextCommandType, RouteKeeps DEF Fire
  <2>2. CASE run.todo = <<>>
    <3>1. run' = [run EXCEPT !.phase = "settling"]
      BY <1>2, <2>2 DEF Fire
    <3>2. EngineOK'
      BY <1>2, <3>1 DEF Fire, EngineOK
    <3> QED BY <1>2, <2>1, <3>2, FaultsStay, GeneratorStays DEF Fire
  <2>3. CASE run.todo # <<>>
    <3>1. run' = [run EXCEPT !.todo = Tail(@), !.fired = @ + 1]
      BY <1>2, <2>3 DEF Fire
    <3>2. Tail(run.todo) \in Seq(Command) /\ run.fired + 1 \in Nat
      BY <2>3 DEF EngineOK
    <3>3. EngineOK'
      BY <1>2, <3>1, <3>2 DEF Fire, EngineOK
    <3> QED BY <1>2, <2>1, <3>3, FaultsStay, GeneratorStays DEF Fire
  <2> QED BY <2>2, <2>3
<1>3. CASE FireRaises
  <2>1. QueueOK'
    <3>1. CASE Route(NextCommand)
      BY <1>3, <3>1, NextCommandType, RouteKeeps DEF FireRaises
    <3>2. CASE UNCHANGED <<ctrlQ, clean>>
      BY <1>3, <3>2, QueueStays DEF FireRaises, queueVars
    <3> QED BY <1>3, <3>1, <3>2 DEF FireRaises
  <2>2. EngineOK'
    BY <1>3, NoRunType DEF FireRaises, EngineOK
  <2> QED BY <1>3, <2>1, <2>2, FaultsStay, GeneratorStays DEF FireRaises
<1>4. CASE Score
  <2>1. EngineOK'
    BY <1>4, NoRunType DEF Score, EngineOK
  <2> QED BY <1>4, <2>1, QueueStays, FaultsStay, GeneratorStays DEF Score
<1> QED BY <1>1, <1>2, <1>3, <1>4 DEF Engine

LEMMA ApiType == TypeOK /\ Api => TypeOK'
<1> SUFFICES ASSUME TypeOK, Api PROVE TypeOK'
  OBVIOUS
<1> USE DEF TypeOK
<1>1. CASE Shutdown
  <2>1. budget' \in [{"runs", "posts", "breaks", "crashes"} -> Nat]
    BY <1>1 DEF Shutdown, Spend, EngineOK
  <2>2. EngineOK'
    BY <1>1, <2>1, NoRunType DEF Shutdown, EngineOK
  <2> QED BY <1>1, <2>2, QueueStays, FaultsStay, GeneratorStays DEF Shutdown
<1>2. ASSUME NEW c \in Posts, Post(c) PROVE TypeOK'
  <2>1. QueueOK'
    BY <1>2, ControlAssumption, RouteKeeps DEF Post
  <2> QED BY <1>2, <2>1, EngineSpends, FaultsStay, GeneratorStays DEF Post
<1>3. CASE ApiConnect
  <2>1. EngineOK'
    BY <1>3 DEF ApiConnect, EngineOK
  <2> QED BY <1>3, <2>1, QueueStays, FaultsStay, GeneratorStays DEF ApiConnect
<1>4. CASE ApiBreak
  <2>1. budget' \in [{"runs", "posts", "breaks", "crashes"} -> Nat]
    BY <1>4 DEF ApiBreak, Spend, EngineOK
  <2>2. EngineOK'
    BY <1>4, <2>1 DEF ApiBreak, EngineOK
  <2> QED BY <1>4, <2>2, QueueStays, FaultsStay, GeneratorStays DEF ApiBreak
<1>5. CASE Pulse
  <2>1. EngineOK'
    BY <1>5 DEF Pulse, EngineOK
  <2> QED BY <1>5, <2>1, QueueStays, FaultsStay, GeneratorStays DEF Pulse
<1>6. CASE Silent
  <2>1. EngineOK'
    BY <1>6 DEF Silent, EngineOK
  <2> QED BY <1>6, <2>1, QueueStays, FaultsStay, GeneratorStays DEF Silent
<1> QED BY <1>1, <1>2, <1>3, <1>4, <1>5, <1>6 DEF Api

LEMMA EdgeType == TypeOK /\ Edge => TypeOK'
<1> SUFFICES ASSUME TypeOK, Edge PROVE TypeOK'
  OBVIOUS
<1> USE DEF TypeOK
<1>1. CASE Bind
  <2>1. QueueOK'
    BY <1>1 DEF Bind, QueueOK
  <2> QED BY <1>1, <2>1, EngineStays, FaultsStay, GeneratorStays DEF Bind
<1>2. CASE SessionLost
  <2>1. QueueOK'
    BY <1>2, EmptyQueue DEF SessionLost, DropQueue, QueueOK
  <2> QED BY <1>2, <2>1, EngineSpends, FaultsStay, GeneratorStays DEF SessionLost
<1>3. CASE Take
  <2>1. Head(ctrlQ) \in Command
    BY <1>3 DEF Take, QueueOK
  <2>2. FaultState(faults')
    BY <1>3, <2>1, ApplyFaults DEF Take
  <2>3. QueueOK'
    BY <1>3 DEF Take, QueueOK
  <2> QED BY <1>3, <2>2, <2>3, EngineStays, GeneratorStays DEF Take
<1>4. CASE Ack
  <2>1. ctrlQ' \in Seq(Command)
    BY <1>4 DEF Ack, QueueOK
  <2>2. QueueOK'
    BY <1>4, <2>1 DEF Ack, QueueOK
  <2> QED BY <1>4, <2>2, EngineStays, FaultsStay, GeneratorStays DEF Ack
<1>5. CASE Exit
  <2>1. ~taken
    BY <1>5 DEF Exit, QueueOK
  <2>2. QueueOK'
    BY <1>5, <2>1, EmptyQueue DEF Exit, DropQueue, QueueOK
  <2> QED BY <1>5, <2>2, EngineStays, FaultsStay, GeneratorStays DEF Exit
<1>6. CASE Crash
  <2>1. QueueOK'
    BY <1>6, EmptyQueue DEF Crash, DropQueue, QueueOK
  <2> QED BY <1>6, <2>1, EngineSpends, FaultsStay, GeneratorStays DEF Crash
<1>7. CASE Restart
  <2>1. FaultState(faults')
    BY <1>7, ControlAssumption, HealthyFaults DEF Restart, Boot
  <2>2. GeneratorOK'
    BY <1>7, ControlAssumption DEF Restart, Boot, GeneratorOK, Grid
  <2>3. QueueOK'
    BY <1>7 DEF Restart, Boot, QueueOK, queueVars
  <2> QED BY <1>7, <2>1, <2>2, <2>3, EngineStays DEF Restart
<1> QED BY <1>1, <1>2, <1>3, <1>4, <1>5, <1>6, <1>7 DEF Edge

\* A sample of well w: the counter of w moves, the others stay.
Sampled(w) ==
  /\ wells' = [v \in DOMAIN wells \cup {w} |-> IF v = w THEN SeqOf(w) + 1 ELSE wells[v]]
  /\ frames' = frames \cup {<<w[1], w[2], SeqOf(w) + 1>>}
  /\ round' = [round EXCEPT !.left = @ \ {w}]

LEMMA SampleIs == Sample => \E w \in round.left : SeqOf(w) + 1 <= MaxSeq /\ Sampled(w)
BY DEF Sample, Sampled

LEMMA SampleWell ==
  ASSUME GeneratorOK, NEW w \in round.left, SeqOf(w) + 1 <= MaxSeq, Sampled(w)
  PROVE  /\ w \in Grid /\ w = <<w[1], w[2]>> /\ w[1] \in Nat /\ w[2] \in Nat
         /\ SeqOf(w) \in Nat /\ SeqOf(w) + 1 \in Nat /\ SeqOf(w) + 1 \in 1..MaxSeq
         /\ DOMAIN wells' = DOMAIN wells \cup {w}
         /\ wells' \in [DOMAIN wells' -> 0..MaxSeq]
         /\ wells'[w] = SeqOf(w) + 1
         /\ \A v \in DOMAIN wells : v # w => wells'[v] = wells[v]
<1>1. w \in Grid
  BY DEF GeneratorOK
<1>2. w = <<w[1], w[2]>> /\ w[1] \in Nat /\ w[2] \in Nat
  BY <1>1, ControlAssumption DEF Grid
<1>3. wells \in [DOMAIN wells -> 0..MaxSeq] /\ MaxSeq \in Nat
  BY ControlAssumption DEF GeneratorOK
<1>4. SeqOf(w) \in 0..MaxSeq
  BY <1>3 DEF SeqOf
<1>5. SeqOf(w) \in Nat /\ SeqOf(w) + 1 \in Nat /\ SeqOf(w) + 1 \in 1..MaxSeq
  BY <1>3, <1>4
<1>6. wells' = [v \in DOMAIN wells \cup {w} |-> IF v = w THEN SeqOf(w) + 1 ELSE wells[v]]
  BY DEF Sampled
<1> HIDE DEF SeqOf
<1> QED BY <1>1, <1>2, <1>3, <1>5, <1>6

LEMMA GeneratorType == TypeOK /\ Generator => TypeOK'
<1> SUFFICES ASSUME TypeOK, Generator PROVE TypeOK'
  OBVIOUS
<1> USE DEF TypeOK
<1>1. CASE Tick
  <2>1. <<faults.pads, faults.wells>> \in Grid /\ round.field \in Grid
    BY DEF GeneratorOK, FaultState, Grid
  <2>2. PICK f \in Grid : round' = [field |-> f, left |-> (1..f[1]) \X (1..f[2])]
    BY <1>1, <2>1 DEF Tick
  <2>3. (1..f[1]) \X (1..f[2]) \subseteq Grid
    BY ControlAssumption DEF Grid
  <2>4. round' \in [field : Grid, left : SUBSET Grid]
    BY <2>2, <2>3
  <2>5. GeneratorOK'
    BY <1>1, <2>4 DEF Tick, GeneratorOK
  <2> QED BY <1>1, <2>5, EngineStays, QueueStays, FaultsStay DEF Tick
<1>2. CASE Sample
  <2>1. PICK w \in round.left : SeqOf(w) + 1 <= MaxSeq /\ Sampled(w)
    BY <1>2, SampleIs
  <2>2. /\ w \in Grid /\ w[1] \in Nat /\ w[2] \in Nat /\ SeqOf(w) + 1 \in Nat
        /\ DOMAIN wells' = DOMAIN wells \cup {w}
        /\ wells' \in [DOMAIN wells' -> 0..MaxSeq]
    BY <2>1, SampleWell, Zenon DEF TypeOK
  <2>3. frames' \subseteq Nat \X Nat \X Nat
    BY <2>1, <2>2 DEF Sampled, GeneratorOK
  <2>4. round' \in [field : Grid, left : SUBSET Grid]
    BY <2>1 DEF Sampled, GeneratorOK
  <2>5. DOMAIN wells' \subseteq Grid
    BY <2>2 DEF GeneratorOK
  <2>6. generated' \in Nat
    BY <1>2 DEF Sample, GeneratorOK
  <2>7. GeneratorOK'
    BY <2>2, <2>3, <2>4, <2>5, <2>6 DEF GeneratorOK
  <2> QED BY <1>2, <2>7, EngineStays, QueueStays, FaultsStay DEF Sample
<1> QED BY <1>1, <1>2 DEF Generator

LEMMA StutterType == TypeOK /\ UNCHANGED vars => TypeOK'
BY EngineStays, QueueStays, FaultsStay, GeneratorStays DEF TypeOK, vars

LEMMA NextType == TypeOK /\ [Next]_vars => TypeOK'
BY EngineType, ApiType, EdgeType, GeneratorType, StutterType DEF Next

\* The type invariant.
THEOREM TypeCorrect == Spec => []TypeOK
BY InitType, NextType, PTL DEF Spec

-----------------------------------------------------------------------------
(* The reset clears every fault.                                            *)

\* What the edge has not applied yet starts here in the queue.
From == IF taken THEN 2 ELSE 1

\* What the queue still brings leaves no fault: nothing is faulty and no
\* fault is queued, or the last thing that matters is a reset.
Settles ==
  alive /\ clean =>
    \/ /\ Faultless(faults)
       /\ \A i \in DOMAIN ctrlQ : From <= i => Harmless(ctrlQ[i])
    \/ \E i \in DOMAIN ctrlQ :
         /\ From <= i /\ ctrlQ[i] = Reset
         /\ \A j \in DOMAIN ctrlQ : i < j => Harmless(ctrlQ[j])

LEMMA InitSettles == Init => Settles
<1> SUFFICES ASSUME Init PROVE Settles
  OBVIOUS
<1>1. Faultless(faults)
  BY ControlAssumption, HealthyFaults DEF Init
<1> QED BY <1>1 DEF Init, Settles

LEMMA SettlesStays ==
  Settles /\ UNCHANGED <<alive, clean, faults, ctrlQ, taken>> => Settles'
BY DEF Settles, From

LEMMA RouteSettles ==
  ASSUME TypeOK, Settles, NEW c \in Command, Route(c), UNCHANGED <<alive, bound, taken, faults>>
  PROVE  Settles'
<1>1. CASE ~bound
  BY <1>1, SettlesStays DEF Route
<1>2. CASE bound
  <2> SUFFICES ASSUME alive', clean' PROVE Settles'
    BY DEF Settles
  <2> DEFINE n == Len(ctrlQ) + 1
  <2>1. /\ ctrlQ' = Append(ctrlQ, c) /\ ctrlQ \in Seq(Command) /\ From' = From
        /\ From \in Nat /\ Len(ctrlQ) \in Nat
    BY <1>2 DEF Route, From, TypeOK, QueueOK
  <2>2. /\ DOMAIN ctrlQ' = 1..n /\ ctrlQ'[n] = c
        /\ DOMAIN ctrlQ = 1..Len(ctrlQ)
        /\ \A i \in DOMAIN ctrlQ : ctrlQ'[i] = ctrlQ[i]
    BY <2>1
  <2>3. From <= n
    <3>1. taken => Len(ctrlQ) >= 1
      BY <2>1 DEF TypeOK, QueueOK
    <3> QED BY <2>1, <3>1 DEF From
  <2>4. CASE c = Reset
    <3>1. \A j \in DOMAIN ctrlQ' : n < j => Harmless(ctrlQ'[j])
      BY <2>1, <2>2
    <3> QED BY <2>1, <2>2, <2>3, <2>4, <3>1 DEF Settles
  <2>5. CASE c # Reset
    <3>1. clean /\ c.cmd \in {"topology", "kill"}
      BY <1>2, <2>5 DEF Route
    <3>2. Harmless(c)
      BY <3>1 DEF Harmless
    <3>3. CASE /\ Faultless(faults)
               /\ \A i \in DOMAIN ctrlQ : From <= i => Harmless(ctrlQ[i])
      <4>1. \A i \in DOMAIN ctrlQ' : From' <= i => Harmless(ctrlQ'[i])
        BY <2>1, <2>2, <3>2, <3>3
      <4> QED BY <3>3, <4>1 DEF Settles
    <3>4. ASSUME NEW i \in DOMAIN ctrlQ, From <= i, ctrlQ[i] = Reset,
                 \A j \in DOMAIN ctrlQ : i < j => Harmless(ctrlQ[j])
          PROVE  Settles'
      <4>1. /\ i \in DOMAIN ctrlQ' /\ From' <= i /\ ctrlQ'[i] = Reset
            /\ \A j \in DOMAIN ctrlQ' : i < j => Harmless(ctrlQ'[j])
        BY <2>1, <2>2, <3>2, <3>4
      <4> QED BY <4>1 DEF Settles
    <3> QED BY <3>1, <3>3, <3>4 DEF Settles
  <2> QED BY <2>4, <2>5
<1> QED BY <1>1, <1>2

LEMMA EngineSettles == TypeOK /\ Settles /\ Engine => Settles'
<1> SUFFICES ASSUME TypeOK, Settles, Engine PROVE Settles'
  OBVIOUS
<1>1. ASSUME NEW t \in Timelines, Start(t) PROVE Settles'
  BY <1>1, SettlesStays DEF Start, queueVars
<1>2. CASE Fire
  BY <1>2, NextCommandType, RouteSettles DEF Fire, TypeOK
<1>3. CASE FireRaises
  <2>1. CASE Route(NextCommand)
    BY <1>3, <2>1, NextCommandType, RouteSettles DEF FireRaises, TypeOK
  <2>2. CASE UNCHANGED <<ctrlQ, clean>>
    BY <1>3, <2>2, SettlesStays DEF FireRaises
  <2> QED BY <1>3, <2>1, <2>2 DEF FireRaises
<1>4. CASE Score
  BY <1>4, SettlesStays DEF Score, queueVars
<1> QED BY <1>1, <1>2, <1>3, <1>4 DEF Engine

LEMMA ApiSettles == TypeOK /\ Settles /\ Api => Settles'
<1> SUFFICES ASSUME TypeOK, Settles, Api PROVE Settles'
  OBVIOUS
<1>1. CASE Shutdown \/ ApiConnect \/ ApiBreak \/ Pulse \/ Silent
  BY <1>1, SettlesStays DEF Shutdown, ApiConnect, ApiBreak, Pulse, Silent, queueVars
<1>2. ASSUME NEW c \in Posts, Post(c) PROVE Settles'
  <2>1. c \in Command
    BY ControlAssumption
  <2> QED BY <1>2, <2>1, RouteSettles DEF Post
<1> QED BY <1>1, <1>2 DEF Api

\* The edge applies the head of the queue: a harmless command, a command a
\* later reset undoes, or that reset.
LEMMA TakeSettles == TypeOK /\ Settles /\ Take => Settles'
<1> SUFFICES ASSUME TypeOK, Settles, Take, alive', clean' PROVE Settles'
  BY DEF Settles
<1> DEFINE c == Head(ctrlQ)
<1>1. /\ ctrlQ \in Seq(Command) /\ ctrlQ # <<>> /\ ctrlQ' = ctrlQ
      /\ ~taken /\ taken' = TRUE /\ alive /\ clean
  BY DEF Take, TypeOK, QueueOK
<1>2. From = 1 /\ From' = 2
  BY <1>1 DEF From
<1>3. c \in Command /\ c = ctrlQ[1] /\ 1 \in DOMAIN ctrlQ /\ DOMAIN ctrlQ \subseteq Nat \ {0}
  BY <1>1
<1>4. FaultState(faults) /\ faults' = IF Valid(c) THEN Apply(faults, c) ELSE faults
  BY DEF Take, TypeOK
<1>5. CASE /\ Faultless(faults)
           /\ \A i \in DOMAIN ctrlQ : From <= i => Harmless(ctrlQ[i])
  <2>1. Harmless(c)
    BY <1>2, <1>3, <1>5
  <2>2. Faultless(faults')
    BY <1>3, <1>4, <1>5, <2>1, HarmlessApply
  <2>3. \A i \in DOMAIN ctrlQ' : From' <= i => Harmless(ctrlQ'[i])
    BY <1>1, <1>2, <1>3, <1>5
  <2> QED BY <2>2, <2>3 DEF Settles
<1>6. ASSUME NEW i \in DOMAIN ctrlQ, From <= i, ctrlQ[i] = Reset,
             \A j \in DOMAIN ctrlQ : i < j => Harmless(ctrlQ[j])
      PROVE  Settles'
  <2>1. CASE i = 1
    <3>1. Faultless(faults')
      BY <1>3, <1>4, <1>6, <2>1, Commands, ResetApply
    <3>2. \A j \in DOMAIN ctrlQ' : From' <= j => Harmless(ctrlQ'[j])
      BY <1>1, <1>2, <1>3, <1>6, <2>1
    <3> QED BY <3>1, <3>2 DEF Settles
  <2>2. CASE i # 1
    <3>1. i \in DOMAIN ctrlQ' /\ From' <= i /\ ctrlQ'[i] = Reset
      BY <1>1, <1>2, <1>3, <1>6, <2>2
    <3>2. \A j \in DOMAIN ctrlQ' : i < j => Harmless(ctrlQ'[j])
      BY <1>1, <1>6
    <3> QED BY <3>1, <3>2 DEF Settles
  <2> QED BY <2>1, <2>2
<1> QED BY <1>1, <1>5, <1>6 DEF Settles

LEMMA AckSettles == TypeOK /\ Settles /\ Ack => Settles'
<1> SUFFICES ASSUME TypeOK, Settles, Ack, alive', clean' PROVE Settles'
  BY DEF Settles
<1>1. /\ ctrlQ \in Seq(Command) /\ ctrlQ # <<>> /\ ctrlQ' = Tail(ctrlQ)
      /\ taken /\ taken' = FALSE /\ alive /\ clean /\ faults' = faults
  BY DEF Ack, TypeOK, QueueOK
<1>2. From = 2 /\ From' = 1
  BY <1>1 DEF From
<1>3. /\ DOMAIN ctrlQ = 1..Len(ctrlQ) /\ Len(ctrlQ) \in Nat
      /\ DOMAIN ctrlQ' = 1..Len(ctrlQ) - 1
      /\ \A i \in DOMAIN ctrlQ' : ctrlQ'[i] = ctrlQ[i + 1]
  BY <1>1
<1>4. CASE /\ Faultless(faults)
           /\ \A i \in DOMAIN ctrlQ : From <= i => Harmless(ctrlQ[i])
  <2>1. \A i \in DOMAIN ctrlQ' : From' <= i => Harmless(ctrlQ'[i])
    BY <1>2, <1>3, <1>4
  <2> QED BY <1>1, <1>4, <2>1 DEF Settles
<1>5. ASSUME NEW i \in DOMAIN ctrlQ, From <= i, ctrlQ[i] = Reset,
             \A j \in DOMAIN ctrlQ : i < j => Harmless(ctrlQ[j])
      PROVE  Settles'
  <2>1. i - 1 \in DOMAIN ctrlQ' /\ From' <= i - 1 /\ ctrlQ'[i - 1] = Reset
    BY <1>2, <1>3, <1>5
  <2>2. \A j \in DOMAIN ctrlQ' : i - 1 < j => Harmless(ctrlQ'[j])
    BY <1>3, <1>5
  <2> QED BY <2>1, <2>2 DEF Settles
<1> QED BY <1>1, <1>4, <1>5 DEF Settles

LEMMA EdgeSettles == TypeOK /\ Settles /\ Edge => Settles'
<1> SUFFICES ASSUME TypeOK, Settles, Edge PROVE Settles'
  OBVIOUS
<1>1. CASE Bind
  BY <1>1, SettlesStays DEF Bind
<1>2. CASE SessionLost
  <2> SUFFICES ASSUME alive', clean' PROVE Settles'
    BY DEF Settles
  <2>1. alive /\ clean /\ ctrlQ = <<>> /\ ctrlQ' = <<>> /\ faults' = faults
    BY <1>2 DEF SessionLost, DropQueue, TypeOK, QueueOK
  <2>2. Faultless(faults)
    BY <2>1 DEF Settles
  <2> QED BY <2>1, <2>2 DEF Settles
<1>3. CASE Take
  BY <1>3, TakeSettles
<1>4. CASE Ack
  BY <1>4, AckSettles
<1>5. CASE Exit \/ Crash
  BY <1>5 DEF Exit, Crash, Settles
<1>6. CASE Restart
  <2>1. ctrlQ' = <<>>
    BY <1>6 DEF Restart, queueVars, TypeOK, QueueOK
  <2>2. Faultless(faults')
    BY <1>6, ControlAssumption, HealthyFaults DEF Restart, Boot
  <2> QED BY <2>1, <2>2 DEF Settles
<1> QED BY <1>1, <1>2, <1>3, <1>4, <1>5, <1>6 DEF Edge

LEMMA NextSettles == TypeOK /\ Settles /\ [Next]_vars => Settles'
<1>1. TypeOK /\ Settles /\ Generator => Settles'
  BY SettlesStays DEF Generator, Tick, Sample, queueVars
<1>2. Settles /\ UNCHANGED vars => Settles'
  BY SettlesStays DEF vars, queueVars
<1> QED BY <1>1, <1>2, EngineSettles, ApiSettles, EdgeSettles DEF Next

\* Once the edge has applied a reset and no fault was sent after it, no fault
\* is left, whatever was sent before.
THEOREM ResetClears == Spec => []ResetClearsAll
<1>1. TypeOK /\ Settles => ResetClearsAll
  <2> SUFFICES ASSUME TypeOK, Settles, alive, clean,
                      ctrlQ = <<>> \/ (taken /\ Len(ctrlQ) = 1)
               PROVE  Faultless(faults)
    BY DEF ResetClearsAll
  <2>1. \A i \in DOMAIN ctrlQ : ~(From <= i)
    BY DEF From, TypeOK, QueueOK
  <2> QED BY <2>1 DEF Settles
<1>2. Spec => []Settles
  BY InitSettles, NextSettles, TypeCorrect, PTL DEF Spec
<1> QED BY <1>1, <1>2, TypeCorrect, PTL

-----------------------------------------------------------------------------
(* The sequence numbers.                                                    *)

\* The frames are, for each well, the numbers up to its counter.
Numbered ==
  /\ \A p, q, n \in Nat :
       <<p, q, n>> \in frames <=> <<p, q>> \in DOMAIN wells /\ 1 <= n /\ n <= wells[<<p, q>>]
  /\ IsFiniteSet(frames) /\ generated = Cardinality(frames)

LEMMA SampleNumbers == TypeOK /\ Numbered /\ Sample => Numbered'
<1> SUFFICES ASSUME TypeOK, Numbered, Sample PROVE Numbered'
  OBVIOUS
<1>1. PICK w \in round.left : SeqOf(w) + 1 <= MaxSeq /\ Sampled(w)
  BY SampleIs
<1> DEFINE s == SeqOf(w) + 1
           f == <<w[1], w[2], s>>
<1>2. /\ w = <<w[1], w[2]>> /\ w[1] \in Nat /\ w[2] \in Nat
      /\ SeqOf(w) \in Nat /\ s \in Nat
      /\ DOMAIN wells' = DOMAIN wells \cup {w}
      /\ wells'[w] = s /\ \A v \in DOMAIN wells : v # w => wells'[v] = wells[v]
  BY <1>1, SampleWell, Zenon DEF TypeOK
<1>3. frames' = frames \cup {f} /\ generated' = generated + 1
  BY <1>1 DEF Sampled, Sample
<1>4. w \in DOMAIN wells => SeqOf(w) = wells[w]
  BY DEF SeqOf
<1>5. w \notin DOMAIN wells => SeqOf(w) = 0
  BY DEF SeqOf
<1>6. f \notin frames
  BY <1>2, <1>4 DEF Numbered
<1>7. IsFiniteSet(frames') /\ generated' = Cardinality(frames')
  BY <1>3, <1>6, FS_AddElement DEF Numbered
<1> HIDE DEF s
<1>8. ASSUME NEW p \in Nat, NEW q \in Nat, NEW n \in Nat
      PROVE  <<p, q, n>> \in frames' <=>
               <<p, q>> \in DOMAIN wells' /\ 1 <= n /\ n <= wells'[<<p, q>>]
  <2>1. <<p, q, n>> \in frames <=>
          <<p, q>> \in DOMAIN wells /\ 1 <= n /\ n <= wells[<<p, q>>]
    BY DEF Numbered
  <2>2. CASE <<p, q>> = w
    <3>1. <<p, q, n>> = f <=> n = s
      BY <1>2, <2>2
    <3>2. <<p, q, n>> \in frames <=> 1 <= n /\ n <= s - 1
      <4>1. CASE w \in DOMAIN wells
        BY <1>2, <1>4, <2>1, <2>2, <4>1 DEF s
      <4>2. CASE w \notin DOMAIN wells
        BY <1>2, <1>5, <2>1, <2>2, <4>2 DEF s
      <4> QED BY <4>1, <4>2
    <3>3. <<p, q>> \in DOMAIN wells' /\ wells'[<<p, q>>] = s
      BY <1>2, <2>2
    <3>4. s >= 1
      BY <1>2 DEF s
    <3> QED BY <1>2, <1>3, <3>1, <3>2, <3>3, <3>4
  <2>3. CASE <<p, q>> # w
    <3>1. <<p, q, n>> # f
      BY <1>2, <2>3
    <3>2. <<p, q>> \in DOMAIN wells' <=> <<p, q>> \in DOMAIN wells
      BY <1>2, <2>3
    <3>3. <<p, q>> \in DOMAIN wells => wells'[<<p, q>>] = wells[<<p, q>>]
      BY <1>2, <2>3
    <3> QED BY <1>3, <2>1, <3>1, <3>2, <3>3
  <2> QED BY <2>2, <2>3
<1> QED BY <1>7, <1>8 DEF Numbered

LEMMA NextNumbers == TypeOK /\ Numbered /\ [Next]_vars => Numbered'
<1> SUFFICES ASSUME TypeOK, Numbered, [Next]_vars PROVE Numbered'
  OBVIOUS
<1>1. CASE Sample
  BY <1>1, SampleNumbers
<1>2. CASE Restart
  <2>1. frames' = {} /\ generated' = 0 /\ DOMAIN wells' = {}
    BY <1>2 DEF Restart, Boot
  <2> QED BY <2>1, FS_EmptySet DEF Numbered
<1>3. CASE UNCHANGED genVars
  BY <1>3 DEF Numbered, genVars
<1>4. CASE Tick
  BY <1>4 DEF Tick, Numbered
<1>5. (Engine \/ Api) => UNCHANGED genVars
  BY DEF Engine, Start, Fire, FireRaises, Score, Api, Shutdown, Post, ApiConnect,
         ApiBreak, Pulse, Silent
<1>6. Edge => Restart \/ UNCHANGED genVars
  BY DEF Edge, Bind, SessionLost, Take, Ack, Exit, Crash
<1> QED BY <1>1, <1>2, <1>3, <1>4, <1>5, <1>6 DEF Next, Generator, vars

\* The generator never uses a number of a well twice in one process, and
\* never skips one, however the field changes.
THEOREM SeqsAreExact == Spec => []SeqsExact
<1>1. TypeOK /\ Numbered => SeqsExact
  <2> SUFFICES ASSUME TypeOK, Numbered, NEW f \in frames, f[3] > 1
               PROVE  <<f[1], f[2], f[3] - 1>> \in frames
    BY DEF SeqsExact, Numbered
  <2>1. f = <<f[1], f[2], f[3]>> /\ f[1] \in Nat /\ f[2] \in Nat /\ f[3] \in Nat
    BY DEF TypeOK, GeneratorOK
  <2>2. wells[<<f[1], f[2]>>] \in Nat \/ <<f[1], f[2]>> \notin DOMAIN wells
    BY ControlAssumption DEF TypeOK, GeneratorOK
  <2>3. <<f[1], f[2]>> \in DOMAIN wells /\ f[3] <= wells[<<f[1], f[2]>>]
    BY <2>1 DEF Numbered
  <2>4. f[3] - 1 \in Nat /\ 1 <= f[3] - 1 /\ f[3] - 1 <= wells[<<f[1], f[2]>>]
    BY <2>1, <2>2, <2>3
  <2> QED BY <2>1, <2>3, <2>4 DEF Numbered
<1>2. Init => Numbered
  BY FS_EmptySet DEF Init, Numbered
<1>3. Spec => []Numbered
  BY <1>2, NextNumbers, TypeCorrect, PTL DEF Spec
<1> QED BY <1>1, <1>3, TypeCorrect, PTL
=============================================================================
