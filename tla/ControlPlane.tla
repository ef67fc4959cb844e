---------------------------- MODULE ControlPlane ----------------------------
(***************************************************************************)
(* The control plane: the scenario engine of the api                       *)
(* (services/api/app/scenarios.py) and its operator route publish commands *)
(* to a fanout exchange; the edge takes them from an exclusive queue       *)
(* (crates/coldbore-edge/src/control.rs) into its fault state (faults.rs), *)
(* which the generator (sim.rs) reads on every tick.  The edge process may *)
(* die, by command or not, and is restarted by scripts/run-edge.sh.        *)
(*                                                                         *)
(* Rates are abstracted to small numbers, timers to "at any time".  The    *)
(* broker, the network and the clock are external.                         *)
(***************************************************************************)
EXTENDS Integers, Sequences, FiniteSets

CONSTANTS
  Timelines,     \* the timelines of the scenarios: sequences of commands
  Posts,         \* the commands the fault console may post
  BootPads, BootWells,  \* CB_PADS, CB_WELLS_PER_PAD
  MaxPads, MaxWells, MaxTotalWells,  \* bounds of a topology command
  MaxRuns, MaxPosts, MaxBreaks, MaxCrashes,  \* budgets of the environment
  MaxSeq         \* bound on the samples of a well in one process

Grid  == (1..MaxPads) \X (1..MaxWells)
NoRun == [phase |-> "idle", todo |-> <<>>, fired |-> 0]
Link(p, state)    == [cmd |-> "link", pad |-> p, up |-> (state = "up")]
Dup(rate)         == [cmd |-> "dup", rate |-> rate]
Reorder(window)   == [cmd |-> "reorder", window |-> window]
Rate(multiplier)  == [cmd |-> "rate", multiplier |-> multiplier]
Topology(p, w)    == [cmd |-> "topology", pads |-> p, wells |-> w]
Kill(service)     == [cmd |-> "kill", service |-> service]
Reset             == [cmd |-> "reset"]

MaxWindow     == 4096  \* MAX_REORDER_WINDOW
MaxMultiplier == 100   \* MAX_RATE_MULTIPLIER

(* Bounds, checked by the api before a publish and by the edge on receipt. *)
Valid(c) ==
  /\ c.cmd = "dup"     => c.rate \in 0..1
  /\ c.cmd = "reorder" => c.window \in 0..MaxWindow
  /\ c.cmd = "rate"    => c.multiplier \in 1..MaxMultiplier
  /\ c.cmd = "topology" => /\ c.pads \in 1..MaxPads /\ c.wells \in 1..MaxWells
                           /\ c.pads * c.wells <= MaxTotalWells

Command ==
  [cmd : {"link"}, pad : Nat, up : BOOLEAN]
    \cup [cmd : {"dup"}, rate : Nat] \cup [cmd : {"reorder"}, window : Nat]
    \cup [cmd : {"rate"}, multiplier : Nat]
    \cup [cmd : {"topology"}, pads : Nat, wells : Nat]
    \cup [cmd : {"kill"}, service : {"edge", "ingest"}] \cup [cmd : {"reset"}]

ASSUME ControlAssumption ==
  /\ BootPads \in 1..MaxPads /\ BootWells \in 1..MaxWells
  /\ MaxPads \in Nat /\ MaxWells \in Nat
  /\ \A n \in {MaxRuns, MaxPosts, MaxBreaks, MaxCrashes, MaxSeq} : n \in Nat
  /\ Timelines \subseteq Seq(Command) /\ Posts \subseteq Command
  /\ \A t \in Timelines : \A i \in DOMAIN t : Valid(t[i])

VARIABLES
  run,       \* Engine.active: phase of the task, steps left, steps_fired
  apiUp,     \* the api's connection to the broker
  heard,     \* broker.latest holds a snapshot of the edge under 5 s old
  alive,     \* the edge process runs
  bound,     \* its control queue is declared and bound
  ctrlQ,     \* the control queue, a message unacknowledged at its head
  taken,     \* the head has been applied and its ack not yet sent
  faults,    \* FaultBox
  wells,     \* the seq counter of each well created in this process
  round,     \* the (pad, well)s left to sample, with the field of the tick
  generated, \* counters.generated
  frames,    \* history: the <<pad, well, seq>> this process has generated
  clean,     \* history: nothing the edge was sent since its last reset or
             \* its boot injects a fault, and none of it was lost
  budget

apiVars   == <<run, apiUp, heard>>
queueVars == <<bound, ctrlQ, taken>>
genVars   == <<wells, round, generated, frames>>
vars == <<apiVars, alive, queueVars, faults, genVars, clean, budget>>
-----------------------------------------------------------------------------
Healthy(p, w) == [dup |-> 0, reorder |-> 0, rate |-> 1, pads |-> p, wells |-> w,
                  links |-> [q \in 1..p |-> TRUE]]

WithLink(links, p, up) ==
  [q \in DOMAIN links \cup {p} |-> IF q = p THEN up ELSE links[q]]

(* Mutant: a reset that keeps the entries of pads out of the field. *)
ResetKeepsDropped(f) ==
  [Healthy(f.pads, f.wells) EXCEPT
     !.links = [q \in DOMAIN f.links \cup 1..f.pads |->
                  q <= f.pads \/ f.links[q]]]

AfterReset(f) == Healthy(f.pads, f.wells)

(* A resize: pads gained come up, the others keep their entry. *)
WithField(f, c) ==
  [f EXCEPT !.pads = c.pads, !.wells = c.wells,
            !.links = [q \in DOMAIN @ \cup 1..c.pads |->
                         IF q \in DOMAIN @ THEN @[q] ELSE TRUE]]

(* FaultBox::apply; a kill is not for the fault state. *)
Apply(f, c) ==
  CASE c.cmd = "link"     -> [f EXCEPT !.links = WithLink(@, c.pad, c.up)]
    [] c.cmd = "dup"      -> [f EXCEPT !.dup = c.rate]
    [] c.cmd = "reorder"  -> [f EXCEPT !.reorder = c.window]
    [] c.cmd = "rate"     -> [f EXCEPT !.rate = c.multiplier]
    [] c.cmd = "topology" -> WithField(f, c)
    [] c.cmd = "reset"    -> AfterReset(f)
    [] OTHER              -> f

Spend(what) == budget[what] > 0 /\ budget' = [budget EXCEPT ![what] = @ - 1]

Boot ==
  /\ faults' = Healthy(BootPads, BootWells)
  /\ wells' = [w \in {} |-> 0] /\ round' = [field |-> <<BootPads, BootWells>>, left |-> {}]
  /\ generated' = 0 /\ frames' = {} /\ clean' = TRUE

Init ==
  /\ run = NoRun /\ apiUp = FALSE /\ heard = FALSE
  /\ alive = TRUE /\ bound = FALSE /\ ctrlQ = <<>> /\ taken = FALSE
  /\ faults = Healthy(BootPads, BootWells)
  /\ wells = [w \in {} |-> 0] /\ round = [field |-> <<BootPads, BootWells>>, left |-> {}]
  /\ generated = 0 /\ frames = {} /\ clean = TRUE
  /\ budget = [runs |-> MaxRuns, posts |-> MaxPosts, breaks |-> MaxBreaks,
               crashes |-> MaxCrashes]
-----------------------------------------------------------------------------
(***************************************************************************)
(* The api: broker.py, main.py, scenarios.py.                              *)
(***************************************************************************)
(* The fanout exchange: the edge's queue gets the command if it is bound. *)
Route(c) ==
  /\ ctrlQ' = IF bound THEN Append(ctrlQ, c) ELSE ctrlQ
  /\ clean' = IF ~bound THEN clean
              ELSE c = Reset \/ (clean /\ c.cmd \in {"topology", "kill"})

(* Engine.start: refused while a run is active or the edge does not pulse. *)
(* (The pulse of the ingest and the database are taken to be there.)       *)
Start(t) ==
  /\ run = NoRun /\ heard
  /\ Spend("runs")
  /\ run' = [phase |-> "firing", todo |-> t, fired |-> 0]
  /\ UNCHANGED <<apiUp, heard, alive, queueVars, faults, genVars, clean>>

(* The next command of the run: a step, or the reset after the last one. *)
NextCommand == IF run.todo = <<>> THEN Reset ELSE Head(run.todo)

(* The command is published; after the reset the task waits and scores. *)
Fire ==
  /\ run.phase = "firing" /\ apiUp
  /\ Route(NextCommand)
  /\ run' = IF run.todo = <<>> THEN [run EXCEPT !.phase = "settling"]
                               ELSE [run EXCEPT !.todo = Tail(@), !.fired = @ + 1]
  /\ UNCHANGED <<apiUp, heard, alive, bound, taken, faults, genVars, budget>>

(* A publish raises when the connection is gone, before or after the       *)
(* broker took the message.  The task logs it and clears `active`: no      *)
(* reset is published on this path.                                        *)
FireRaises ==
  /\ run.phase = "firing" /\ ~apiUp
  /\ \/ Route(NextCommand)
     \/ UNCHANGED <<ctrlQ, clean>>
  /\ run' = NoRun
  /\ UNCHANGED <<apiUp, heard, alive, bound, taken, faults, genVars, budget>>

(* Mutant: the run ends without clearing `active`. *)
ScoreKeepsActive ==
  /\ run.phase = "settling"
  /\ UNCHANGED vars

(* The settle window is over: the run is scored and persisted, or failed. *)
Score ==
  /\ run.phase = "settling"
  /\ run' = NoRun
  /\ UNCHANGED <<apiUp, heard, alive, queueVars, faults, genVars, clean, budget>>

(* The api process stops.  lifespan closes the broker connection before    *)
(* the event loop cancels the run, so the reset of the CancelledError arm  *)
(* raises and is suppressed.                                               *)
Shutdown ==
  /\ Spend("crashes")
  /\ run' = NoRun /\ apiUp' = FALSE /\ heard' = FALSE
  /\ UNCHANGED <<alive, queueVars, faults, genVars, clean>>

(* POST /api/control: a command out of bounds is refused, and every        *)
(* command fails while the broker is away.                                 *)
Post(c) ==
  /\ apiUp /\ Valid(c)
  /\ Spend("posts")
  /\ Route(c)
  /\ UNCHANGED <<apiVars, alive, bound, taken, faults, genVars>>

ApiConnect ==
  /\ ~apiUp /\ apiUp' = TRUE
  /\ UNCHANGED <<run, heard, alive, queueVars, faults, genVars, clean, budget>>

ApiBreak ==
  /\ apiUp /\ apiUp' = FALSE
  /\ Spend("breaks")
  /\ UNCHANGED <<run, heard, alive, queueVars, faults, genVars, clean>>

(* A metrics snapshot of the edge arrives, or has not for 5 s. *)
Pulse ==
  /\ apiUp /\ bound /\ ~heard /\ heard' = TRUE
  /\ UNCHANGED <<run, apiUp, alive, queueVars, faults, genVars, clean, budget>>

Silent ==
  /\ heard /\ ~(apiUp /\ bound) /\ heard' = FALSE
  /\ UNCHANGED <<run, apiUp, alive, queueVars, faults, genVars, clean, budget>>
-----------------------------------------------------------------------------
(***************************************************************************)
(* The edge: control.rs, faults.rs, sim.rs, main.rs.                       *)
(***************************************************************************)
(* The queue is exclusive and auto-deleted: it ends with its connection. *)
DropQueue == ctrlQ' = <<>>

Bind ==
  /\ alive /\ ~bound
  /\ bound' = TRUE
  /\ UNCHANGED <<apiVars, alive, ctrlQ, taken, faults, genVars, clean, budget>>

(* The uplink's connection is lost, and the control consumer with it. *)
SessionLost ==
  /\ bound
  /\ Spend("breaks")
  /\ bound' = FALSE /\ taken' = FALSE /\ DropQueue
  /\ clean' = (clean /\ ctrlQ = <<>>)
  /\ UNCHANGED <<apiVars, alive, faults, genVars>>

Take ==
  /\ bound /\ ctrlQ # <<>> /\ ~taken
  /\ Head(ctrlQ) # Kill("edge")
  /\ faults' = IF Valid(Head(ctrlQ)) THEN Apply(faults, Head(ctrlQ)) ELSE faults
  /\ taken' = TRUE
  /\ UNCHANGED <<apiVars, alive, bound, ctrlQ, genVars, clean, budget>>

Ack ==
  /\ taken
  /\ ctrlQ' = Tail(ctrlQ) /\ taken' = FALSE
  /\ UNCHANGED <<apiVars, alive, bound, faults, genVars, clean, budget>>

(* process::exit(3), whether or not the ack has left. *)
Exit ==
  /\ bound /\ ctrlQ # <<>> /\ Head(ctrlQ) = Kill("edge")
  /\ alive' = FALSE /\ bound' = FALSE /\ DropQueue
  /\ UNCHANGED <<apiVars, taken, faults, genVars, clean, budget>>

Crash ==
  /\ alive
  /\ Spend("crashes")
  /\ alive' = FALSE /\ bound' = FALSE /\ taken' = FALSE /\ DropQueue
  /\ UNCHANGED <<apiVars, faults, genVars, clean>>

(* run-edge.sh starts the process again: healthy, the boot field, a new    *)
(* epoch with every seq counter at zero.                                   *)
Restart ==
  /\ ~alive /\ alive' = TRUE
  /\ Boot
  /\ UNCHANGED <<apiVars, queueVars, budget>>

(* Mutant: the wells outside the field are discarded. *)
TickDiscarding ==
  /\ alive /\ round.left = {}
  /\ LET f == <<faults.pads, faults.wells>>
         S == (1..f[1]) \X (1..f[2]) IN
       /\ round' = [field |-> f, left |-> S]
       /\ wells' = [w \in DOMAIN wells \cap S |-> wells[w]]
  /\ UNCHANGED <<apiVars, alive, queueVars, faults, generated, frames,
                 clean, budget>>

(* A tick of the generator reads the field once for all its samples; the   *)
(* later samples of a tick reuse the field it read.                        *)
Tick ==
  /\ alive /\ round.left = {}
  /\ \E f \in {<<faults.pads, faults.wells>>, round.field} :
       round' = [field |-> f, left |-> (1..f[1]) \X (1..f[2])]
  /\ UNCHANGED <<apiVars, alive, queueVars, faults, wells, generated, frames,
                 clean, budget>>

(* The wells in the order of the two loops. *)
NextWell(w) ==
  \A v \in round.left : w[1] < v[1] \/ (w[1] = v[1] /\ w[2] <= v[2])

(* A well is created on demand and never discarded. *)
SeqOf(w) == IF w \in DOMAIN wells THEN wells[w] ELSE 0

(* WellSim::step, counted and handed to the uplink. *)
Sample ==
  /\ alive
  /\ \E w \in round.left :
       LET seq == SeqOf(w) + 1 IN
       /\ NextWell(w) /\ seq <= MaxSeq
       /\ wells' = [v \in DOMAIN wells \cup {w} |-> IF v = w THEN seq ELSE wells[v]]
       /\ frames' = frames \cup {<<w[1], w[2], seq>>}
       /\ round' = [round EXCEPT !.left = @ \ {w}]
  /\ generated' = generated + 1
  /\ UNCHANGED <<apiVars, alive, queueVars, faults, clean, budget>>
-----------------------------------------------------------------------------
Engine == (\E t \in Timelines : Start(t)) \/ Fire \/ FireRaises \/ Score
Api    == Shutdown \/ (\E c \in Posts : Post(c)) \/ ApiConnect \/ ApiBreak
          \/ Pulse \/ Silent
Edge   == Bind \/ SessionLost \/ Take \/ Ack \/ Exit \/ Crash \/ Restart
Generator == Tick \/ Sample

Next == Engine \/ Api \/ Edge \/ Generator
Spec == Init /\ [][Next]_vars

(* Tasks and reconnect loops go on; nothing is promised of the operator.   *)
FairSpec ==
  /\ Spec
  /\ WF_vars(Fire \/ FireRaises \/ Score) /\ WF_vars(ApiConnect)
  /\ WF_vars(Bind) /\ WF_vars(Take \/ Ack \/ Exit) /\ WF_vars(Restart)
-----------------------------------------------------------------------------
(* Types of the variables, and what a fault state looks like.              *)
FaultState(f) ==
  /\ f = [dup |-> f.dup, reorder |-> f.reorder, rate |-> f.rate, pads |-> f.pads,
          wells |-> f.wells, links |-> [q \in DOMAIN f.links |-> f.links[q]]]
  /\ f.pads \in 1..MaxPads /\ f.wells \in 1..MaxWells
  /\ 1..f.pads \subseteq DOMAIN f.links

EngineOK ==
  /\ run \in [phase : {"idle", "firing", "settling"}, todo : Seq(Command), fired : Nat]
  /\ apiUp \in BOOLEAN /\ heard \in BOOLEAN
  /\ budget \in [{"runs", "posts", "breaks", "crashes"} -> Nat]
QueueOK ==
  /\ alive \in BOOLEAN /\ bound \in BOOLEAN /\ taken \in BOOLEAN /\ clean \in BOOLEAN
  /\ ctrlQ \in Seq(Command)
  /\ bound => alive
  /\ taken => bound /\ ctrlQ # <<>> /\ Head(ctrlQ) # Kill("edge")
  /\ ~bound => ctrlQ = <<>>
GeneratorOK ==
  /\ DOMAIN wells \subseteq Grid /\ wells \in [DOMAIN wells -> 0..MaxSeq]
  /\ round \in [field : Grid, left : SUBSET Grid]
  /\ generated \in Nat /\ frames \subseteq Nat \X Nat \X Nat
TypeOK == EngineOK /\ QueueOK /\ FaultState(faults) /\ GeneratorOK

Faultless(f) == /\ f.dup = 0 /\ f.reorder = 0 /\ f.rate = 1
                /\ \A p \in DOMAIN f.links : f.links[p]

(* The end of every shift: once the edge has applied the reset (or has     *)
(* rebooted) and no fault command was sent after it, no fault is left,     *)
(* whatever was sent before, in any order with resizes of the field: a     *)
(* pad that comes back into the field has no old link fault.               *)
ResetClearsAll ==
  (alive /\ clean /\ (ctrlQ = <<>> \/ (taken /\ Len(ctrlQ) = 1)))
    => Faultless(faults)

(* Whatever the sequence of resizes, in mid-tick or not, the generator     *)
(* never uses a seq of a well twice in one process and never skips one:    *)
(* the frames are as many as it counted, and each has its predecessor.     *)
SeqsExact ==
  /\ generated = Cardinality(frames)
  /\ \A f \in frames : f[3] > 1 => <<f[1], f[2], f[3] - 1>> \in frames

(* A run always ends, so a refused start is never refused for ever.        *)
RunsEnd == run # NoRun ~> run = NoRun
=============================================================================
