-------------------------------- MODULE World ---------------------------------
(***************************************************************************)
(* The worlds of a batch (crates/sim/src/world.rs, agent.rs, batch.rs):    *)
(* episodes and their seeds, the clock, the order of one tick, the events  *)
(* of a policy step and what they stop, readings on their way through a    *)
(* sensor's delay line (crates/sensors/src/latency.rs).                    *)
(*                                                                         *)
(* Of the events, "terminal" stands for all those of Events::TERMINAL;     *)
(* motion, contacts and hits are the environment's choice.                 *)
(***************************************************************************)
EXTENDS Naturals, Sequences, FiniteSets

CONSTANTS
  Worlds, Agents,
  Kinematic,    \* agents that move by the kinematic model
  Sensing,      \* agents with a sensor
  Freezing,     \* agents of groups with disable_on_terminal
  Decimation,   \* ticks of a policy step
  KinematicDivider, PedestrianDivider,
  SensorDivider, Latency,
  Seeds         \* base seeds a reset may be given

ASSUME WorldAssumption ==
  /\ Kinematic \subseteq Agents /\ Sensing \subseteq Agents /\ Freezing \subseteq Agents
  /\ Decimation \in Nat \ {0} /\ KinematicDivider \in Nat \ {0} /\ PedestrianDivider \in Nat \ {0}
  /\ SensorDivider \in Nat \ {0} /\ Latency \in Nat

VARIABLES
  baseSeed,  \* world -> its base seed
  episode,   \* world -> episodes started from that seed
  tick,      \* world -> its clock
  agents,    \* world -> agent -> its state
  ticksLeft  \* world -> ticks left of the policy step
worldVars == <<baseSeed, episode, tick, agents, ticksLeft>>

OwnSeed == "own"
Keep == "keep"
NoReading == 0   \* nothing is measured before the first tick

(* An agent: whether it is frozen, the events of the policy step, whether  *)
(* it is a kinematic vehicle at rest under its target, its delay line.     *)
AgentState == [disabled : BOOLEAN, events : SUBSET {"terminal", "finished", "disabled"},
               resting : BOOLEAN, queue : Seq(Nat), current : Nat]
Fresh == [disabled |-> FALSE, events |-> {}, resting |-> FALSE,
          queue |-> <<>>, current |-> NoReading]

WorldInit ==
  /\ baseSeed = [w \in Worlds |-> OwnSeed] /\ episode = [w \in Worlds |-> 1]
  /\ tick = [w \in Worlds |-> 0] /\ ticksLeft = [w \in Worlds |-> 0]
  /\ agents = [w \in Worlds |-> [i \in Agents |-> Fresh]]

(* New episodes in the worlds of the mask, whose agents are in the state   *)
(* given: the first episode of the seed given, or the next one.            *)
ResetWorlds(state, mask, seed) ==
  /\ baseSeed' = [w \in Worlds |-> IF w \in mask /\ seed # Keep THEN seed ELSE baseSeed[w]]
  /\ episode' = [w \in Worlds |->
       IF w \notin mask THEN episode[w] ELSE IF seed # Keep THEN 1 ELSE episode[w] + 1]
  /\ tick' = [w \in Worlds |-> IF w \in mask THEN 0 ELSE tick[w]]
  /\ agents' = [w \in Worlds |->
       IF w \in mask THEN [i \in Agents |-> Fresh] ELSE state[w]]

-----------------------------------------------------------------------------
(* A step starts over with the events; actions and drivers may turn a      *)
(* vehicle that rests under its target to another one.                     *)
Started(a, turned) ==
  [a EXCEPT !.events = IF a.disabled THEN {"disabled"} ELSE {}, !.resting = @ /\ ~turned]

StartStep ==
  \E turned \in [Worlds -> SUBSET Kinematic] :
    /\ \A w \in Worlds : \A i \in turned[w] : agents[w][i].resting
    /\ agents' = [w \in Worlds |-> [i \in Agents |-> Started(agents[w][i], i \in turned[w])]]
    /\ ticksLeft' = [w \in Worlds |-> Decimation]

(* Whether the agent's state moves on in the tick after t: a kinematic     *)
(* vehicle only at its own steps, and not while it rests.                  *)
Moves(i, a, t) == i \in Kinematic => (t + 1) % KinematicDivider = 0 /\ ~a.resting

(* After it moved: stopped by a terminal event (or, whatever the group's   *)
(* setting, because its state is not finite), else on to the next goal.    *)
Settled(i, a, reach, broken) ==
  IF "terminal" \notin a.events
    THEN [a EXCEPT !.events = @ \cup (IF reach THEN {"finished"} ELSE {})]
    ELSE IF i \in Freezing \/ broken
           THEN [a EXCEPT !.disabled = TRUE, !.events = @ \cup {"disabled"}] ELSE a

(* pre_step and post_step of one agent: bad, it ran into something or      *)
(* broke; still, the kinematic step changed nothing.                       *)
Stepped(i, a, t, bad, reach, broken, still) ==
  LET noted == [a EXCEPT !.events = @ \cup (IF bad THEN {"terminal"} ELSE {})]
  IN  IF a.disabled THEN a
      ELSE IF ~Moves(i, a, t) THEN noted
      ELSE Settled(i, [noted EXCEPT !.resting = i \in Kinematic /\ still], reach, broken)

(* The crowd's update comes after all agents': a hit is only noted.        *)
Struck(a, hit) == [a EXCEPT !.events = @ \cup (IF hit /\ ~a.disabled THEN {"terminal"} ELSE {})]

Measured(a, t) == IF t % SensorDivider = 0 THEN [a EXCEPT !.queue = Append(@, t)] ELSE a

(* Slip: one reading is held back to the next measurement.                 *)
PolledAtMeasurement(a, t) ==
  IF t % SensorDivider = 0 /\ a.queue # <<>> /\ Head(a.queue) + Latency <= t
    THEN [a EXCEPT !.current = Head(a.queue), !.queue = Tail(@)] ELSE a

(* Every reading due leaves the delay line; the last one is the one shown. *)
Polled(a, t) ==
  LET due == {k \in DOMAIN a.queue : \A j \in 1 .. k : a.queue[j] + Latency <= t}
      n == Cardinality(due)
  IN  IF n = 0 THEN a
      ELSE [a EXCEPT !.current = a.queue[n], !.queue = SubSeq(@, n + 1, Len(@))]

Sensed(i, a, t) == IF a.disabled \/ i \notin Sensing THEN a ELSE Polled(Measured(a, t), t)

(* One tick of a world: all agents move, then the clock, the crowd if due, *)
(* then the sensors.                                                       *)
AfterTick(w, bad, reach, broken, still, hit) == [i \in Agents |->
  Sensed(i, Struck(Stepped(i, agents[w][i], tick[w], i \in bad, i \in reach, i \in broken, i \in still),
                   i \in hit), tick[w] + 1)]

TickWorld(w) ==
  LET going == {i \in Agents : ~agents[w][i].disabled}
      moving == {i \in going : Moves(i, agents[w][i], tick[w])}
      crowd == (tick[w] + 1) % PedestrianDivider = 0
  IN  /\ ticksLeft[w] > 0
      /\ \E bad \in SUBSET going :
         \E reach \in SUBSET (moving \ bad), broken \in SUBSET ((moving \cap bad) \ Freezing),
            still \in SUBSET (moving \cap Kinematic), hit \in SUBSET (IF crowd THEN going \ bad ELSE {}) :
           agents' = [agents EXCEPT ![w] = AfterTick(w, bad, reach, broken, still, hit)]
      /\ tick' = [tick EXCEPT ![w] = @ + 1]
      /\ ticksLeft' = [ticksLeft EXCEPT ![w] = @ - 1]
      /\ UNCHANGED <<baseSeed, episode>>

(* BatchSim::disable.                                                      *)
Disabled(state, stop) ==
  [w \in Worlds |-> [i \in Agents |-> IF i \in stop[w] THEN [state[w][i] EXCEPT !.disabled = TRUE]
                                      ELSE state[w][i]]]

-----------------------------------------------------------------------------
(* A sensor shows the newest reading whose latency has passed, no older    *)
(* one, and none measured before the reset, although readings are still in *)
(* the delay line then; a frozen agent's sensors stand still.              *)
Newest(t) == {m \in 1 .. t : m % SensorDivider = 0 /\ m + Latency <= t}
ReadingsOnTime == \A w \in Worlds, i \in Sensing :
  LET shown == agents[w][i].current
  IN  /\ shown \in Newest(tick[w]) \cup {NoReading}
      /\ ~agents[w][i].disabled => \A m \in Newest(tick[w]) : m <= shown
=============================================================================
