# autonomousim: TLA+ specifications

Specifications of the concurrent, stateful and protocol parts of autonomousim,
model-checked with TLC on small instances and, where it says so, proved with
TLAPS for every instance. The physics (multibody dynamics, contacts, tyres,
aerodynamics, controllers as feedback laws) is continuous and stays outside; what
is specified is the control around it: who may do what when, what is kept, what
is lost and what must never be mixed up.

## The system

autonomousim is a Rust workspace (`src/crates/*`) with a Python package on top.

| component | state it keeps | operations | talks to |
|---|---|---|---|
| tile cache (`world/src/tiles.rs`) | map of entries under an RwLock, a OnceLock per tile, clock, per-thread recent lists, job queue | `tile`, `prefetch`, `reserve`, `evict`, background jobs | every query of every world of a batch, on any thread |
| live stream (`sim/src/stream.rs`) | connection snapshot (topics, `/meta`, episode, routes), one bounded queue per client, `closed` | `add_channel`, `write`, accept loop, send loops, `close` | the recorder above, viewers over TCP |
| recorder (`sim/src/record.rs`) | first error, episode counter, per-agent route and light caches | `on_reset`, `on_actions`, `on_tick`, `finish` | a sink: MCAP file or stream |
| stream viewer (`viewer/src/attach.rs`) | reader thread's connection and last error; live recording, status, last shown episode | `read`, `spawn`, `connect`, `poll` | the stream; the replay screen |
| ROS bridge (`ros/src/bridge.rs`) | simulated time offset, paused, reset requested, per-agent last command, fresh, holding | command poll, lockstep wait, hold, step, pause and reset services | one world; a DDS participant |
| map cache (`procgen/src/cache.rs`, `world/src/mapfile.rs`) | files under hashed names | load or generate, save through a temporary file | other threads and processes with the same directory |
| traffic signals (`world/src/signals.rs`, `sim/src/traffic.rs`) | pure function of time; per-agent road track with a pending red light | phase plans, light shown to an approach, walk lights, red-light events | road traffic, agents, walkers |
| junction driving (`sim/src/traffic_driver.rs`) | grants entered in a lane index, rebuilt every step; per-driver waits | occupy, grant, may-enter, release, deadlock rule | all road users of a world |
| traffic drivers (`sim/src/traffic_driver.rs`) | per-driver movement, lane and change under way; a bus's loop, stop served and dwell | change lanes, give up a turn, approach, stand at and miss a stop, draw a loop | the lane index of a world |
| world and batch (`sim/src/world.rs`, `batch.rs`, `interaction.rs`) | time, steps, per-agent events, disabled agents, hybrid traffic promotions | `step`, `reset`, `disable`, `refresh` | everything above |
| pedestrians (`sim/src/pedestrians.rs`) | per-walker mode, route, crossing in progress | spawn, walk, wait, cross, yield, dodge | signals, vehicles |
| road driver (`sim/src/driver.rs`, `drive.rs`) | gear of a multi-point turn, progress, stuck timers | plan, follow, K-turn, give up | agents |
| sensors (`sensors/src/*`) | queue of delayed samples, bias processes | sample, deliver, reset | agents' observations |
| powertrain (`vehicles/src/ground/powertrain.rs`) | gear, clutch, shift timer | shift up, shift down, reverse | vehicle physics |
| Python environments (`python/autonomousim`) | episodes per world, autoreset flags | `reset`, `step` | batch |
| physics, controllers, procedural generation, scene, renderer, CLI | | pure computations | |

## Hard behaviours

* Worlds of a batch are stepped by a thread pool and share one tile cache with
  background threads; every interleaving of look-up, insertion, generation and
  eviction must leave one entry for each tile and a bounded cache.
* A viewer joins a running simulation at any record, is dropped when its queue
  is full, and comes back; a run ends and another one starts on the same port.
* In lockstep the bridge waits for commands, while a pause or a reset may come
  from a service at any moment of the wait.
* Drivers at a junction decide one after the other in one step on what the
  others did before them, and may all be waiting for each other; drivers on a road
  of several lanes decide on a snapshot, and may stand in each other's way at its end.
* What is decided at one moment is about lights of another one: a vehicle in the
  middle of a junction, a pedestrian half over a crossing, a driver at amber.
* An episode is kept in five places (the world's clock and frozen agents in Rust,
  the task's steps, the environment's active learners, lengths and returns in
  Python), and a step of a batch ends some worlds' episodes and not others'.

What makes the components correct, first those that are modelled:

* **Tile cache.** One entry a tile, generated once however many threads want it;
  the size bounded by the capacity and what is under way; no thread stuck; a
  recent list may outlive an eviction, but a thread never has two copies of a tile.
* **Live stream.** Whoever connects gets a start and then every record in order
  until it is cut off; a slow or dead viewer costs nobody else a record and the
  simulation no time; `close` wakes the accept thread and returns.
* **Stream viewer.** A recording never mixes episodes or scenarios, whatever the
  connection does; once caught up it shows the world as it is; it follows a stream
  that stays up, however often it lost it before.
* **ROS bridge.** Agents do their latest command while it is recent and hold
  otherwise; the clock is continuous over episodes; what the services answered
  is kept; lockstep waits for everybody and never for ever.
* **Map cache.** An entry is whole whenever somebody may read it.
* **Traffic signals.** Movements that cross or merge are never let go together,
  the all-red time lies between them, also at the ends of the cycle; the time left
  that drivers and pedestrians plan with is what is left; `RED_LIGHT` is raised for
  a red light, when the movement is known, and for every one that was run.
* **Junction driving.** Two vehicles are never in one conflict zone, nobody crosses
  the line at red but who cannot stop any more, and everybody gets through in the end.
* **Traffic drivers.** A road of several lanes empties, also when drivers stand in
  the lane the other one needs; a bus stands at every stop of its line in every
  round, or counts it as missed.
* **Pedestrians.** Drivers know of whoever is on the carriageway, and who starts on
  the walk light is over before the cross traffic is let go.
* **World and batch.** A reset leaves nothing of the episode before; what happens
  in one world of a batch is the same on any number of threads; an agent that is to
  stop stops.
* **Sensors.** Delayed readings are released in order, at their time, and never
  across a reset.
* **Python environments.** Every learner is told its end once, what a step returns
  is of one episode, and Rust goes on with exactly the learners Python goes on with.
* **Road driver** (not modelled). A multi-point turn ends, in its turn or by giving
  up.
* **Powertrain** (not modelled). The gear stays within the box and does not hunt.

## Modules

Comments headed "Slip:" mark operators that no specification uses: plausible
mistakes in the definition that follows them. Put in its place, each makes the
property it is paired with in `PROJECT.json` fail, which shows that the property
depends on that line of the code.

### TileCache (`crates/world/src/tiles.rs`)

`TiledMap::tile`, `prefetch`, `reserve`, `evict` and the jobs of
`prefetch_queue`. A thread is at a `pc`:

    tile()     idle -Tile-> recent -RecentHit-> idle
                            recent -RecentMiss-> lookup -Lookup-> touch | insert
                            insert -Insert-> touch -Touch-> get
                            get -GetReady-> got | -StartGenerate-> generate -Generate-> got
                            got -StartEvict-> evict -EvictOne*-> -EvictDone-> got -Return-> idle
    prefetch() idle -Prefetch-> send -Send-> idle
    job        idle -Take-> get ... got -Freshen-> fresh -StartEvict-> evict -EvictDone-> idle

A step ends where another thread can come in: after an atomic load or store, a
hold of the read lock, an iteration of the eviction loop. The loop holds the
write lock (`lock`), but cells are filled and entries touched without it, which
is why an iteration is a step of its own. `entries` holds every `Entry` that was
ever made, as an `Arc` lives on in a recent list or a queued job after its
eviction; `cache` is the map. The clock is loaded before the recent list is
searched, so a recent hit may write a use that is older than the present one, as
in the code.

Two tiles of the same last use are evicted by index here, as `min_by_key` breaks
the tie on the key; with `used` written without a lock two entries can have the
same use, so "least recently used" is not exact and no property claims it.

### Recorder, Broadcast, LiveStream (`crates/sim/src/record.rs`, `stream.rs`)

`Recorder` is the part of the recorder that the stream sees: attaching, `start`
and `on_reset`, `on_tick` with a replaced route or due states, `finish`, the end
of the process. One call of a handler writes several records, and the sink's
other threads come in between; `script` is what the present call has still to
write, and `live()` is asked when the call begins.

`LiveStream` adds the sink: `add_channel` and `write` under the `Shared` lock
(`AddChannel`, `WriteMeta`, `WriteEpisode`, `WriteRoute`, `WriteOther`), the
accept thread, each connection's
`send_loop` (`Recv` .. `Flushed`) with its bounded queue and `BufWriter`, and TCP
with a window, cut or closed at any moment. A record is named by its place in
`log`, the history of everything written.

The accept thread takes a connection from the backlog (`AcceptReturns`,
`AcceptReturnsOwn`), holds it until it has the lock, and then serves it (`Accept`,
`AcceptUnserved`) or, finding `closed`, ends, and the listener and its backlog with it
(`AcceptEnds`). `close` is three steps: `Close` stores `closed` under the lock,
`CloseConnects` makes the sink's own connection, whose failure the code ignores, and
`CloseJoins` waits for the thread. So a viewer's connection may be in the backlog or in
the thread's hands when `closed` is stored, and `close` may go on before its own is
taken. If its own fails and nobody connects, `close` does not return, in the model as
in the code; nothing in the repository says otherwise.

`Broadcast` is the abstract promise: a viewer that joins is given
`Start(run, n)` - the header, the channels, the last `/meta`, the last `/episode`
and the `/route`s since - and then every further record in order, until it is
given up. `LiveStream` implements it (`IsFairFeed`) under the mapping

    log, run, since, got  as they are
    served                the clients whose connection is up

so that accepting a connection is `Join`, a full queue or a failure is a `Drop`,
a read at the other end is a `Deliver`, and all else stutters. The promise
includes fairness: whom the stream holds on to gets everything.

`Listings` has the one operator both sides need, a set of records in the log's
order, as a recursive function.

### LiveViewer (`crates/viewer/src/attach.rs`, `Recording::push`)

Composes `Recorder` with the promise of `Broadcast` (not with `LiveStream`'s
queues: the refinement is what allows that), the reader thread with its
reconnections (`Dial`, `Refused`, `Read`, `ReadEnds`), the feed it sends, and
`connect` and `poll` in the viewer. The connection delivers the next promised
record or is given up at any record. Connections lost while the stream goes on are
counted (`losses`) and bounded; refusals, and losses by the end of the stream, are not.

### Bridge (`crates/ros/src/bridge.rs`)

One thread runs `step` for ever; clients send commands and call the services
between any two of its reads. `pc` walks through one call:

    idle -Begin-> twists -> actions -> resets -> pauses -> check
    check -PollOver | WaitTimesOut-> turn,  check -WaitAgain-> twists
    turn -PausedReset | PausedTurn-> idle,  turn -HoldIdle-> held
    held -StepWorld-> stepped -EndStep-> idle

`taken`, `promised` and `timedOut` are history variables: no guard reads them.
Whether the bridge runs in lockstep is chosen in `Init`. Times are counted in
policy steps.

### MapCache (`crates/procgen/src/cache.rs`, `crates/world/src/mapfile.rs`)

One entry of the cache directory. Callers are threads of processes; a file is an
inode and the set of its blocks written, so that a renamed or emptied file is
still the one another thread writes to. `Tiled` tells a tiled map's coarse layer
(`wild_tiled`, a temporary name by process) from a whole map (`save`, a
temporary name by process and number).

### Signals (`crates/world/src/signals.rs`, `Signals` of `crates/sim/src/traffic.rs`)

The controller as a function of time: `Phases` is `build` (straight and right
movements before left ones, each into the first phase where it meets nothing
exclusive, protected phases first, green times from the target cycle),
`LightLeft` and `Walk` are what a movement and a crossing show and for how long.
The only state is `now`, the time into the cycle with the episode's offset; a tick
is a second. Which approaches oppose each other (`Groups`) and which connectors
cross (`Exclusive`) is geometry and given.

### RoadTrack (`RoadTrack` of `crates/sim/src/traffic.rs`)

Follows one vehicle: `Track` is `update` with the place the vehicle has come to
and whether it passed near the end of its lane. `pending` is the crossing whose
movement is not known yet. `crossing` and `redAgo` are history variables of the
properties. The vehicle may stand, turn round in the box, go back over the line
and leave the road; it is not driven by the rules.

### Crowd (`crates/sim/src/pedestrians.rs`)

One pedestrian on a way with a signalized crossing. `CrowdUpdate` is `update` for
it: the timers or `steer` (`Onward`, `AtCurb`, `Drawn`, `Decide`), a stride, a hit
by a vehicle, `depart`, and `crossing_users`. Places are seconds of walking; how
far it comes in a second (`Strides`), whether traffic leaves a gap and who is
attentive or jaywalks are free choices. `lawful` and `freely` are history variables.

### Junction (the junction rules of `crates/sim/src/traffic_driver.rs`)

In a step each driver decides in agent order (`DecideNothing`, `DecideEnter`,
`DecideHold`: `junction` and `may_enter`), entering its grant into the lane index
at once, and then `Move` moves all of them and makes the next step's index. Who
waited is noted before the decisions (`index.waited`), as in the code. Distances are
lengths of a vehicle, a step is a second, and every pair of exclusive connectors
has its zone at the same distance (`ZoneIn` .. `ZoneOut`). `late` and `full` are the
environment's: a driver held up by something else, and no room beyond a connector.
Comfortable and hard braking take 1 and 2 off the speed a second.

`Lights` is the step of these drivers with the lights' clock; `caught` is a history
variable, where a driver was when amber began and how fast, and whether it has slowed
since. Drivers may come at speeds at which amber (three seconds) is too short to stop in.

### LaneChanges (the lane changes of `crates/sim/src/traffic_driver.rs`)

Cars on a road whose lanes lead to different movements. In a step (`Road`) all decide
on one snapshot, the lane index, and then move: to the lane of the next movement as
soon as MOBIL's safety and `MIN_CHANGE` allow (`Needed`), away from it only long
before the end (`Wanted`), at a speed that leaves room to every leader in both lanes of
a change under way (`SpeedOf`, IDM by its distances). Who stands at the end of a lane
that does not lead to its movement for `STUCK` takes what its lane offers (`Plans`).
`lates` is the environment's: a car held up by something else.

### Bus (`BusRoute` of `crates/sim/src/traffic_driver.rs`)

A bus on a loop of `Line` connectors, some with a stop on the lane after them:
`bus_stop` (`Drive`, `Approach`, `StartDwelling`, `DwellOn`, `Missed`), `locate` at a
lane's end (`Take`), and a loop drawn again when the next movement cannot be made
(`Redraw`). `told` is a history variable: the stop of this lane was served or counted
as missed.

### World, Episodes (`crates/sim/src/world.rs`, `agent.rs`, `batch.rs`, `crates/sensors/src/latency.rs`, `python/autonomousim/multiagent.py`)

`World` has the episodes and seeds, the clock, and one tick in its order: all
agents' `pre_step` and `post_step` (`Stepped`, with the check that stops an agent in
`Settled`), the clock, the crowd (`Struck`), the sensors with their delay lines
(`Sensed`). Kinematic vehicles move only at their own steps and may rest. Of the
events, `"terminal"` stands for all those of `Events::TERMINAL`.

`Episodes` puts the Python environment on top: `ResetCall` (any mask of worlds,
with or without a seed), `StepCall` into Rust, the worlds' ticks, and `Compute`, the
rest of `step`: what the task ends, what `sim.disable` stops, time limits,
`final_obs`, returns, and the autoreset within the step. `view` is the native output
array that `out.obs` is a view of. The reward of a step is 1, so that a return counts
steps. `story` is what the caller saw, for the properties. The worlds tick one after
the other, because in this model they share nothing (`TileCache` is what they share).

### Simulation

The clock with its signals, the followed vehicle, the pedestrian, the drivers at a
junction (`Traffic`) and on a road before one (`Changing`), a bus (`Serving`), and a
batch under training (`Trains`). The code updates the crowd and the tracks after the
tick and lets the drivers decide before it, and so do `Walks`, `Drives` and `Traffic`.
They read the clock and not each other (what each meets of the others is a free
choice), so a behaviour follows one of them; `followed` says which: "vehicle",
"pedestrian", "drivers", "road", "bus" or "episodes".

## Runs

| run | checks | bounds |
|---|---|---|
| `tile_cache` | `SizeBound`, `UnderWayIsCached`, `OneCopyEach`, `GeneratedOnce`, `CallsReturn`, `PrefetchRuns` | a caller of four calls that remembers two tiles, one background thread (what a two-core machine has), three tiles, capacity 0 (taken as 1), a `reserve` at any moment |
| `stream` | `Unbroken`, `ReaderUnderstands`, `NeverWaits`, `IsFairFeed`, `CloseReturns` | one connection, queue of 2 batches, one attachment with a reset or ticks after it, a route replaced |
| `viewer` | `ShowsTheWorld`, `ReachesTheViewer`, `Reconnects` | one run of a reset or a tick and a route replaced, two connections lost, any number refused, one episode kept |
| `viewer_restart` | `RightEpisode` | two runs of either of two scenarios and two seeds, one connection lost besides those a run's end takes |
| `viewer_lost` | `LossIsSaid`, violated | as `viewer` |
| `bridge` | `Obeys`, `ClockContinuous`, `ResetKept`, `WaitsForAll`, `ServicesAnswered`, `KeepsStepping` | an agent driven by `cmd_vel` and one that takes actions only; three steps, two commands, one reset, two calls of pause |
| `bridge_state` | `StateOfTheTick`, violated | one agent, episodes of two steps |
| `map_cache` | `Atomic`, `NoneRefused` | two threads of one process and another process, files of three blocks, any old entry |
| `map_cache_threads` | `Atomic`, violated | two threads of one process, a tiled map's coarse layer |
| `simulation` | `Cleared`, `LeftIsTrue`, `RaisedForRed`, `RedIsRaised`, `CarriagewayKnown`, `AcrossInTime`, `ZonesApart`, `RedOnlyIfCaught`, `AllThrough`, `RoadClears`, `ServedEachRound`, `ReadingsOnTime`, `StoppedTogether`, `InStep`, `RightEpisode`, `EndsOnce`, `ReturnsCount` | a junction of six connectors over its whole cycle, every offset; four drivers from three starts under each control, and two who come from far up to speed 15, one held up once; two cars on three lanes of six places, from every start of interest and for three pairs of turns, one held up once; a bus on three connectors with two stops; one vehicle, one pedestrian slow or quick; two worlds of two learners, two ticks a step, one reset of any of them |
| `bus_line` | `ServedEachRound`, violated | the same bus with one stop |
| `frozen` | `Frozen`, violated | one world, a learner and a kinematic vehicle, two ticks a step |

Why the bounds are enough. Tile cache: the hazards are a second thread at the same
tile, an eviction while another tile is under way, and a thread that comes back to
an evicted tile; a caller, a background thread and three tiles with room for one
have all of them, a caller and the background thread meet at one tile, and several
callers are left to the proof of `GeneratedOnce`; a caller that remembers two tiles
of three has its list full, turned round and cut, and the proofs of safety are for any
number of threads and tiles. Stream: what distinguishes states of a
queue is whether it has room, so 2 batches stand for `QUEUE`'s 8192, and the start
batch alone already exceeds the buffer; a second connection can only disturb the
first through the sink, and the proofs are for any number of them. One record stands for a group
of channels and one topic, `/state`, for all that the stream does not cache: it
treats them alike. Viewer: two losses, three connections, since all a connection leaves behind is
`lastError`, `resumed` and the recording; refusals and what a run's end takes are not bounded; `poll` takes messages one at a time, which
is the finest grain of its loop, and `Keep` 1 stands for 50 so that episodes do drop
out. Bridge: the timeout of a command is one step, so that "exactly at" and "one
beyond" both occur within an episode and across its end; agents flown by a policy
(`Flown`) are left to the proofs. Map cache: two threads that share a name and one
that does not. Lights: from a speed of 8 on, a driver may be too near to
stop comfortably and too far to be over before red, and from 15 on too near to stop at
all and too far to be over, so that it crosses at red; of the two from far one comes
to the lights at 15 and one at about 11, whenever in the cycle; in the run nobody who
could stop by braking hard crosses at red. That one who could stop by braking hard, and had to slow since, crosses after
all takes two hold-ups, and is left to the proof. Simulation: the junction has protected and opposed movements, lefts,
and a walk window that runs over the end of the cycle; four drivers are one from
each approach, so that all can wait for each other in a circle; two cars, side by side
or one behind the other, are what it takes to be in each other's way, and the third
lane is the one neither needs; a bus that passes each of two stops more than once is
all a loop can do; `PendingTimeout` is the code's 20 s; two worlds, because a mask must be able to hold one of them, and two
learners, because one must be able to end before the other. There kinematic vehicles
are left out (they are in `frozen` and in the proofs), as are scripted agents and
resets with a seed (in the proofs).

`CHECK_DEADLOCK FALSE` is set where the system may come to rest: nobody has to
call the tile cache, a run of the recorder ends, `close` may wait for a connection that
nobody makes, the drivers have passed the lights, the training reaches its bound. The bridge and the map cache have an explicit final step
(`Ended`, `AllEnded`) and are checked for deadlock.

Fairness. `TileCache`: weak fairness of each thread in a call or job; nobody has
to call. `LiveStream`: weak fairness of the recorder's call under way, `close`'s two
further steps, the accept thread, each writer thread and each reading end; nobody has to
connect, a connection may fail at any time, and so may the sink's own. `CloseReturns`
therefore has two parts: `close` returns, or its own connection failed and the thread
still sits in accept; and whatever became of its own, it returns once another is made. `NeverWaits` needs none: it says that the write
is enabled. `LiveViewer`: weak fairness of the recorder's call, of accepting, of
the reader thread and of the viewer, which polls in every frame. That connections are
lost only finitely often (`MaxLosses`) is what `Reconnects` assumes of the network. `Bridge`: weak
fairness of the thread and strong fairness of `WaitTimesOut`, since the wall clock
passes during the wait's polls, which disable the step only for the moment of a
poll; nothing is assumed of the clients. `Simulation`: weak fairness of `Traffic` and
`Changing`, the loop that makes every driver decide and then moves them; who is held up
is bounded by `MaxHolds` and `MaxLate`, since nobody gets through if the environment
holds it up for ever.

## Where the code and what it says differ

Five runs state what a comment or a doc says and find the code to do otherwise;
each is a finding in `PROJECT.json`.

* `viewer_lost`: the reader thread sends a failure only if its text differs from
  the last one's; a connection in between clears the status but not the
  remembered text. After the second loss of the same kind the viewer has neither
  a stream nor a status. (A restart that refuses a connection in between hides
  this.)
* `bridge_state`: "State before the clock: a controller answering a tick has the
  state of that tick" holds within an episode; at an episode's end the clock goes
  out after `new_episode`, and the state of the new episode's start not at all.
* `frozen`: an agent of a group with `disable_on_terminal` goes on though a terminal
  event of it was reported. The crowd is updated after the agents' `post_step`, so a
  `PEDESTRIAN_HIT` at a step's last tick comes after the check that would stop the
  agent, and the next step clears the events. A kinematic vehicle that rests, or is
  between its steps, leaves `post_step` before the check likewise. (Learners are
  stopped all the same, by the Python environment: `StoppedTogether`.)
* `map_cache_threads`: threads of one process share the temporary file of a
  coarse layer. One may rename it when another has just emptied it; what is in
  place is damaged until the other has written it, and the other's rename fails.

* `bus_line`: `served` remembers the leg of the stop served last, and only the next
  stop served or missed overwrites it. On a loop with one stop there is no other: from
  the second round on the bus drives by, and the stop is not counted as missed. With
  two stops or more it cannot happen, which is proved (`ServedEachRoundAlways`).

Met while modelling and stated here without a run:

* a viewer that reconnects within an episode is given the cached routes and
  records them a second time; `ShowsTheWorld` shows that looking up a route by
  time is right all the same;
* a simulation restarted with the same scenario and seed is indistinguishable
  from the one before, so its first episode is appended to the old one's;
  `RightEpisode` compares what the code compares, the number and the seed;
* between `finish` and a new attachment a replaced route is not written, and the
  next stream's `/episode` carries the present routes instead;
* an agent that was sent both gets the action, even when the `cmd_vel` is newer;
* the module's doc of `traffic_driver.rs` (lines 15-16) has a vehicle wait at its
  lane's end until it can change lanes; but a change needs `MIN_CHANGE` of road ahead,
  so at the end it never can, and what ends the wait is that it gives up its turn;
* drivers who decide in one step see one snapshot, so that two may take one gap from
  both its sides; IDM then makes room;
* a step that begins paused does not wait for commands, even when the pause ends
  in its poll; `WaitsForAll` speaks of the steps that wait.

## Proofs

TLAPS proves the following for every value of the constants that satisfies the
modules' named assumptions.

**TileCacheProofs.** `TypeCorrect`, `CacheBounded` (`SizeBound`),
`UnderWayCached` (`UnderWayIsCached`), `OneCopyEachAlways` (`OneCopyEach`) and `GeneratedOnceAlways`. Type correctness needs what a thread's
locals say at its `pc` (`RegOK`: the tile asked for is a tile, its entry is an
entry of that tile, and is done from "got" on) and that the map leads to entries
of the right tile (`CacheOK`); together `TInv`. The size bound is not inductive:
an eviction loop may stop over capacity when everything is kept or under way, and
what saves the bound is that each tile under way has an inserter that has still
to evict (`UnderWayIsOwed`), and that it is the entry in the map
(`UnderWayIsCached`: otherwise a tile generated again could be counted for
another's debt). `IInv == TInv /\ UnderWayIsCached /\ UnderWayIsOwed /\ SizeBound`
is inductive. Every step but an insertion, an eviction and the end of one keeps
`Owed` and the map (`StepOwed`, `StepCache`), so that `StepUnderWay` and
`StepSize` look at those three only; the lemmas on `Kept` and `Grown` carry the
facts about entries from step to step. A thread has one copy of a tile only because
one that puts an entry into its list has looked and found none: `OneCopyEach` says so of
every thread between its miss and its return (`RecentsOK`), and `ToFront` and `PutFirst` what a hit's
rotation and a return's truncation leave of a list. `GeneratedOnce` needs the other
direction as well: a thread at "generate" is at a running entry and alone there
(`OneEach`); the counter then grows by the one entry that leaves "empty".

**BridgeProofs.** `AgentsObey`, `ClockGoesOn`, `PromisesKept`, `PauseHolds`,
`LockstepWaits`, for any agents, limits and numbers of commands, resets and
pauses. The invariant has a part for each: `CommandsOK` (what an agent does is the
command last taken in this episode until it is told to hold, and it is told so only
when idle), `TimeOK` (time is the number of steps), `ResetOK` (a reset is pending
exactly when an episode is promised for it), `WaitOK` (what is fresh was taken
since the last step; why a wait ended). `Typed` and `Topics` are the typing they
need.

**MapCacheProofs.** `SavesAreAtomic` and `NobodyRefused` under `Distinct`, that no
two callers have one temporary name, and `SaveCleansUp` for whole maps. `Distinct`
is what `map_cache_threads` breaks. The invariant says that a caller's temporary
name holds nothing or the file the caller has written so far (`OwnFile`) and that
what was put in place is whole (`StoredWhole`); a killed caller's half-written file
stays under its own name and is nobody's entry.

**EpisodesProofs.** `StoppedTogetherAlways`, `InStepAlways`, `RightEpisodeAlways`,
`EndsOnceAlways`, `ReturnsCountAlways` and `ReadingsOnTimeAlways`, of `EpisodesSpec` for any worlds, agents
(kinematic and frozen ones too), dividers, latencies and limits. None of them is
inductive, because Rust and Python differ while a step is under way: `Stopped` says
that a learner is stopped in Rust ahead of Python only by a terminal event of this
very step, which Python will find; `Clocked` that the clock is ahead of Python's
counts by the ticks done; `Viewed` that the array's rows are of the worlds' present
ticks between calls; `Told` ties what the caller saw to `active` and `returns`.
`IInv` is their conjunction with the typing and `RightEpisode`. A tick keeps it by the
lemmas on an agent's state (`SteppedTyped`, `StruckTyped`, ...): events of a step are
only added, and nobody is stopped without a terminal one. `ReadingsOnTime` follows from
what the delay line holds (`OnTime`): all readings measured in this episode that are not
due yet, in order, so that what leaves it at its head is the one that is due.

**StreamLemmas.** What the proofs of the stream and its viewer share. Its first part
proves by induction what the recursive operators do for every length: `InOrder` lists
the members of a set, each once and in order (`InOrderPlaces`), and one record more is
appended to it (`InOrderNext`); `FlattenSeq` gives up a head and takes an element at
the end (`FlattenHead`, `FlattenAppend`). The induction (`Induction`) is on a set of
numbers and comes from the well-foundedness of <, since the library's own theorem takes
an operator. Its second part is the recorder's: whatever is written, by whichever call
between whatever threads, the log is `Orderly` - in a run the channels come first, then
one `/meta`, then every other message after the `/episode` it belongs to, all of one
scenario (`LogWrites` .. `LogEnds`; `Writing` ties what is in the log to what the
call has still to write). Its third part is what a connection is promised,
`Promised(log, run, at)`: it grows by the records of its run and nothing else
(`PromisedGrows`), messages stand in it in the log's order and nothing promised is
passed over (`PromisedOrder`); and from the two together, what a reader may conclude:
`ChannelRead`, `EpisodeRead`, `FirstSent`, `NextSent`.

**LiveStreamProofs.** `StreamTypeCorrect`, `ClientsDroppedForCause`, `StreamUnbroken`,
`ReaderUnderstandsAlways` and `StreamIsFeed`, for any connections, queues, buffers,
windows and runs. `Unbroken` is not inductive, because the start a connection will be
given is in the sink's cache: `Cached` says that the cache is what `Broadcast` would
give whoever joined now (`CachedStep`, one case for each kind of record), and `ConnsOK`
which run a client is of. Then a record written is appended both to what is promised
and to what is given (`WholeWrites`), and on the way from queue through buffer and wire
to the other end nothing changes (`HeadMoves`). `ReaderUnderstands` adds that the log is
the recorder's (`RecorderNext`): what has been read is the beginning of what was
promised (`GotIsPromised`), of which `ChannelRead` and `EpisodeRead` speak. `StreamIsFeed`
is the refinement, step by step, of the safety of `Broadcast`: accepting is a `Join`, a
read a `Deliver`, a client given up or a connection lost a `Drop`, all else a stutter
(`FeedStep`).

**LiveViewerProofs.** `RightEpisodeAlways`: the viewer compares run-free names of
episodes, and only with the one it last showed, so that the recording is right only
because the feed is. `Follows` says of two items of the feed in turn that the second, if
a message, is of the first's run, and either opens an episode or goes on with the
first's; `Linked` says so of the whole feed behind the item taken last; `Stands` says what
the viewer made of that item (which episode is last, whether it is foreign); `Ends` ties
the feed's end to what the reader thread read last; `GivenOf` that what it read is the
beginning of what it was promised, to which `FirstSent` and `NextSent` apply. TLC checked
the invariant on `viewer_restart`'s instance before it was proved.

`ShowsTheWorldOfTheRun` and `ShowsTheWorldAlways`: a viewer that has taken all there is
shows the world's episode and its agent's route. Three invariants meet in it.
`WorldWritten` is the recorder's: between calls the latest `/episode` or `/route` of the
run says the world's route and no update is of the future; within a call the records it
has still to write say the rest (`WrittenStep`, one lemma for `attach`, `reset` and a
tick). `ServedNow` says that a connection accepted is one of the present run. And the
feed passes over nothing that says a route: from one item to the next there is no
`/episode` or `/route` between them in the log (`Between`, a part of `Follows`, from
`PromisedOrder`), so that the last update the viewer holds is the latest of its episode
(`OnRoute`, a part of `Stands`), though a reconnection delivers the cached ones again. A viewer that is
up to date has therefore come to an item behind the present episode and everything it
says (`AllRead`, by `CurrentPromised`: what the sink caches and what follows hold it).
The general theorem asks for one thing: that no record shown is of an earlier run. A
process started again with the same scenario is the same stream to the viewer, and if it
has the same episode number and seed, poll skips its `/episode` and goes on in the
episode shown, as `docs/PLAN.md` says it should; that episode may then hold routes of the
earlier process at later times, and `ShowsTheWorld` fails (TLC finds it with two runs,
one scenario and one seed). With one run (`MaxRuns <= 1`, as in run `viewer`), whatever
resets and connections lost come between, it always holds. The episode's number and seed
are the world's in every case.

**StreetProofs.** What is proved of `Simulation`'s street, for any junction, crossing,
lanes and line.

* `ClearedAlways` and `LeftIsTrueAlways`. Nothing of it is inductive but that the clock
  stays in the cycle (`InCycle`); the work is what `build` makes of any movements. Its
  folds are sums and steps over sequences (`SumsAgree`, `FoldSteps`, both by induction on
  a set of numbers, as in `StreamLemmas`): a pass puts into the phase what meets nothing
  exclusive there and leaves the rest (`PassSplits`), passes end with nothing left
  (`SplitCovers`: each takes at least the first, so as many as there are movements are
  enough), so every movement has a phase and no phase holds two that are exclusive
  (`PhasesOK`, by `GroupPhasesOK` and `PlannedOK`). Phases follow one another around the
  cycle, one at each time (`PhasesApart`, `ActiveRuns`), so what one shows at u is known
  (`LightLeftIs`), and of two exclusive movements one's green and amber lie an all-red
  apart from the other's (`ExclusiveApart`). For the walk light: a window runs from a walk
  phase after one that is none to the amber of its run's last, in this cycle or the next
  (`WindowIs`), windows do not meet (`WindowsOK`), hence nor do the times in which the
  walk light shows (`WalksOK`), and the two counts of `walk` are what they say
  (`WalkShowsOn`, `WalkShowsOff`).
* `CarriagewayKnownAlways`. The invariant (`CrowdOK`) says that whoever is on a crossing
  leg is crossing or was hit, and that the list is up to date.
* `AcrossInTimeAlways`, under `TimeToCross`: in every window the walk light ends the
  clearance time before the window and its all-red do. It does unless the window is so
  short that `MIN_WALK` keeps the light on longer, when the code itself lets pedestrians
  start who will not be over; the theorem says where that cannot happen, and the
  simulation's junction satisfies it (TLC evaluates it as `LongWindows`). The invariant (`AcrossOK`) keeps
  for a pedestrian that started on the walk light and was not held up the window in whose
  light it started, and that what it still has to walk ends with that light's clearance
  time (`OverInTime`); in a window and its all-red no straight movement has another light
  than red (`StraightsWait`).
* `RaisedForRedAlways` and `RedIsRaisedAlways`. The invariant (`TrackOK`) says that a
  movement that was red at the pending crossing was red at a crossing no older than it
  (`KeptRed`), and that the last crossing of the lane followed is pending as long as an
  event may have to be raised for it (`KeepsLast`).
* `ServedEachRoundAlways`, for any loop with two stops or more (on one with a single
  stop it is false: `bus_line`). `LastNoted` says that between the stop noted last and
  the bus there is no other, in the way of the loop; so a stop the bus comes to can be
  the one noted last only if it is the only one.
* `RedOnlyIfCaughtAlways`: for any junction, signals, drivers, speeds and
  places to decide, whoever is held up and how often, only a driver that cannot stop any
  more crosses the line at red; never one that could stop comfortably when amber caught
  it, and one that could stop braking hard only if it has slowed since. Drivers so caught
  do cross at red in the code, by the red branch of `may_enter`. The invariant
  (`LightsKept`) says of a driver before the line and not at green that it can stop
  comfortably, or could not when it was caught and has slowed since, could not stop at
  all, or goes on: at amber, and either over before red at its speed or near enough to a
  stop to brake hard (`CaughtOK`, `GoesOn`); and that one who has decided in this step
  and must stop (`MustStop`) is held at the line or far from it (`HeldBack`). A driver
  held at the line slows down (`HeldSlows`) and can still stop after the step
  (`StopsShort`). What it takes to stop is a recursive function; `StopShorter` has by
  induction that it is defined for every speed and that braking hard takes no farther,
  `StopGrows` how it changes with the speed.

The assumptions: `SignalsAssumption`, that every connector of the junction starts on a
lane of some group (all approaches of a junction have one control, and `build` puts every
signalled one into a group) and that exclusive pairs are pairs of its connectors;
`CrowdAssumption`, that a way begins and ends on a walk, as do the spots of `Crowd::place`
and the destinations, and that no two crossings meet (`with_crossings` keeps them apart);
`JunctionAssumption`, that drivers are numbered and take connectors of the junction, and
that limits are natural numbers; `RoadTrackAssumption`, that what is inside no lane is no lane.

The proofs found three definitions (`Pushed` of `LiveViewer`, `MayEnter` of `Junction`,
`TrackUpdate` of `RoadTrack`) whose CASE guards overlapped, where TLC takes the first
and TLA+ leaves the choice open; their guards are now disjoint, in the code's order.

That `RedIsRaised` had to speak of a line crossed and left behind in one update, which
no lane of the instance then allowed, was found by proving it; `MCRoads` now has it.

`TypeCorrect` (tile cache), `PauseHolds`, `SaveCleansUp`, `StreamTypeCorrect`,
`ClientsDroppedForCause` and `StreamIsFeed` are proved for every instance and are in no
run (`stream` checks the last one together with its fairness, as `IsFairFeed`).

Only model-checked: the liveness properties (`CallsReturn`, `PrefetchRuns`,
`CloseReturns`, `IsFairFeed`'s fairness, `ReachesTheViewer`, `Reconnects`,
`ServicesAnswered`, `KeepsStepping`, `AllThrough`, `RoadClears`), which need fairness
and are out of the prover's reach; `NeverWaits`, which uses `ENABLED`; and
`ZonesApart` of the junction, which depends on how its speeds, distances and times fit
together and not only on the rules.

## Not modelled

Continuous computations in floating point (multibody dynamics, contacts, tyres,
aerodynamics, powertrain torque, controllers, the sensors' error models), pure
functions of their input (procedural generation, terrain and road queries,
scenario parsing, observation vectors, network evaluation), rendering, encoding
and the command line. `PROJECT.json` lists each with its reason. In what is
modelled, left out are: the layout of MCAP records (a record cut short is the end of
the input), the ROS messages' contents and the DDS transport (a topic is its latest
message not taken), the sensors, cameras and markers the bridge only publishes, and
the hash and compression of cached files.

At the junction: long vehicles and the sweep of their turns, yielding
to pedestrians at crosswalks, learners that drivers do not notice, and junctions
connected by a lane too short to stop on. Of a pedestrian: social forces, the gap it
judges, and other pedestrians. Of lane changes: MOBIL's incentive (a change not needed
is a free choice), the lateral path, overtaking of cyclists. Of a bus: how its loop is
drawn. Of a world: the promotion of distant traffic to full
dynamics (`hybrid.rs`), respawns, `OFF_ROAD` and `WRONG_WAY`, which are geometry, and
the terms of rewards. The single-agent environment (`vector_env.py`) follows the
multi-agent one and is not modelled of its own.

## Plan

Done: `TileCache`, `Recorder`, `Broadcast`, `LiveStream`, `LiveViewer`, `Bridge`,
`MapCache`, `Signals`, `RoadTrack`, `Crowd`, `Junction`, `Lights`, `LaneChanges`, `Bus`, `World`,
`Episodes`, `Simulation`; `TileCacheProofs`, `BridgeProofs`, `MapCacheProofs`,
`EpisodesProofs`, `StreamLemmas`, `LiveStreamProofs`, `LiveViewerProofs`, `StreetProofs`.

Next, models: drivers who yield to the pedestrians of `Crowd`, and junctions connected
by a short lane; the multi-point turn and the gearbox; the viewer's history and
replay cursor; hybrid promotion.

Next, proofs: under which conditions on speeds and times
grants entered in turn are never for the same time in one zone (`ZonesApart`).
