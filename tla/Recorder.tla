------------------------------ MODULE Recorder -------------------------------
(***************************************************************************)
(* The recorder of a world (crates/sim/src/record.rs): what its handlers   *)
(* write when the world it is attached to is reset and ticks.  Each of     *)
(* them writes several records, between which the sink's other threads     *)
(* come in: script is what the present call has still to write.            *)
(*                                                                         *)
(* An agent's messages, /npcs, /events, /signals and the others that the   *)
(* stream does not cache are one topic, "/state".                          *)
(***************************************************************************)
EXTENDS Naturals, Sequences

CONSTANTS
  Scenarios,  \* what a /meta message may say
  Seeds,      \* episode seeds
  MaxRuns,    \* bounds of the model: streams bound,
  MaxLog,     \*   records written (a reset or a tick may not begin beyond),
  MaxTime     \*   ticks of an episode

ASSUME RecorderAssumption ==
  /\ Scenarios # {} /\ Seeds # {}
  /\ {MaxRuns, MaxLog, MaxTime} \subseteq Nat

VARIABLES
  world,      \* scenario, episode seed, time and route of the recorded world
  sink,       \* the StreamSink: "none", "up", "closing" or "closed"
  run,        \* streams bound so far
  episodes,   \* Recorder::episodes
  script,     \* what the recorder has still to write in its present call
  log         \* history: every record written, a name is its place

simVars == <<world, sink, run, episodes, script>>

Topics == {"/meta", "/episode", "/route", "/state"}
Record == [op : {"channel", "message"}, topic : Topics, run : Nat, scenario : Scenarios,
           episode : Nat, seed : Seeds, time : Nat, route : Nat]
World == [scenario : Scenarios, seed : Seeds, time : Nat, route : Nat]

Channel(t) == [op |-> "channel", topic |-> t]
Message(t) == [op |-> "message", topic |-> t]

Fresh(sc, seed) == [scenario |-> sc, seed |-> seed, time |-> 0, route |-> 0]
FreshWorlds == {Fresh(sc, seed) : sc \in Scenarios, seed \in Seeds}

InitRecorder ==
  /\ world \in FreshWorlds
  /\ sink = "none" /\ run = 0
  /\ episodes = 0 /\ script = <<>>
  /\ log = <<>>

(* The simulation's thread is at none of its calls (finish waits).         *)
Ready == script = <<>> /\ sink # "closing"

(* Recorder::on_reset after start.                                         *)
ResetMessages == <<Message("/episode"), Message("/state")>>

(* start: the channels - first the world's, one record here, then the      *)
(* agents', another - and /meta.                                           *)
StartMessages == <<Channel("/meta"), Channel("/state"), Message("/meta")>>

(* attach_recorder with a new stream: bind, then on_reset's first call.    *)
(* The world may be in the middle of an episode.                           *)
Attach ==
  /\ Ready
  /\ sink # "up"
  /\ run < MaxRuns
  /\ sink' = "up" /\ run' = run + 1
  /\ episodes' = 1
  /\ script' = StartMessages \o ResetMessages
  /\ UNCHANGED <<world, log>>

(* The world is reset; the recorder of an attached stream is told.         *)
Reset(seed) ==
  /\ Ready
  /\ sink = "up" /\ Len(log) < MaxLog
  /\ world' = Fresh(world.scenario, seed)
  /\ episodes' = episodes + 1
  /\ script' = ResetMessages
  /\ UNCHANGED <<sink, run, log>>

(* Slip: a new route is written, and remembered as written, only if live.  *)
TickLiveRoutes(replaced, due, live) ==
  /\ Ready
  /\ world.time < MaxTime
  /\ sink = "up" => Len(log) < MaxLog
  /\ world' = [world EXCEPT !.time = @ + 1, !.route = IF replaced THEN @ + 1 ELSE @]
  /\ script' = IF sink # "up" \/ ~live THEN <<>>
               ELSE (IF replaced THEN <<Message("/route")>> ELSE <<>>)
                    \o (IF due THEN <<Message("/state")>> ELSE <<>>)
  /\ UNCHANGED <<sink, run, episodes, log>>

(* A tick, with or without a route replaced, and with or without states    *)
(* due.  live() is asked before anything is written.                       *)
Tick(replaced, due, live) ==
  /\ Ready
  /\ world.time < MaxTime
  /\ sink = "up" => Len(log) < MaxLog
  /\ world' = [world EXCEPT !.time = @ + 1, !.route = IF replaced THEN @ + 1 ELSE @]
  /\ script' = IF sink # "up" THEN <<>>
               ELSE (IF replaced THEN <<Message("/route")>> ELSE <<>>)
                    \o (IF due /\ live THEN <<Message("/state")>> ELSE <<>>)
  /\ UNCHANGED <<sink, run, episodes, log>>

(* What a record says when it is written: of the world, and the number of  *)
(* its episode.                                                            *)
Says(r) == [op |-> r.op, topic |-> r.topic, run |-> run, scenario |-> world.scenario,
            episode |-> episodes - 1, seed |-> world.seed, time |-> world.time,
            route |-> world.route]

(* The next thing the recorder's call writes, as record k.                 *)
Writes(r, k) ==
  /\ script # <<>> /\ r = Head(script)
  /\ script' = Tail(script)
  /\ k = Len(log) + 1
  /\ log' = Append(log, Says(r))
  /\ UNCHANGED <<world, sink, run, episodes>>

(* finish: the sink closes, and waits for its accept thread.               *)
Finish ==
  /\ Ready
  /\ sink = "up"
  /\ sink' = "closing"
  /\ UNCHANGED <<world, run, episodes, script, log>>

Finished ==
  /\ sink = "closing"
  /\ sink' = "closed"
  /\ UNCHANGED <<world, run, episodes, script, log>>

(* The process ends, however it ends.  The next one has its own world.     *)
ProcessEnds(next) ==
  /\ sink # "none"
  /\ world' = next
  /\ sink' = "none"
  /\ episodes' = 0 /\ script' = <<>>
  /\ UNCHANGED <<run, log>>
=============================================================================
