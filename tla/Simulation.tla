----------------------------- MODULE Simulation ------------------------------
(***************************************************************************)
(* The simulation at work: the clock and the signals of one junction, a    *)
(* vehicle that drives through and is followed, a pedestrian on the way    *)
(* over one of its crossings, the drivers of the traffic at the junction   *)
(* and on a road of several lanes before one, a bus on its line; and a     *)
(* batch of worlds with the environment that trains over it.  They do not  *)
(* touch each other here (the environment decides what each meets), so     *)
(* that a behaviour follows one of them.                                   *)
(***************************************************************************)
EXTENDS RoadTrack, Crowd, Lights, LaneChanges, Bus, Episodes

VARIABLE followed   \* "vehicle", "pedestrian", "drivers", "road", "bus" or "episodes"

streetVars == <<now, trackVars, crossing, redAgo, crowdVars, junctionVars, caught>>
trafficVars == <<junctionVars, caught, lanesVars, busVars>>
vars == <<streetVars, lanesVars, busVars, episodesVars, followed>>

(* Whoever is not followed stands at one place.                            *)
Init ==
  /\ followed \in {"vehicle", "pedestrian", "drivers", "road", "bus", "episodes"}
  /\ followed \in {"road", "bus", "episodes"} => now = 0
  /\ followed # "vehicle" => place = CHOOSE p \in Lanes : Successors(p) # {}
  /\ followed # "pedestrian" => ped = CHOOSE p \in Spots(Min(Needs)) : p.leg = 1 /\ p.at = 0
  /\ followed # "drivers" => LET any == CHOOSE s \in Scenes : TRUE
                             IN  way = any.way /\ control = any.control /\ front = any.front
  /\ followed # "road" => car = Placed(CHOOSE start \in Starts : TRUE)
  /\ followed # "episodes" => autoreset = TRUE
  /\ TrackInit /\ CrowdInit /\ LightsInit /\ LanesInit /\ BusInit /\ EpisodesInit
  /\ followed # "bus" => bus.next # Nowhere /\ bus.at = Before
  /\ followed = "drivers" /\ control # "signal" => now = 0

(* After the ticks of a step the clock stands at now'; then the crowd is   *)
(* updated and the vehicle's track.  The drivers decide before the ticks.  *)
Drives == followed = "vehicle" /\ Tick /\ Track
            /\ UNCHANGED <<crowdVars, trafficVars, episodesVars, followed>>
Walks == followed = "pedestrian" /\ Tick /\ CrowdUpdate
           /\ UNCHANGED <<trackVars, crossing, redAgo, trafficVars, episodesVars, followed>>
Traffic == followed = "drivers" /\ LightsNext
             /\ UNCHANGED <<trackVars, crossing, redAgo, crowdVars, lanesVars, busVars, episodesVars, followed>>
Changing == followed = "road" /\ Road /\ UNCHANGED <<streetVars, busVars, episodesVars, followed>>
Serving == followed = "bus" /\ BusNext /\ UNCHANGED <<streetVars, lanesVars, episodesVars, followed>>
Trains == followed = "episodes" /\ EpisodesNext /\ UNCHANGED <<streetVars, lanesVars, busVars, followed>>

(* The simulation is stepped on.                                           *)
Next == Drives \/ Walks \/ Traffic \/ Changing \/ Serving \/ Trains
Spec == Init /\ [][Next]_vars /\ WF_vars(Traffic) /\ WF_vars(Changing)

-----------------------------------------------------------------------------
(* Movements that cross or merge are never let go together, and when one   *)
(* gets green the other has been red for the whole all-red time, wherever  *)
(* the two fall in the phases SignalController::build makes.               *)
Cleared == \A e \in Exclusive : \A a, b \in e : a # b /\ Light(a, now) # "red" =>
  \A d \in 0 .. AllRed : Light(b, now - d) = "red"

(* A light stays as long as the signals announce, and then it changes; the *)
(* walk light likewise: the time left (which drivers and pedestrians plan  *)
(* with) counts down by the clock, over the ends of phases and the cycle.  *)
CountsDown(shown, next) ==
  /\ shown[2] >= 1
  /\ IF shown[2] = 1 THEN next[1] # shown[1] ELSE next = <<shown[1], shown[2] - 1>>
LeftIsTrue ==
  /\ \A c \in Movement : CountsDown(<<Light(c, now), Left(c, now)>>, <<Light(c, now + 1), Left(c, now + 1)>>)
  /\ CrossingWalk(now)[2] # Never => CountsDown(CrossingWalk(now), CrossingWalk(now + 1))

(* Whatever the control (signals, stop signs, priority to the right), every *)
(* driver gets through the junction in the end: those who wait for each    *)
(* other are let go by the deadlock rule of may_enter.                     *)
AllThrough == followed = "drivers" => <>(\A d \in Drivers : front[d] = Gone)

(* Everybody leaves a road of several lanes in the end: drivers who stand  *)
(* beside each other at its end, each in the lane the other needs, give up *)
(* their turns after a while (decide) and go where their lanes lead.       *)
RoadClears == followed = "road" => <>(\A d \in Cars : ~OnRoad(d))
=============================================================================
