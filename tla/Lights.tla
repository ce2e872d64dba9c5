-------------------------------- MODULE Lights --------------------------------
(***************************************************************************)
(* The steps of the drivers of a junction and its lights (may_enter and    *)
(* stops_at, crates/sim/src/traffic_driver.rs), and who crosses the line   *)
(* at red.  Drivers may be too fast to stop comfortably, or at all, when   *)
(* amber begins.                                                           *)
(***************************************************************************)
EXTENDS Junction

VARIABLE caught   \* driver -> where it was when its light last stopped being
                  \* green, how fast, and whether it has slowed down since

lightsVars == <<now, junctionVars, caught>>

LightsInit ==
  /\ SignalsInit /\ JunctionInit
  /\ caught = [d \in Drivers |-> [front |-> front[d], speed |-> 0, slowed |-> FALSE]]

CaughtAfter(d) ==
  IF Shows(way[d]) = "green" THEN [front |-> front'[d], speed |-> speed'[d], slowed |-> FALSE]
  ELSE [caught[d] EXCEPT !.slowed = @ \/ speed'[d] < speed[d]]

LightsNext ==
  \/ DecideInOrder /\ UNCHANGED <<places, full, holds, now, caught>>
  \/ Move /\ Tick /\ caught' = [d \in Drivers |-> CaughtAfter(d)]

-----------------------------------------------------------------------------
CanStop(v, f, b) == Stop[v][b] <= -f
CrossesAtRed(d) == front[d] <= 0 /\ front'[d] > 0 /\ Shows(way[d]) = "red"

(* Only a driver that even now cannot stop, braking hard, crosses the line *)
(* at red.  One that could stop comfortably when amber caught it never     *)
(* does; and one that could stop then, braking hard, only if it has had to *)
(* slow since, for without that it gets over before red (stops_at and the  *)
(* red branch of may_enter, over all the steps of amber).                  *)
RedOnlyIfCaught == [][\A d \in Drivers : CrossesAtRed(d) =>
  /\ ~CanStop(speed[d], front[d], 2)
  /\ ~CanStop(caught[d].speed, caught[d].front, 1)
  /\ CanStop(caught[d].speed, caught[d].front, 2) => caught[d].slowed]_lightsVars
=============================================================================
