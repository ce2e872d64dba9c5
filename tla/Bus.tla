---------------------------------- MODULE Bus ----------------------------------
(***************************************************************************)
(* A bus on its line (BusRoute of crates/sim/src/traffic_driver.rs): a     *)
(* loop of connectors and of the lanes after them, some with a stop.       *)
(*                                                                         *)
(* On a lane the bus is Before the stop, At it (its front from             *)
(* STOP_REACHED before to STOP_MISSED beyond it), Beyond it, and then Over *)
(* the lane's end.  A new loop is one of the same shape.                   *)
(***************************************************************************)
EXTENDS Integers

CONSTANTS
  Line,       \* connectors of the loop are 1 .. Line
  BusStops,   \* those with a stop on the lane after them
  Dwellings   \* how long the bus may stand at a stop

ASSUME BusAssumption == Line \in Nat \ {0} /\ BusStops \subseteq 1 .. Line /\ Dwellings \subseteq Nat \ {0}

VARIABLES
  bus,    \* [next, served, dwelling, at, speed]; without a loop next is Nowhere
  told    \* history: the stop of this lane was served or counted as missed

busVars == <<bus, told>>
Nowhere == 0
Before == 1
At == 2
Beyond == 3
Over == 4

(* The connector it came by, whose stop is on this lane.                   *)
Leg(next) == IF next = 1 THEN Line ELSE next - 1
HasStop(b) == b.next # Nowhere /\ Leg(b.next) \in BusStops

(* A loop drawn where it is, which starts and ends there, or none found.   *)
NewLoop(b, first) == [b EXCEPT !.next = first, !.served = Nowhere, !.dwelling = 0]
First == {Nowhere, 1}

BusInit ==
  /\ bus \in [next : First, served : {Nowhere}, dwelling : {0},
              at : {Before, At, Beyond}, speed : {0}]
  /\ told = FALSE

-----------------------------------------------------------------------------
(* A step: bus_stop decides, then the bus moves.                           *)
Served(b) == [b EXCEPT !.dwelling = 0, !.served = Leg(b.next)]

(* The bus goes on, or is kept where it is by the traffic.                 *)
Rolls(b) == \E p \in {b.at, b.at + 1} : bus' = [b EXCEPT !.at = p, !.speed = p - b.at]

(* It has no stop here, or has been there.                                 *)
NoStop(b) == ~HasStop(b) \/ b.served = Leg(b.next)
Drive(b) == b.at # Over /\ NoStop(b) /\ Rolls(b) /\ UNCHANGED told

(* It is held by the stop ahead, which it may come to too fast.            *)
Approach(b) ==
  /\ ~NoStop(b) /\ b.dwelling = 0 /\ (b.at = Before \/ (b.at = At /\ b.speed > 0))
  /\ Rolls(b) /\ UNCHANGED told

StartDwelling(b) ==
  /\ ~NoStop(b) /\ b.dwelling = 0 /\ b.at = At /\ b.speed = 0
  /\ \E time \in Dwellings : bus' = [b EXCEPT !.dwelling = time]
  /\ UNCHANGED told

DwellOn(b) ==
  /\ ~NoStop(b) /\ b.dwelling > 0
  /\ IF b.dwelling > 1 THEN bus' = [b EXCEPT !.dwelling = @ - 1] /\ UNCHANGED told
     ELSE Rolls(Served(b)) /\ told' = TRUE

(* Slip: a stop passed by is not noted.                                    *)
MissedUnnoted(b) ==
  ~NoStop(b) /\ b.dwelling = 0 /\ b.at = Beyond /\ Rolls(b) /\ UNCHANGED told

Missed(b) ==
  ~NoStop(b) /\ b.dwelling = 0 /\ b.at = Beyond /\ Rolls(Served(b)) /\ told' = TRUE

(* Over the end of the lane (locate): by the loop's connector, or by       *)
(* another, when it could not reach the lane it leaves from; then a new    *)
(* loop is drawn, if there is one, as when it has none.                    *)
TakeNext(b) ==
  /\ b.at = Over /\ b.next # Nowhere
  /\ bus' = [b EXCEPT !.next = IF @ = Line THEN 1 ELSE @ + 1, !.at = Before, !.speed = 1]

TakeOther(b) ==
  /\ b.at = Over
  /\ \E first \in First : bus' = [NewLoop(b, first) EXCEPT !.at = Before, !.speed = 1]

Take(b) == (TakeNext(b) \/ TakeOther(b)) /\ told' = FALSE

(* The loop's next movement cannot be made from here (fill_plan).          *)
Redraw(b) ==
  /\ b.next # Nowhere /\ b.at # Over /\ \E first \in First : bus' = NewLoop(b, first)
  /\ UNCHANGED told

BusNext == \/ Drive(bus) \/ Approach(bus) \/ StartDwelling(bus) \/ DwellOn(bus) \/ Missed(bus)
           \/ Take(bus) \/ Redraw(bus)
BusSpec == BusInit /\ [][BusNext]_busVars

-----------------------------------------------------------------------------
(* The bus stands at every stop of its line whenever it comes by, or       *)
(* counts it as missed: in every round of the loop and over new loops.     *)
ServedEachRound == [][bus.at = Over /\ bus'.at = Before /\ HasStop(bus) => told]_busVars
=============================================================================
