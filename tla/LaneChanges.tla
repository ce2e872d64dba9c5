------------------------------ MODULE LaneChanges ------------------------------
(***************************************************************************)
(* Drivers of the traffic on a road of several lanes that ends at a        *)
(* junction (the lane changes of crates/sim/src/traffic_driver.rs).  In a  *)
(* step all drivers decide on the same snapshot, the lane index, each      *)
(* once, and then move: so that their order does not matter here.          *)
(*                                                                         *)
(* A step is a second and distances are lengths of a vehicle, with the     *)
(* room wanted beside it, as in Junction.  The incentive of a change that  *)
(* is not needed is the environment's choice, and the junction is free.    *)
(***************************************************************************)
EXTENDS Integers, FiniteSets, FiniteSetsExt

CONSTANTS
  Cars,        \* 1 .. n, in agent order
  Street,      \* its lanes are 1 .. Street, from left to right
  RoadLong,
  Exits,       \* movement -> the lanes it can be made from
  TopSpeed,
  MinChange, KeepRoute, Cooldown,   \* MIN_CHANGE, KEEP_ROUTE, COOLDOWN
  GiveUpAfter, \* STUCK
  Starts,      \* <<lane, place, movement>> of each car
  MaxLate      \* bound of the model: how often a car is held up

ASSUME LanesAssumption ==
  /\ Street \in Nat \ {0} /\ RoadLong \in Nat /\ TopSpeed \in Nat \ {0}
  /\ \A m \in DOMAIN Exits : Exits[m] # {} /\ Exits[m] \subseteq 1 .. Street

VARIABLES
  car,     \* car -> [lane, from, until, at, speed, turn, exit, since, stuck]
  lates    \* how often one was held up
lanesVars == <<car, lates>>

NoLane == 0
Away == RoadLong + 1
OnRoad(d) == car[d].at < Away

Distance(a, b) == IF a < b THEN b - a ELSE a - b

(* The lane nearest to l that the movement can be made from, the right one *)
(* of two (TrafficDriver::equivalent).                                     *)
Equivalent(m, l) == CHOOSE x \in Exits[m] : \A y \in Exits[m] :
  Distance(x, l) < Distance(y, l) \/ (Distance(x, l) = Distance(y, l) /\ x >= y)

Placed(start) ==
  [d \in Cars |->
     [lane |-> start[d][1], from |-> NoLane, until |-> 0, at |-> start[d][2], speed |-> 0,
      turn |-> start[d][3], exit |-> Equivalent(start[d][3], start[d][1]),
      since |-> Cooldown, stuck |-> 0]]
LanesInit == (\E start \in Starts : car = Placed(start)) /\ lates = 0

-----------------------------------------------------------------------------
(* The lane index: a car that changes lanes is in both.                    *)
In(l) == {x \in Cars : OnRoad(x) /\ l \in {car[x].lane, car[x].from}}

(* Of two in one place the first in agent order is a little ahead.         *)
Leads(x, d) == car[x].at > car[d].at \/ (car[x].at = car[d].at /\ x < d)
Ahead(d, l) ==
  LET all == {x \in In(l) \ {d} : Leads(x, d)}
  IN  {x \in all : \A y \in all \ {x} : Leads(y, x)}

Braking[v \in 0 .. TopSpeed, b \in {1, 2}] == IF v <= b THEN 0 ELSE v - b + Braking[v - b, b]

(* The distance that x leaves to the one behind who is at place p.         *)
Leeway(x, p) == car[x].at - 1 - p + Braking[car[x].speed, 2]

(* IDM: as fast as the leaders (in the lane it is leaving, too) and the    *)
(* end of a lane that it must leave allow.                                 *)
CanGo(d, u) ==
  LET c == car[d]
      room == {Leeway(x, c.at) : x \in UNION {Ahead(d, l) : l \in {c.lane, c.from}}}
                \cup (IF c.exit # c.lane THEN {RoadLong - c.at} ELSE {})
  IN  \A r \in room : u + Braking[u, 1] <= r

Hardest(d) == Max({car[d].speed - 2, 0})
SpeedOf(d) == Max({Hardest(d)} \cup
  {u \in Hardest(d) .. Min({car[d].speed + 1, TopSpeed}) : CanGo(d, u)})

-----------------------------------------------------------------------------
(* MOBIL: room in lane t, and the new follower need not brake hard, even   *)
(* if it sees the change a step later.                                     *)
Behind(d, l) ==
  LET all == {x \in In(l) \ {d} : car[x].at <= car[d].at}
  IN  {x \in all : \A y \in all : car[y].at <= car[x].at}

Beside(d, t) == \E x \in In(t) \ {d} : car[x].at = car[d].at
AtEase(x, d) == LET u == Min({car[x].speed + 1, TopSpeed})
                IN  u + Braking[u, 2] <= Leeway(d, car[x].at)
Safe(d, t) == ~Beside(d, t) /\ \A x \in Behind(d, t) : AtEase(x, d)

MayChange(d, t) ==
  LET c == car[d]
  IN  /\ t \in 1 .. Street /\ Distance(t, c.lane) = 1
      /\ c.from = NoLane /\ c.since + 1 >= Cooldown
      /\ RoadLong - c.at >= MinChange /\ Safe(d, t)

(* Towards the lane of its next movement a driver changes as soon as it    *)
(* can; away from that lane it may change long before the end.             *)
Needed(d) == {t \in 1 .. Street : MayChange(d, t) /\ Distance(t, car[d].exit) < Distance(car[d].lane, car[d].exit)}
Wanted(d) ==
  LET c == car[d]
  IN  {t \in 1 .. Street : c.exit = c.lane /\ RoadLong - c.at >= KeepRoute /\ MayChange(d, t)}
Changes(d) == IF Needed(d) # {} THEN Needed(d) ELSE {car[d].lane} \cup Wanted(d)

(* Standing at the end of a lane that does not lead to its movement.       *)
AtWrongEnd(c) == c.exit # c.lane /\ c.at = RoadLong /\ c.speed = 0
StuckFor(c) == IF AtWrongEnd(c) THEN c.stuck + 1 ELSE IF c.exit # c.lane THEN 0 ELSE c.stuck

(* What it may do then: any movement from its lane, if there is one.       *)
Chosen(c) ==
  LET own == {m \in DOMAIN Exits : c.lane \in Exits[m]}
  IN  {[turn |-> m, exit |-> Equivalent(m, c.lane)] : m \in IF own # {} THEN own ELSE DOMAIN Exits}

(* Slip: it waits for its turn for ever.                                   *)
PlansKept(c) == {[turn |-> c.turn, exit |-> c.exit]}

Plans(c) == IF StuckFor(c) > GiveUpAfter THEN Chosen(c) ELSE {[turn |-> c.turn, exit |-> c.exit]}

(* The decision of driver d with what it chose, and its move at speed u.   *)
Moved(c, plan, t, u) ==
  LET ended == c.from # NoLane /\ c.at >= c.until
      over == c.at + u > RoadLong
  IN  [c EXCEPT !.at = IF over THEN Away ELSE @ + u,
                !.speed = IF over THEN 0 ELSE u,
                !.lane = t,
                !.from = IF t # c.lane THEN c.lane ELSE IF ended \/ over THEN NoLane ELSE @,
                !.until = IF t # c.lane THEN c.at + Max({MinChange, 2 * c.speed}) ELSE @,
                !.since = IF ended THEN 0 ELSE Min({@ + 1, Cooldown}),
                !.turn = plan.turn,
                !.exit = IF t # c.lane THEN Equivalent(plan.turn, t) ELSE plan.exit,
                !.stuck = IF StuckFor(c) > GiveUpAfter THEN 0 ELSE StuckFor(c)]

(* What may become of d in a step, held up by something else or not.       *)
Courses(d, late) ==
  LET c == car[d]
      u == IF late THEN Hardest(d) ELSE SpeedOf(d)
  IN  IF OnRoad(d) THEN {Moved(c, plan, t, u) : plan \in Plans(c), t \in Changes(d)} ELSE {c}

Road ==
  /\ \E d \in Cars : OnRoad(d)
  /\ \E late \in {{}} \cup {{d} : d \in {x \in Cars : OnRoad(x) /\ SpeedOf(x) > Hardest(x)}} :
       /\ lates' = lates + Cardinality(late) /\ lates' <= MaxLate
       /\ LET courses == UNION {{<<d, c>> : c \in Courses(d, d \in late)} : d \in Cars}
          IN  \E next \in [Cars -> {c[2] : c \in courses}] :
                (\A d \in Cars : <<d, next[d]>> \in courses) /\ car' = next

=============================================================================
