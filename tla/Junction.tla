------------------------------- MODULE Junction -------------------------------
(***************************************************************************)
(* Drivers of the traffic at one junction (the junction rules of           *)
(* crates/sim/src/traffic_driver.rs): in every step of the simulation each *)
(* enters its place and its grant into the lane index, then they decide    *)
(* one after the other, in agent order, whether they may enter, and are    *)
(* moved together.                                                         *)
(*                                                                         *)
(* A step is a second.  Distances are whole lengths of a vehicle: a front  *)
(* is at most 0 before the stop line and beyond it on the connector, speed *)
(* changes by 1 a second, by 2 when braking hard.  Two connectors that     *)
(* cross or merge do so from ZoneIn to ZoneOut along either, the margin    *)
(* included.                                                               *)
(***************************************************************************)
EXTENDS Signals

CONSTANTS
  Drivers,      \* 1 .. n, in agent order
  StopLanes,    \* lanes with a stop sign, where the control is "stop"
  Heading,      \* lane -> which way it comes in, in quarter turns to the left
  Rank,         \* lane -> rank of its road's class
  Scenes,       \* which connector the drivers take, the junction's control and
                \* where they start: of [way, control, front]
  MaxSpeed, ZoneIn, ZoneOut,
  DecideFrom,   \* DECIDE
  GrantFrom,    \* GRANT
  CriticalGap,  \* critical_gap
  Deadlock,     \* TrafficDriverSpec::deadlock
  MaxHolds      \* bound of the model: how often a driver is held up

ASSUME JunctionAssumption ==
  /\ IsFiniteSet(Drivers) /\ Drivers = 1 .. Cardinality(Drivers)
  /\ Scenes \subseteq [way : [Drivers -> Movement], control : {"signal", "stop", "uncontrolled"},
                      front : [Drivers -> Int]]
  /\ {MaxSpeed, ZoneIn, ZoneOut, DecideFrom, GrantFrom, CriticalGap, Deadlock, MaxHolds} \subseteq Nat

VARIABLES
  way,        \* driver -> its connector
  control,    \* of the junction
  front, speed,
  granted,    \* the driver's grant of its connector
  waiting,    \* how long it has been standing at the line
  stopped,    \* stopped_at: it has stopped at the stop sign
  hold,       \* the distance it may go at most
  index,      \* the lane index of the step: [grants, waited]
  deciding,   \* the driver that decides next
  full,       \* connectors without room beyond
  holds       \* how often one was held up

places == <<way, control, front, speed>>
junctionVars == <<places, granted, waiting, stopped, hold, index, deciding, full, holds>>

Gone == ZoneOut + 2
Free == 999
Margin == 1     \* TIME_MARGIN
Shows(c) == IF control = "signal" THEN Light(c, now) ELSE "green"
Conflicting(c) == {o \in Movement : ConflictsWith(c, o)}

(* Connector a gives way to b: by the roads' classes, by how they turn, or *)
(* to the right.                                                           *)
TurnRank(c) == CASE Connectors[c].turn = "straight" -> 0 [] Connectors[c].turn = "right" -> 1
                 [] Connectors[c].turn = "left" -> 2     [] OTHER -> 3

GivesWay(a, b) ==
  LET la == Connectors[a].from
      lb == Connectors[b].from
      rel == (Heading[lb] - Heading[la]) % 4
  IN  IF Rank[la] # Rank[lb] THEN Rank[la] < Rank[lb]
      ELSE IF TurnRank(a) # TurnRank(b) THEN TurnRank(a) > TurnRank(b)
      ELSE rel = 1 \/ (rel \in {0, 2} /\ a > b)

Via(o) == {d \in Drivers : way[d] = o /\ front[d] < Gone}
OnConnector(d) == front[d] > 0 /\ front[d] < Gone

(* Distance to stop from v, slowing by b each second.                      *)
Stop[v \in 0 .. MaxSpeed] ==
  [b \in {1, 2} |-> IF v <= b THEN 0 ELSE (v - b) + Stop[v - b][b]]

(* Time to go d from v at full acceleration.                               *)
TravelTime[d \in Int, v \in 0 .. MaxSpeed] ==
  IF d <= 0 THEN 0
  ELSE LET u == Min({v + 1, MaxSpeed}) IN 1 + TravelTime[d - u, u]

JunctionInit ==
  /\ \E s \in Scenes : way = s.way /\ control = s.control /\ front = s.front
  /\ speed = [d \in Drivers |-> 0]
  /\ granted = [d \in Drivers |-> FALSE] /\ waiting = [d \in Drivers |-> 0]
  /\ stopped = [d \in Drivers |-> FALSE] /\ hold = [d \in Drivers |-> Free]
  /\ index = [grants |-> {}, waited |-> {}]
  /\ deciding = 1 /\ full = {} /\ holds = 0

-----------------------------------------------------------------------------
(* Passages of the zone: from when to when.                                *)
Clash(a, b) == a[1] < b[2] + Margin /\ b[1] - Margin < a[2]
MyPassage(d) == <<TravelTime[ZoneIn - front[d], speed[d]], TravelTime[ZoneOut + 1 - front[d], speed[d]]>>
OccupantPassage(o) ==
  <<IF front[o] >= ZoneIn THEN 0 ELSE TravelTime[ZoneIn - front[o], speed[o]],
    IF speed[o] = 0 THEN Free ELSE (ZoneOut + 1 - front[o] + speed[o] - 1) \div speed[o]>>

(* A vehicle on connector o passes the zone when d would.                  *)
Occupied(d, o) == \E x \in Via(o) :
  OnConnector(x) /\ front[x] - 1 <= ZoneOut /\ Clash(OccupantPassage(x), MyPassage(d))

(* Slip: the grants of those who decided before in this step are missed.   *)
CommittedLater(d, o) == \E x \in Via(o) \cap index.grants :
  x > d /\ Clash(MyPassage(x), MyPassage(d))

(* One granted connector o does.                                           *)
Committed(d, o) == \E x \in (Via(o) \cap index.grants) \ {d} : Clash(MyPassage(x), MyPassage(d))

TooSoon(d, x) ==
  (IF speed[x] = 0 THEN TravelTime[ZoneIn - front[x], 0] ELSE (ZoneIn - front[x]) \div speed[x])
    < Max({CriticalGap, MyPassage(d)[2] + Margin})

(* Slip: standing traffic always counts.                                   *)
ApproachedAlways(d, o) == \E x \in Via(o) \ {d} : front[x] <= 0 /\ TooSoon(d, x)

(* Traffic approaching connector o leaves d no gap; once d has waited too  *)
(* long, what stood waiting too when the step began does not count.        *)
Approached(d, o) == \E x \in Via(o) \ {d} :
  front[x] <= 0 /\ TooSoon(d, x) /\ (waiting[d] > Deadlock => x \notin index.waited)

(* Slip: only if comfortable.                                              *)
StopsIfComfortable(d) == Stop[speed[d]][1] <= -front[d]

(* Whether d stops at amber: if comfortable, or when it would not get over *)
(* the line before red and can stop at all.                                *)
StopsAt(d) == \/ Stop[speed[d]][1] <= -front[d]
              \/ /\ -front[d] >= speed[d] * Left(way[d], now)
                 /\ Stop[speed[d]][2] <= -front[d]

Room(d) == way[d] \notin full

(* May d enter its connector?  With a grant it only gives up when it can   *)
(* stop.                                                                   *)
MayEnter(d) ==
  LET c == way[d]
      light == Shows(c)
      lane == Connectors[c].from
  IN  IF light = "red" THEN granted[d] /\ Stop[speed[d]][2] > -front[d]
      ELSE IF light = "amber" /\ StopsAt(d) THEN FALSE
      ELSE IF granted[d] THEN light = "amber" \/ Stop[speed[d]][1] > -front[d] \/ Room(d)
      ELSE /\ control = "stop" /\ lane \in StopLanes => stopped[d]
           /\ Room(d)
           /\ \A o \in Conflicting(c) :
                /\ ~Occupied(d, o) /\ ~Committed(d, o)
                /\ GivesWay(c, o) /\ Shows(o) # "red" => ~Approached(d, o)

(* How far d may go when committed: not into a zone that another occupies. *)
Clearance(d) ==
  IF front[d] <= ZoneIn /\ \E o \in Conflicting(way[d]) : \E x \in Via(o) :
       front[x] >= ZoneIn /\ front[x] - 1 <= ZoneOut
    THEN ZoneIn - front[d] - 1 ELSE Free

-----------------------------------------------------------------------------
(* The decision of driver d, in its turn: its grant, entered into the      *)
(* index at once, and how far it may go.                                   *)
Decided(d) == deciding = d /\ deciding' = deciding + 1

Decision(d, g, w, h) ==
  /\ granted' = [granted EXCEPT ![d] = g]
  /\ waiting' = [waiting EXCEPT ![d] = w]
  /\ hold' = [hold EXCEPT ![d] = h]

Near(d) == -front[d] <= Max({DecideFrom, Stop[speed[d]][1] + 2 * speed[d]}) \/ granted[d]

DecideNothing(d) ==
  /\ Decided(d) /\ (front[d] > 0 \/ ~Near(d))
  /\ Decision(d, FALSE, 0, IF OnConnector(d) THEN Clearance(d) ELSE Free)
  /\ UNCHANGED <<stopped, index>>

StopsHere(d) ==
  stopped' = [stopped EXCEPT ![d] = @ \/ (control = "stop" /\ Connectors[way[d]].from \in StopLanes
                                          /\ speed[d] = 0 /\ front[d] > -1)]

DecideEnter(d) ==
  LET g == granted[d] \/ -front[d] < Max({GrantFrom, 3 * speed[d]})
  IN  /\ Decided(d) /\ front[d] <= 0 /\ Near(d) /\ MayEnter(d)
      /\ Decision(d, g, 0, IF g THEN Clearance(d) ELSE Free)
      /\ index' = [index EXCEPT !.grants = IF g THEN @ \cup {d} ELSE @]
      /\ StopsHere(d)

DecideHold(d) ==
  /\ Decided(d) /\ front[d] <= 0 /\ Near(d) /\ ~MayEnter(d)
  /\ Decision(d, FALSE, IF speed[d] = 0 /\ front[d] > -1 THEN Min({waiting[d] + 1, Deadlock + 1}) ELSE 0, -front[d])
  /\ StopsHere(d) /\ UNCHANGED index

DecideInOrder == \E d \in Drivers : DecideNothing(d) \/ DecideEnter(d) \/ DecideHold(d)

(* The fastest d can go without passing its hold.                          *)
Fastest(d) ==
  Max({Max({speed[d] - 2, 0})} \cup
      {u \in Max({speed[d] - 2, 0}) .. Min({speed[d] + 1, MaxSpeed}) : u + Stop[u][1] <= hold[d]})

(* Everyone moves, one of them perhaps held up by someone else, and the    *)
(* index of the next step is made: places and grants of those before their *)
(* connector.                                                              *)
Move ==
  /\ deciding > Cardinality(Drivers) /\ deciding' = 1
  /\ \E late \in SUBSET {d \in Drivers : front[d] < Gone},
        jam \in SUBSET {way[d] : d \in {e \in Drivers : front[e] <= 0}} :
       /\ Cardinality(late \cup jam) <= 1
       /\ holds' = holds + Cardinality(late \cup jam) /\ holds' <= MaxHolds
       /\ \A d \in late : Fastest(d) > 0
       /\ full' = jam
       /\ speed' = [d \in Drivers |-> IF front[d] = Gone THEN 0
                                     ELSE IF d \in late THEN Max({speed[d] - 2, 0}) ELSE Fastest(d)]
       /\ front' = [d \in Drivers |-> Min({front[d] + speed'[d], Gone})]
       /\ index' = [grants |-> {d \in Drivers : granted[d] /\ front'[d] <= 0},
                    waited |-> {d \in Drivers : waiting[d] > 1}]
  /\ UNCHANGED <<way, control, granted, waiting, stopped, hold>>

-----------------------------------------------------------------------------
InZone(d) == front[d] >= ZoneIn /\ front[d] - 1 <= ZoneOut

(* may_enter lets no two vehicles onto a conflict zone together, in        *)
(* whatever order the drivers decide on the grants of the same step and    *)
(* whoever is held up, let go by the deadlock rule, or caught by amber.    *)
ZonesApart == \A d, e \in Drivers :
  d # e /\ ConflictsWith(way[d], way[e]) => ~(InZone(d) /\ InZone(e))
=============================================================================
