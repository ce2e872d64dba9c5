-------------------------------- MODULE Crowd ---------------------------------
(***************************************************************************)
(* A pedestrian of the crowd (crates/sim/src/pedestrians.rs) on a way with *)
(* a signalized crossing: deciding at the curb, crossing, arriving, being  *)
(* hit, waiting too long, and put back elsewhere; and the list of those on *)
(* the crossing that drivers look at.                                      *)
(*                                                                         *)
(* Places along a walkway are seconds of walking at the pedestrian's own   *)
(* speed; vehicles, other pedestrians and the draws are the environment's. *)
(***************************************************************************)
EXTENDS Signals

CONSTANTS
  Legs,       \* the way: a sequence of "walk" and "crossing"
  WalkLong,   \* length of a walk
  Needs,      \* time a pedestrian may need over the crossing
  Kerb,       \* of it, on the sidewalk at either end
  Curb,       \* CURB: decides this long before the crossing's start
  Clear,      \* the crossing's length at CLEARANCE_SPEED
  Across,     \* the lanes it goes over
  Stuck,      \* STUCK
  HitHold,    \* HIT_HOLD
  Dwells      \* times spent at a destination

(* Places are at the ends of walks, and so are the spots people appear at;  *)
(* no two crossings meet (LaneGraph::with_crossings keeps them apart).      *)
ASSUME CrowdAssumption ==
  /\ Legs \in Seq({"walk", "crossing"}) /\ Legs # <<>>
  /\ Legs[1] = "walk" /\ Legs[Len(Legs)] = "walk"
  /\ \A k \in 1 .. Len(Legs) - 1 : Legs[k] = "walk" \/ Legs[k + 1] = "walk"
  /\ Needs \cup Dwells \subseteq Nat /\ {WalkLong, Kerb, Curb, Clear, Stuck, HitHold} \subseteq Nat

VARIABLES
  ped,      \* the pedestrian
  users     \* crossing_users lists it

(* For the properties: it started on the walk light; nothing held it up.   *)
VARIABLES lawful, freely
crowdVars == <<ped, users, lawful, freely>>

IsCrossing(k) == Legs[k] = "crossing"
LegLong(p) == IF IsCrossing(p.leg) THEN p.need ELSE WalkLong
AtEnd(p) == p.leg = Len(Legs)

(* At its carriageway, rather than at the sidewalk's end.                  *)
OnCarriageway(p) == IsCrossing(p.leg) /\ p.at > Kerb /\ p.at < p.need - Kerb

(* Slip: the crossing is looked for ahead only.                            *)
OnCrossingAhead(p) == p.state = "crossing" /\ ~AtEnd(p) /\ IsCrossing(p.leg + 1)

(* It is on the crossing or committed to it.                               *)
OnCrossing(p) == p.state = "crossing" /\
  \E k \in {p.leg, p.leg + 1} \cap DOMAIN Legs : IsCrossing(k)

(* Put at a random point that is not on a crossing.                        *)
Spots(need) ==
  {[state |-> "walking", leg |-> k, at |-> s, need |-> need, timer |-> 0,
    attentive |-> TRUE, jaywalking |-> FALSE, decided |-> FALSE] :
     k \in {i \in DOMAIN Legs : ~IsCrossing(i)}, s \in 0 .. WalkLong - 1}

CrowdInit ==
  /\ \E need \in Needs : ped \in Spots(need)
  /\ users = FALSE /\ lawful = FALSE /\ freely = FALSE

(* What it drew is of no more use.                                         *)
Undecided(p) == [p EXCEPT !.decided = FALSE, !.attentive = TRUE, !.jaywalking = FALSE]

(* On to the next leg past the end, onto a crossing only once committed;   *)
(* off a crossing it walks again.                                          *)
Onward(p) ==
  IF p.at < LegLong(p) \/ AtEnd(p) \/ (IsCrossing(p.leg + 1) /\ p.state # "crossing") THEN p
  ELSE LET q == [p EXCEPT !.leg = @ + 1, !.at = @ - LegLong(p)]
       IN  IF IsCrossing(p.leg) /\ ~IsCrossing(p.leg + 1)
             THEN Undecided([q EXCEPT !.state = "walking"]) ELSE q

AtCurb(p) == ~AtEnd(p) /\ IsCrossing(p.leg + 1) /\ p.state # "crossing" /\ LegLong(p) - p.at < Curb + 1

(* The draws at the curb, once per crossing.                               *)
Moods == [attentive : BOOLEAN, jaywalking : BOOLEAN]
Drawn(p) == IF p.decided THEN {p}
            ELSE {[p EXCEPT !.attentive = mood.attentive, !.jaywalking = mood.jaywalking,
                            !.decided = TRUE, !.timer = 0] : mood \in Moods}

(* The crossing's walk light at t, and how long it stays so.               *)
Walking == WalkPhases(Phases, Across)
WalkShown == [u \in 0 .. Cycle - 1 |-> Walk(Phases, Walking, Clear, u)]
CrossingWalk(t) == WalkShown[t % Cycle]

(* Slip: the walk light is enough.                                         *)
GreenAtAll(p, t) == CrossingWalk(t)[1]

(* The walk light shows and the crossing is done before the clearance time *)
(* runs out.                                                               *)
Green(p, t) == CrossingWalk(t)[1] /\ p.need <= CrossingWalk(t)[2] + Clear

(* The pedestrian's decisions at t, given whether the traffic leaves a gap *)
(* (asked only by attentive ones).                                         *)
Decide(p, t, gap) ==
  IF (Green(p, t) \/ p.jaywalking) /\ (~p.attentive \/ gap)
    THEN [p EXCEPT !.state = "crossing", !.timer = 0]
    ELSE [p EXCEPT !.state = "waiting", !.timer = Min({@ + 1, Stuck + 1})]
Decisions(p, t) == {Decide(p, t, gap) : gap \in BOOLEAN}

Steer(p, t) ==
  LET q == Onward(p)
  IN  IF AtEnd(q) /\ q.at >= LegLong(q) - 1
        THEN {Undecided([q EXCEPT !.state = "dwelling", !.timer = d]) : d \in Dwells}
      ELSE IF AtCurb(q) THEN UNION {Decisions(d, t) : d \in Drawn(q)}
      ELSE {q}

(* How far it comes in a second: pushed, or on the crossing, attentive to  *)
(* moving vehicles, it may stop; there it may also hurry.                  *)
Strides(p) == CASE p.state \in {"dwelling", "hit", "waiting"} -> {0}
                [] p.state = "crossing" /\ IsCrossing(p.leg) /\ p.attentive -> 0 .. 2
                [] OTHER -> {0, 1}

Hit(p) == Undecided([p EXCEPT !.state = "hit", !.timer = HitHold])

(* It is to be put back elsewhere: hit long ago, in a building, or stuck.  *)
Leaves(p) == \/ p.state \in {"hit", "dwelling"} /\ p.timer <= 0
             \/ p.state = "waiting" /\ p.timer > Stuck

(* At the end of an update: put back if a spot is found, or from a place   *)
(* on the way (not a building's entrance) on to another one.               *)
Depart(p) ==
  IF ~Leaves(p) THEN {p}
  ELSE {p} \cup Spots(p.need)
         \cup (IF p.state = "dwelling" THEN {[p EXCEPT !.state = "walking", !.leg = 1, !.at = 0]} ELSE {})

(* One update after the tick to now': timers and decisions, motion, a      *)
(* vehicle's hit, departures, and the list of those on the crossing.       *)
CrowdUpdate ==
  LET timed == IF ped.state \in {"dwelling", "hit"} THEN {[ped EXCEPT !.timer = Max({@ - 1, 0})]}
               ELSE Steer(ped, now')
  IN  \E q \in timed : \E stride \in Strides(q), hit \in BOOLEAN :
        LET moved == [q EXCEPT !.at = Min({@ + stride, LegLong(q)})]
            struck == IF hit /\ q.state # "hit" THEN Hit(moved) ELSE moved
            starts == q.state = "crossing" /\ Onward(ped).state # "crossing"
        IN  /\ ped' \in Depart(struck)
            /\ users' = OnCrossing(ped')
            /\ lawful' = (IF starts THEN Green(q, now') ELSE lawful /\ ped'.state = "crossing")
            /\ freely' = ((starts \/ freely) /\ stride > 0 /\ ped'.state = "crossing")

-----------------------------------------------------------------------------
Straights == {c \in Movement : Connectors[c].turn = "straight"
                /\ {Connectors[c].from, Connectors[c].to} \cap Across # {}}

(* Who is on the carriageway and was not hit there is in crossing_users    *)
(* (which drivers yield to), since it committed itself at the curb.        *)
CarriagewayKnown == (OnCarriageway(ped) /\ ped.state # "hit") => users

(* The clearance time from when the walk light ends is over by the end of  *)
(* its window's all-red: it is where the window is long enough, so that    *)
(* the light need not show MinWalk at its expense.                         *)
TimeToCross == \A k \in WindowStarts(Phases, Walking) :
  WalkStop(Phases, Walking, Clear, k) + Clear + Curb <= WindowEnd(Phases, Walking, k) + AllRed + Kerb

(* The walk light and the clearance time keep pedestrians from traffic: no *)
(* movement straight over the crossing is let go while the walk light      *)
(* shows, nor while one who started on it and was not held up is on the    *)
(* carriageway.                                                            *)
AcrossInTime == \A c \in Straights : Light(c, now) # "red" =>
  /\ ~CrossingWalk(now)[1]
  /\ ~(OnCarriageway(ped) /\ ped.state = "crossing" /\ lawful /\ freely)
=============================================================================
