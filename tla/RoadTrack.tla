------------------------------ MODULE RoadTrack -------------------------------
(***************************************************************************)
(* Where a ground vehicle is on the roads (RoadTrack in                    *)
(* crates/sim/src/traffic.rs), followed after every policy step to tell    *)
(* whether it ran a red light.                                             *)
(*                                                                         *)
(* A place is a lane the vehicle is inside, heading along it, or a place   *)
(* inside no lane: Off before the stop lines, Box past them.  The          *)
(* environment drives it along Roads, backwards too.                       *)
(***************************************************************************)
EXTENDS Signals

CONSTANTS
  Roads,          \* place -> places a step may lead to
  PendingTimeout  \* PENDING_TIMEOUT

Box == "box"
Off == "off"

(* These are no lanes.                                                     *)
ASSUME RoadTrackAssumption ==
  /\ PendingTimeout \in Nat
  /\ \A c \in Movement : Connectors[c].from \notin {Box, Off}

VARIABLES
  place,      \* where the vehicle is
  lane,       \* the lane followed, or Off
  past,       \* it is past the end of the lane followed
  pending,    \* a stop line crossed with some movements red: [lane, age]
  raised      \* RED_LIGHT events of the last update
trackVars == <<place, lane, past, pending, raised>>

(* For the properties: the last crossing of a stop line since a lane was   *)
(* entered, with the events raised for it, and how long ago a line was     *)
(* crossed while the movement to a lane was red.                           *)
VARIABLES crossing, redAgo

None == [lane |-> Off, age |-> 0]
NotCrossed == [lane |-> Off, age |-> 0, raised |-> 0]
Lanes == DOMAIN Roads \ {Box, Off}
Successors(l) == {c \in Movement : Connectors[c].from = l}
Past(l, q) == Successors(l) # {} /\ q # Off /\ Successors(q) = {}
Ever == PendingTimeout + 2
Later(a) == Min({a + 1, Ever})

TrackInit ==
  /\ place \in DOMAIN Roads /\ Successors(place) # {} /\ lane = place /\ past = FALSE
  /\ pending = None /\ raised = 0
  /\ crossing = NotCrossed
  /\ redAgo = [m \in Lanes |-> Ever]

Older(p) == IF p = None THEN None ELSE [p EXCEPT !.age = @ + 1]

(* Slip: a crossing is judged by the lights when the next lane shows.      *)
TakenRedNow(p, m, t) == \E c \in Successors(p.lane) : Connectors[c].to = m /\ Light(c, t) = "red"

(* The movement from the pending crossing's lane to m was red then.        *)
TakenRed(p, m, t) == \E c \in Successors(p.lane) : Connectors[c].to = m /\ Light(c, t - p.age) = "red"

Red(l, t) == {c \in Successors(l) : Light(c, t) = "red"}

(* Slip: a crossing kept before is not replaced.                           *)
CrossKeepsFirst(l, t) ==
  [pending |-> IF Red(l, t) \notin {{}, Successors(l)} /\ pending = None THEN [lane |-> l, age |-> 0]
               ELSE Older(pending),
   raised |-> IF Red(l, t) = Successors(l) THEN 1 ELSE 0]

(* The stop line of lane l is crossed at t: what is pending then, and      *)
(* whether every movement is red.                                          *)
Cross(l, t) ==
  [pending |-> IF Red(l, t) \notin {{}, Successors(l)} THEN [lane |-> l, age |-> 0] ELSE Older(pending),
   raised |-> IF Red(l, t) = Successors(l) THEN 1 ELSE 0]

(* A crossing is given up after PendingTimeout without a next lane.        *)
InTime(p) == IF p.age > PendingTimeout THEN None ELSE p

(* An update with the vehicle at q: the line of the lane followed is       *)
(* crossed when the vehicle comes past its end no more than half a metre   *)
(* beside it (near); then the lane it is inside, if any, is followed.      *)
TrackUpdate(q, near) ==
  LET crosses == ~past /\ Past(lane, q) /\ near
      line == IF crosses THEN Cross(lane, now') ELSE [pending |-> Older(pending), raised |-> 0]
      entered == q \in Lanes \ {lane}
      red == {Connectors[c].to : c \in Red(lane, now')}
  IN  /\ place' = q
      /\ lane' = IF entered THEN q ELSE lane
      /\ past' = (~entered /\ Past(lane, q))
      /\ pending' = IF entered THEN None ELSE InTime(line.pending)
      /\ raised' = line.raised
           + (IF entered /\ line.pending # None /\ TakenRed(line.pending, q, now') THEN 1 ELSE 0)
      /\ crossing' = IF crosses THEN [lane |-> lane, age |-> 0, raised |-> raised']
                      ELSE IF entered THEN NotCrossed
                      ELSE [crossing EXCEPT !.age = Later(@), !.raised = @ + raised']
      /\ redAgo' = [m \in Lanes |-> IF crosses /\ m \in red THEN 0
                                    ELSE IF entered THEN Ever ELSE Later(redAgo[m])]

Track == \E q \in Roads[place], near \in BOOLEAN : TrackUpdate(q, near)

-----------------------------------------------------------------------------
(* RoadTrack raises RED_LIGHT only for a red light: one that every         *)
(* movement of the line crossed shows, or that the movement taken showed   *)
(* when the line was crossed, in this update or up to PendingTimeout ago.  *)
RaisedForRed == [][raised' > 0 =>
  \/ ~past /\ Red(lane, now') = Successors(lane)
  \/ lane' # lane /\ (redAgo[lane'] <= PendingTimeout \/ redAgo'[lane'] = 0)]_<<trackVars, crossing>>

(* A vehicle that shows its movement within PendingTimeout of its last     *)
(* crossing of a stop line (or in the same update), the movement red at    *)
(* that moment, has RED_LIGHT raised for it: at the line or now, whatever  *)
(* it did between.                                                         *)
TookRed(c, t) == Connectors[c].to = lane' /\ Light(c, t) = "red"
RedIsRaised == [][lane' # lane =>
  IF crossing'.lane = lane
    THEN \A c \in Successors(lane) : TookRed(c, now') => raised' > 0
    ELSE crossing.lane = lane /\ crossing.age <= PendingTimeout /\ crossing.raised = 0 =>
           \A c \in Successors(lane) : TookRed(c, now - crossing.age) => raised' > 0
  ]_<<trackVars, crossing>>
=============================================================================
