------------------------------- MODULE Signals --------------------------------
(***************************************************************************)
(* The fixed-time controller of a signalized junction                      *)
(* (crates/world/src/signals.rs) and the clock it runs by: how the phases  *)
(* are made of the junction's movements, and what each movement and each   *)
(* pedestrian crossing shows at any time (crates/sim/src/traffic.rs adds   *)
(* the episode's offset).                                                  *)
(*                                                                         *)
(* Times are whole seconds; the clock runs through one cycle, of which all *)
(* that is shown is a function.                                            *)
(***************************************************************************)
EXTENDS Integers, Sequences, FiniteSetsExt, SequencesExt

CONSTANTS
  Connectors,  \* the junction's connectors, in their order: a sequence of
               \* [from, to: lane, turn: "straight", "right", "left", "uturn"]
  Groups,      \* opposing approaches: a sequence of sets of lanes
  Exclusive    \* pairs of connectors that cross or merge

Movement == DOMAIN Connectors
ConflictsWith(a, b) == {a, b} \in Exclusive

Amber == 3
AllRed == 2
ProtectedGreen == 8
MinGreen == 12
MinWalk == 5

ASSUME SignalsAssumption ==
  /\ Connectors \in Seq(ToSet(Connectors)) /\ Groups \in Seq(ToSet(Groups))
  /\ \A c \in Movement : Connectors[c].turn \in {"straight", "right", "left", "uturn"}
  /\ \A c \in Movement : \E k \in DOMAIN Groups : Connectors[c].from \in Groups[k]
  /\ \A e \in Exclusive : e \subseteq Movement /\ Cardinality(e) = 2

VARIABLE now    \* world time plus the episode's offset, into the cycle

-----------------------------------------------------------------------------
(* The phases of one group: straight and right movements first, then left  *)
(* ones, each put into the first phase where it meets nothing exclusive;   *)
(* the protected phases (all but the first) lead their main phase.         *)
TurnOrder(c) == CASE Connectors[c].turn \in {"straight", "right"} -> 0
                  [] Connectors[c].turn = "left" -> 1
                  [] OTHER -> 2

InTurn == [c \in Movement |-> c]
Arriving(g, order) == FoldLeft(
  LAMBDA q, c : IF Connectors[c].from \in g /\ TurnOrder(c) = order THEN Append(q, c) ELSE q,
  <<>>, InTurn)
Queue(g) == Arriving(g, 0) \o Arriving(g, 1) \o Arriving(g, 2)

(* Slip: a movement is tested against the last one of the phase only.      *)
FitsLast(phase, c) == phase = <<>> \/ ~ConflictsWith(c, Last(phase))

Fits(phase, c) == \A k \in DOMAIN phase : ~ConflictsWith(c, phase[k])

(* One pass over what is left: [phase, rest].                              *)
Put(p, c) == IF Fits(p.phase, c) THEN [p EXCEPT !.phase = Append(@, c)]
                                 ELSE [p EXCEPT !.rest = Append(@, c)]
Pass(left) == FoldLeft(Put, [phase |-> <<>>, rest |-> <<>>], left)

(* As many passes as there are movements are enough.                       *)
Another(p, i) ==
  IF p.rest = <<>> THEN p
  ELSE [phases |-> Append(p.phases, Pass(p.rest).phase), rest |-> Pass(p.rest).rest]
Split(queue) == FoldLeft(Another, [phases |-> <<>>, rest |-> queue], InTurn).phases

Marked(split) ==
  [k \in DOMAIN split |-> [connectors |-> ToSet(split[k]), protected |-> k > 1]]
MainLast(phases) == IF phases = <<>> THEN phases ELSE Tail(phases) \o <<Head(phases)>>
GroupPhases(g) == MainLast(Marked(Split(Queue(g))))

(* Target length of a cycle of n phases.                                   *)
TargetCycle(n) == CASE n <= 2 -> 60 [] n = 3 -> 75 [] OTHER -> 90

(* The green of the main ones of n phases.                                 *)
MainGreen(n, protected) ==
  Max({(TargetCycle(n) - n * (Amber + AllRed) - protected * ProtectedGreen) \div Max({n - protected, 1}),
       MinGreen})

Timed(all) == [k \in DOMAIN all |->
  [connectors |-> all[k].connectors, protected |-> all[k].protected,
   green |-> IF all[k].protected THEN ProtectedGreen
             ELSE MainGreen(Len(all), Cardinality({j \in DOMAIN all : all[j].protected}))]]

(* The controller: the phases of one group after the other, with their     *)
(* green times.                                                            *)
Planned == FoldLeft(LAMBDA all, g : all \o GroupPhases(g), <<>>, Groups)
Phases == Timed(Planned)

PhaseOf(ps, c) == CHOOSE k \in DOMAIN ps : c \in ps[k].connectors

-----------------------------------------------------------------------------
(* What a controller of phases ps does.                                    *)
Span(p) == p.green + Amber + AllRed
Length(ps) == MapThenSumSet(LAMBDA k : Span(ps[k]), DOMAIN ps)
Start(ps, k) == MapThenSumSet(LAMBDA j : Span(ps[j]), 1 .. k - 1)

(* The phase running at t (wrapped into the cycle) and the time into it.   *)
Active(ps, t) ==
  CHOOSE k \in DOMAIN ps : t % Length(ps) \in Start(ps, k) .. Start(ps, k) + Span(ps[k]) - 1
Into(ps, k, t) == (t % Length(ps)) - Start(ps, k)

(* Slip: the amber is counted as the next phase's green.                   *)
LightLeftEarly(ps, k, t) ==
  LET green == ps[k].green
      into == Into(ps, k, t)
  IN  IF Active(ps, t) = k /\ into < green THEN <<"green", green - into>>
      ELSE IF Active(ps, t) = k /\ into < green + Amber THEN <<"amber", green + Amber - into>>
      ELSE IF (-into) % Length(ps) <= Amber + AllRed THEN <<"green", green>>
      ELSE <<"red", (-into) % Length(ps)>>

(* The light of phase k at t, and how long it stays so.                    *)
LightLeft(ps, k, t) ==
  LET green == ps[k].green
      into == Into(ps, k, t)
  IN  IF Active(ps, t) = k /\ into < green THEN <<"green", green - into>>
      ELSE IF Active(ps, t) = k /\ into < green + Amber THEN <<"amber", green + Amber - into>>
      ELSE <<"red", (-into) % Length(ps)>>

(* What connector c shows at t, and how long.                              *)
Cycle == Length(Phases)
ShownBy(ps) ==
  [c \in Movement |-> [u \in 0 .. Length(ps) - 1 |-> LightLeft(ps, PhaseOf(ps, c), u)]]
Shown == ShownBy(Phases)
Light(c, t) == Shown[c][t % Cycle][1]
Left(c, t) == Shown[c][t % Cycle][2]

-----------------------------------------------------------------------------
(* The phases in which pedestrians walk over a crossing of the lanes: all  *)
(* that moves there turns, and not in a protected phase.                   *)
WalkPhases(ps, lanes) ==
  {k \in DOMAIN ps : \A c \in ps[k].connectors :
     {Connectors[c].from, Connectors[c].to} \cap lanes # {}
       => Connectors[c].turn # "straight" /\ ~ps[k].protected}

(* The windows: each run of walk phases, from its first to its last one.   *)
After(ps, k) == (k % Len(ps)) + 1
WindowStarts(ps, walks) ==
  IF walks = DOMAIN ps THEN {1} ELSE {k \in walks : \A j \in walks : After(ps, j) # k}
RunOf(ps, walks, k) ==
  LET run(m) == \A j \in 0 .. m : ((k - 1 + j) % Len(ps)) + 1 \in walks
  IN  ((k - 1 + Max({m \in 0 .. Len(ps) - 1 : run(m)})) % Len(ps)) + 1
WindowEnd(ps, walks, k) ==
  LET last == RunOf(ps, walks, k)
      end == Start(ps, last) + ps[last].green + Amber
  IN  IF end <= Start(ps, k) THEN end + Length(ps) ELSE end

(* When the walk light of window k ends: its crossing's clearance time     *)
(* before the window does, at least MinWalk after its start.               *)
WalkStop(ps, walks, clear, k) ==
  Min({Max({WindowEnd(ps, walks, k) - clear, Start(ps, k) + MinWalk}), WindowEnd(ps, walks, k)})

(* Whether pedestrians may start over a crossing that walks in the phases  *)
(* and takes clear s at walking speed, and how long that stays so.         *)
Never == -1
Walk(ps, walks, clear, t) ==
  LET u == t % Length(ps)
      left == {WalkStop(ps, walks, clear, w[1]) - w[2] :
                 w \in {x \in WindowStarts(ps, walks) \X {u, u + Length(ps)} :
                          Start(ps, x[1]) <= x[2] /\ x[2] < WalkStop(ps, walks, clear, x[1])}}
  IN  CASE walks = {} -> <<FALSE, Never>>
        [] left # {} -> <<TRUE, Max(left)>>
        [] OTHER -> <<FALSE, Min({(Start(ps, k) - u) % Length(ps) : k \in WindowStarts(ps, walks)})>>

-----------------------------------------------------------------------------
(* The offset is drawn uniformly over the cycle.                           *)
SignalsInit == now \in 0 .. Cycle - 1
Tick == now' = (now + 1) % Cycle
=============================================================================
