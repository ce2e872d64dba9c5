------------------------------ MODULE MCSimulation ----------------------------
(* A road (lanes w1 and e1 into the junction) crossed by a street (n1 and  *)
(* s1), for TLC: the vehicle comes from w1, the pedestrian walks over the  *)
(* street's mouth, whose lanes are s1 and sx.                              *)
EXTENDS Simulation, TLC

Turning(from, to, turn) == [from |-> from, to |-> to, turn |-> turn]
MCConnectors == <<
  Turning("w1", "ex", "straight"), Turning("w1", "nx", "left"),
  Turning("e1", "wx", "straight"), Turning("e1", "sx", "left"),
  Turning("n1", "sx", "straight"), Turning("s1", "nx", "straight")>>
MCExclusive == {{1, 4}, {2, 3}, {1, 5}, {1, 6}, {3, 5}, {3, 6}, {2, 5}, {2, 6}, {4, 5}, {4, 6}}
MCGroups == <<{"w1", "e1"}, {"n1", "s1"}>>
MCRoads ==
  [p \in {"w1", "off", "box", "ex", "nx"} |->
     CASE p = "w1" -> {"w1", "box", "off", "ex"}
       [] p = "off" -> {"off", "w1", "box"}
       [] p = "box" -> {"box", "w1", "ex", "nx"}
       [] OTHER -> {p, "box"}]
MCHeading == [l \in {"w1", "s1", "e1", "n1"} |->
  CASE l = "w1" -> 0 [] l = "s1" -> 1 [] l = "e1" -> 2 [] OTHER -> 3]
MCRank == [l \in DOMAIN MCHeading |-> 1]
(* Four who meet at the lines, and two who come from far: amber catches    *)
(* them at speeds up to 15, where they can stop comfortably, only by       *)
(* braking hard, or not at all.                                            *)
MCScenes ==
  [way : {<<1, 6, 3, 5>>, <<2, 6, 3, 5>>}, control : {"signal", "stop", "uncontrolled"},
   front : {<<-3, -3, -3, -3>>, <<0, -3, -3, 0>>, <<0, 0, 0, 0>>}]
  \cup [way : {<<1, 6, 3, 5>>}, control : {"signal"},
        front : {<<a, -61, Gone, Gone>> : a \in {-168, -70}}]
MCLegs == <<"walk", "crossing", "walk">>
MCExits == [left |-> {1}, on |-> {2}, right |-> {3}]
MCTurns == {<<"right", "left">>, <<"left", "right">>, <<"on", "on">>, <<"on", "left">>}
MCStarts == {<< <<l[1], 0, m[1]>>, <<l[2], p, m[2]>> >> :
               l \in {<<1, 2>>, <<1, 3>>}, p \in {0, 1}, m \in MCTurns}

(* The windows of this crossing are long enough.                           *)
ASSUME LongWindows == TimeToCross
=============================================================================
