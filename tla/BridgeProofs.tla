---------------------------- MODULE BridgeProofs -----------------------------
(***************************************************************************)
(* The bridge's safety properties, for any agents, limits and numbers of   *)
(* commands, resets and pauses.                                            *)
(***************************************************************************)
EXTENDS Bridge, TLAPS

Flags == {"initial", "hold", "policy", "command"}

(* Every part of the state the properties look at is of its kind; a good   *)
(* command has a number.                                                   *)
Typed ==
  /\ pc \in Points
  /\ offset \in Nat /\ wtime \in Nat /\ episodes \in Nat /\ steps \in Nat
  /\ paused \in BOOLEAN /\ resetRequested \in BOOLEAN /\ waiting \in BOOLEAN
  /\ timedOut \in BOOLEAN /\ lockstep \in BOOLEAN
  /\ holding \subseteq Commanded /\ fresh \subseteq Commanded
  /\ last \in [Agents -> Nat \cup {NoTime}]
  /\ doing \in [Agents -> [what : Flags, n : Nat]]
  /\ taken \in [Agents -> [n : Nat, at : Nat \cup {NoTime}, episode : Nat]]
  /\ clock \in Nat \cup {NoTime}
  /\ sent \in Nat /\ resets \in Nat /\ promised \in Nat
  /\ pauses \in Seq(BOOLEAN)

Command == [n : Nat, good : BOOLEAN]
Numbered(m) == m \in [Agents -> Command] /\ \A a \in Agents : m[a].good => m[a].n # 0
Topics == Numbered(twist) /\ Numbered(action) /\ Numbered(got)

(* An agent's last command is the one taken for it in this episode, and it *)
(* does that until it is told to hold, which it is not before it is idle.  *)
AgentOK(a) ==
  /\ taken[a].episode <= episodes
  /\ last[a] = NoTime <=> ~(taken[a].n # 0 /\ taken[a].episode = episodes)
  /\ last[a] # NoTime => taken[a].at = last[a] /\ last[a] <= Time
  /\ last[a] # NoTime /\ a \notin holding => doing[a] = Told("command", taken[a].n)
  /\ a \in holding => doing[a] = Told("hold", 0) /\ a \in Idle
CommandsOK ==
  /\ \A a \in Commanded : AgentOK(a)
  /\ pc = "held" => Idle \subseteq holding

(* Simulated time is the number of steps, and the clock is not ahead.      *)
TimeOK == Time = steps /\ clock <= Time

(* A reset is remembered exactly when an episode is promised for it.       *)
ResetOK ==
  /\ pc = "idle" => ~resetRequested
  /\ pc # "idle" => /\ promised \in {0, episodes + 2}
                    /\ resetRequested <=> promised # 0

(* What is fresh was taken since the last step; a wait that is over has    *)
(* found every agent fresh, or the pause, or a reset, or reached its limit.*)
WaitOK ==
  /\ \A a \in fresh : taken[a].n # 0 /\ taken[a].at = Time
  /\ pc \in {"turn", "held"} /\ waiting /\ ~timedOut =>
       Commanded \subseteq fresh \/ paused \/ resetRequested
  /\ pc = "held" => ~paused

Inv == Typed /\ Topics /\ CommandsOK /\ TimeOK /\ ResetOK /\ WaitOK

(* Bridge::new establishes the invariant.                                  *)
LEMMA InitInv == Init => Inv
<1> SUFFICES ASSUME Init PROVE Inv
  OBVIOUS
<1> USE BridgeAssumption
<1>1. Typed
  <2>1. doing \in [Agents -> [what : Flags, n : Nat]]
    BY DEF Init, InitAgents, Flags, Told
  <2>2. taken \in [Agents -> [n : Nat, at : Nat \cup {NoTime}, episode : Nat]]
    BY DEF Init
  <2>3. last \in [Agents -> Nat \cup {NoTime}] /\ holding \subseteq Commanded /\ fresh \subseteq Commanded
    BY DEF Init, InitAgents
  <2>4. pauses \in Seq(BOOLEAN) /\ pc \in Points
    BY DEF Init, Points
  <2> QED
    BY <2>1, <2>2, <2>3, <2>4 DEF Init, Typed
<1>2. Topics
  BY DEF Init, InitAgents, Topics, Numbered, Command, NoCommand
<1>3. CommandsOK
  BY DEF Init, InitAgents, CommandsOK, AgentOK, Commanded, NoTime
<1>4. TimeOK /\ ResetOK /\ WaitOK
  BY DEF Init, InitAgents, TimeOK, Time, ResetOK, WaitOK, NoTime
<1> QED
  BY <1>1, <1>2, <1>3, <1>4 DEF Inv

-----------------------------------------------------------------------------
(* The typing, step by step.                                               *)
LEMMA NewEpisodeTyped ==
  ASSUME Typed, NewEpisode
  PROVE  /\ offset' \in Nat /\ wtime' \in Nat /\ episodes' \in Nat
         /\ resetRequested' \in BOOLEAN
         /\ holding' \subseteq Commanded
         /\ last' \in [Agents -> Nat \cup {NoTime}]
         /\ doing' \in [Agents -> [what : Flags, n : Nat]]
         /\ Time' = Time
<1>1. /\ offset' = Time /\ wtime' = 0 /\ Time \in Nat /\ Time' = offset' + wtime'
  BY DEF Typed, NewEpisode, Anew, Time
<1>2. doing' \in [Agents -> [what : Flags, n : Nat]]
  BY DEF NewEpisode, Anew, Told, Flags
<1>3. resetRequested' \in BOOLEAN /\ holding' \subseteq Commanded
  BY DEF NewEpisode, Anew
<1>4. last' \in [Agents -> Nat \cup {NoTime}] /\ episodes' \in Nat
  BY DEF Typed, NewEpisode, Anew
<1>5. Time' = Time
  BY <1>1 DEF Typed
<1> QED
  BY <1>1, <1>2, <1>3, <1>4, <1>5

(* Every step of the bridge and of its clients keeps the typing.           *)
LEMMA StepTyped == Typed /\ Topics /\ [Next]_vars => Typed' /\ Topics'
<1> SUFFICES ASSUME Typed, Topics, [Next]_vars PROVE Typed' /\ Topics'
  OBVIOUS
<1> USE BridgeAssumption
<1> USE DEF worldVars, bridgeVars, clientVars, history
<1>1. CASE Begin
  <2>1. waiting' \in BOOLEAN
    BY <1>1, Zenon DEF Begin
  <2>2. clock' \in Nat \cup {NoTime}
    BY <1>1 DEF Begin, Resend, Typed, Time
  <2> QED
    BY <1>1, <2>1, <2>2 DEF Begin, Typed, Topics, Numbered, Points
<1>2. CASE PollTwists
  BY <1>2 DEF PollTwists, Typed, Topics, Numbered, Points, NoCommand, Command
<1>3. CASE PollActions
  <2>1. \A a \in Accepted : a \in Agents /\ Received(a) \in Command
    BY DEF Accepted, Commanded, Received, Topics, Numbered
  <2>2. Time \in Nat
    BY DEF Typed, Time
  <2>3. doing' \in [Agents -> [what : Flags, n : Nat]]
    BY <1>3, <2>1 DEF PollActions, Typed, Told, Flags, Command
  <2>4. last' \in [Agents -> Nat \cup {NoTime}]
    BY <1>3, <2>2 DEF PollActions, Typed
  <2>5. taken' \in [Agents -> [n : Nat, at : Nat \cup {NoTime}, episode : Nat]]
    BY <1>3, <2>1, <2>2 DEF PollActions, Typed, Command
  <2>6. holding' \subseteq Commanded /\ fresh' \subseteq Commanded
    BY <1>3 DEF PollActions, Typed, HoldingOn, Accepted
  <2>7. Typed'
    BY <1>3, <2>3, <2>4, <2>5, <2>6 DEF PollActions, Typed, Points, Commanded
  <2>8. Topics'
    BY <1>3 DEF PollActions, Topics, Numbered, NoCommand, Command
  <2> QED
    BY <2>7, <2>8
<1>4. CASE PollResets
  BY <1>4 DEF PollResets, Typed, Topics, Numbered, Points
<1>5. CASE PollPauses
  <2>1. paused' \in BOOLEAN /\ pauses' \in Seq(BOOLEAN)
    BY <1>5 DEF PollPauses, Typed
  <2> QED
    BY <1>5, <2>1 DEF PollPauses, Typed, Topics, Numbered, Points
<1>6. CASE PollOver
  BY <1>6 DEF PollOver, Typed, Topics, Numbered, Points
<1>7. CASE WaitTimesOut
  BY <1>7 DEF WaitTimesOut, Typed, Topics, Numbered, Points
<1>8. CASE WaitAgain
  BY <1>8 DEF WaitAgain, Resend, Typed, Topics, Numbered, Points, Time
<1>9. CASE PausedReset
  BY <1>9, NewEpisodeTyped DEF PausedReset, Typed, Topics, Numbered, Points, Time
<1>10. CASE PausedTurn
  BY <1>10 DEF PausedTurn, Typed, Topics, Numbered, Points
<1>11. CASE HoldIdle
  <2>1. holding' \subseteq Commanded
    BY <1>11 DEF HoldIdle, Idle, Typed
  <2>2. doing' \in [Agents -> [what : Flags, n : Nat]]
    BY <1>11 DEF HoldIdle, Typed, Told, Flags
  <2> QED
    BY <1>11, <2>1, <2>2 DEF HoldIdle, Typed, Topics, Numbered, Points
<1>12. CASE StepWorld
  BY <1>12 DEF StepWorld, Typed, Topics, Numbered, Points
<1>13. CASE EndStep
  <2>1. CASE Over \/ resetRequested
    BY <1>13, <2>1, NewEpisodeTyped DEF EndStep, Typed, Topics, Numbered, Points, Time
  <2>2. CASE ~(Over \/ resetRequested)
    BY <1>13, <2>2 DEF EndStep, Typed, Topics, Numbered, Points, Time
  <2> QED
    BY <2>1, <2>2
<1>14. ASSUME NEW a \in Agents, SendTwist(a) \/ SendAction(a) PROVE Typed' /\ Topics'
  <2>1. /\ sent' \in Nat /\ sent + 1 # 0
        /\ UNCHANGED <<pc, bridgeVars, resets, pauses, called, history>>
    BY <1>14 DEF SendTwist, SendAction, Typed
  <2>2. Typed'
    BY <2>1 DEF Typed
  <2>3. \A m, g : Numbered(m) /\ g \in BOOLEAN =>
          Numbered([m EXCEPT ![a] = [n |-> sent + 1, good |-> g]])
    BY <2>1 DEF Numbered, Command, Typed
  <2>4. CASE SendTwist(a)
    <3>1. Numbered(twist')
      BY <2>3, <2>4 DEF SendTwist, Topics
    <3> QED
      BY <2>1, <2>2, <2>4, <3>1 DEF SendTwist, Topics, Numbered
  <2>5. CASE SendAction(a)
    <3>1. PICK g \in BOOLEAN : action' = [action EXCEPT ![a] = [n |-> sent + 1, good |-> g]]
      BY <2>5, Zenon DEF SendAction
    <3>2. Numbered(action')
      BY <2>3, <3>1 DEF Topics
    <3> QED
      BY <2>1, <2>2, <2>5, <3>2 DEF SendAction, Topics, Numbered
  <2> QED
    BY <1>14, <2>4, <2>5
<1>15. CASE CallReset
  BY <1>15 DEF CallReset, Typed, Topics, Numbered
<1>16. CASE CallPause
  BY <1>16 DEF CallPause, Typed, Topics, Numbered
<1>17. CASE UNCHANGED vars
  BY <1>17 DEF vars, Typed, Topics, Numbered
<1> QED
  BY <1>1, <1>2, <1>3, <1>4, <1>5, <1>6, <1>7, <1>8, <1>9, <1>10, <1>11, <1>12, <1>13,
     <1>14, <1>15, <1>16, <1>17 DEF Next, Step, Poll, Wait, Clients, Ended

-----------------------------------------------------------------------------
(* The commands, step by step: most steps leave all they are told alone.   *)
CommandVars == <<Time, episodes, last, holding, doing, taken>>

(* A step that changes none of these leaves the agents as they are.        *)
LEMMA SameCommands ==
  ASSUME CommandsOK, UNCHANGED CommandVars, pc' = "held" => pc = "held"
  PROVE  CommandsOK'
BY DEF CommandVars, CommandsOK, AgentOK, Idle

(* A new episode takes every command back.                                 *)
LEMMA NewEpisodeCommands ==
  ASSUME Typed, CommandsOK, NewEpisode, taken' = taken, pc' # "held"
  PROVE  CommandsOK'
<1> SUFFICES ASSUME NEW a \in Commanded PROVE AgentOK(a)'
  BY DEF CommandsOK
<1>1. a \in Agents /\ taken[a].episode <= episodes /\ episodes' = episodes + 1
  BY DEF Commanded, CommandsOK, AgentOK, NewEpisode, Anew
<1>2. last'[a] = NoTime /\ holding' = {} /\ taken'[a].episode < episodes'
  BY <1>1 DEF NewEpisode, Anew, Typed
<1> QED
  BY <1>1, <1>2 DEF AgentOK, Typed

(* Every step keeps to what is known of last commands and holding.         *)
LEMMA StepCommands == Typed /\ Topics /\ CommandsOK /\ [Next]_vars => CommandsOK'
<1> SUFFICES ASSUME Typed, Topics, CommandsOK, [Next]_vars PROVE CommandsOK'
  OBVIOUS
<1> USE BridgeAssumption
<1> USE DEF worldVars, bridgeVars, clientVars, history
<1>1. CASE Begin
  BY <1>1, SameCommands DEF Begin, CommandVars, Time
<1>2. CASE PollTwists
  BY <1>2, SameCommands DEF PollTwists, CommandVars, Time
<1>3. CASE PollActions
  <2>1. pc' # "held" /\ Time \in Nat /\ Time' = Time /\ episodes' = episodes
    BY <1>3 DEF PollActions, Time, Typed
  <2>2. SUFFICES ASSUME NEW a \in Commanded PROVE AgentOK(a)'
    BY <2>1 DEF CommandsOK
  <2>3. a \in Agents /\ AgentOK(a)
    BY DEF Commanded, CommandsOK
  <2>4. CASE a \in Accepted
    <3>1. Received(a).n # 0 /\ Received(a).n \in Nat
      BY <2>3, <2>4 DEF Accepted, Received, Topics, Numbered, Command
    <3>2. /\ last'[a] = Time /\ a \notin holding'
          /\ taken'[a] = [n |-> Received(a).n, at |-> Time, episode |-> episodes]
          /\ doing'[a] = Told("command", Received(a).n)
      BY <1>3, <2>3, <2>4 DEF PollActions, HoldingOn
    <3> QED
      BY <2>1, <3>1, <3>2 DEF AgentOK, Typed, NoTime
  <2>5. CASE a \notin Accepted
    <3>1. /\ last'[a] = last[a] /\ (a \in holding' <=> a \in holding)
          /\ taken'[a] = taken[a] /\ doing'[a] = doing[a]
      BY <1>3, <2>3, <2>5 DEF PollActions, HoldingOn
    <3> QED
      BY <2>1, <2>3, <3>1 DEF AgentOK, Idle
  <2> QED
    BY <2>4, <2>5
<1>4. CASE PollResets
  BY <1>4, SameCommands DEF PollResets, CommandVars, Time
<1>5. CASE PollPauses
  BY <1>5, SameCommands DEF PollPauses, CommandVars, Time
<1>6. CASE PollOver
  BY <1>6, SameCommands DEF PollOver, CommandVars, Time
<1>7. CASE WaitTimesOut
  BY <1>7, SameCommands DEF WaitTimesOut, CommandVars, Time
<1>8. CASE WaitAgain
  BY <1>8, SameCommands DEF WaitAgain, CommandVars, Time
<1>9. CASE PausedReset
  BY <1>9, NewEpisodeCommands DEF PausedReset
<1>10. CASE PausedTurn
  BY <1>10, SameCommands DEF PausedTurn, CommandVars, Time
<1>11. CASE HoldIdle
  <2>1. /\ Time' = Time /\ UNCHANGED <<episodes, last, taken>> /\ holding' = holding \cup Idle
        /\ Idle' = Idle
    BY <1>11 DEF HoldIdle, Time, Idle
  <2>2. SUFFICES ASSUME NEW a \in Commanded PROVE AgentOK(a)'
    BY <2>1 DEF CommandsOK
  <2>3. a \in Agents /\ a \notin Flown /\ AgentOK(a)
    BY DEF Commanded, CommandsOK
  <2>4. doing'[a] = IF a \in Idle \ holding THEN Told("hold", 0) ELSE doing[a]
    BY <1>11, <2>3 DEF HoldIdle
  <2> QED
    BY <2>1, <2>3, <2>4 DEF AgentOK
<1>12. CASE StepWorld
  <2>1. /\ pc' # "held" /\ Time' = Time + 1 /\ Time \in Nat
        /\ UNCHANGED <<episodes, last, holding, doing, taken>>
    BY <1>12 DEF StepWorld, Time, Typed
  <2>2. Idle \subseteq Idle'
    <3> SUFFICES ASSUME NEW a \in Idle, last[a] # NoTime PROVE Time' - last'[a] > CommandTimeout
      BY <2>1 DEF Idle
    <3>1. last[a] \in Nat /\ Time - last[a] > CommandTimeout
      BY DEF Idle, Typed, Commanded
    <3> QED
      BY <2>1, <3>1
  <2>3. \A a \in Commanded : last[a] # NoTime => last[a] \in Nat
    BY DEF Typed, Commanded
  <2> QED
    BY <2>1, <2>2, <2>3 DEF CommandsOK, AgentOK
<1>13. CASE EndStep
  <2>1. CASE Over \/ resetRequested
    BY <1>13, <2>1, NewEpisodeCommands DEF EndStep
  <2>2. CASE ~(Over \/ resetRequested)
    BY <1>13, <2>2, SameCommands DEF EndStep, CommandVars, Time
  <2> QED
    BY <2>1, <2>2
<1>14. ASSUME NEW a \in Agents, SendTwist(a) \/ SendAction(a) PROVE CommandsOK'
  BY <1>14, SameCommands DEF SendTwist, SendAction, CommandVars, Time
<1>15. CASE CallReset
  BY <1>15, SameCommands DEF CallReset, CommandVars, Time
<1>16. CASE CallPause
  BY <1>16, SameCommands DEF CallPause, CommandVars, Time
<1>17. CASE UNCHANGED vars
  BY <1>17, SameCommands DEF vars, CommandVars, Time
<1> QED
  BY <1>1, <1>2, <1>3, <1>4, <1>5, <1>6, <1>7, <1>8, <1>9, <1>10, <1>11, <1>12, <1>13,
     <1>14, <1>15, <1>16, <1>17 DEF Next, Step, Poll, Wait, Clients, Ended

-----------------------------------------------------------------------------
(* Time, resets and waits, step by step.                                   *)
Rest == TimeOK /\ ResetOK /\ WaitOK

(* Every step keeps time, resets and waits as they are said to be.         *)
LEMMA StepRest == Typed /\ Topics /\ Rest /\ [Next]_vars => Rest'
<1> SUFFICES ASSUME Typed, Topics, Rest, [Next]_vars PROVE Rest'
  OBVIOUS
<1> USE DEF worldVars, bridgeVars, clientVars, history
<1>t. Time \in Nat /\ clock <= Time
  BY DEF Typed, Time, Rest, TimeOK
<1>1. CASE Begin
  <2>1. TimeOK'
    BY <1>1, <1>t DEF Begin, Resend, Rest, TimeOK, Time
  <2>2. ResetOK' /\ WaitOK'
    BY <1>1 DEF Begin, Rest, ResetOK, WaitOK, Time
  <2> QED
    BY <2>1, <2>2 DEF Rest
<1>2. CASE PollTwists
  BY <1>2 DEF PollTwists, Rest, TimeOK, ResetOK, WaitOK, Time
<1>3. CASE PollActions
  <2>1. TimeOK' /\ ResetOK'
    BY <1>3 DEF PollActions, Rest, TimeOK, ResetOK, Time
  <2>2. \A a \in fresh' : taken'[a].n # 0 /\ taken'[a].at = Time'
    <3> SUFFICES ASSUME NEW a \in fresh' PROVE taken'[a].n # 0 /\ taken'[a].at = Time'
      OBVIOUS
    <3>1. a \in Agents /\ Time' = Time
      BY <1>3 DEF PollActions, Typed, Commanded, Accepted, Time
    <3>2. CASE a \in Accepted
      <4>1. Received(a).n # 0
        BY <3>1, <3>2 DEF Accepted, Received, Topics, Numbered
      <4>2. taken'[a] = [n |-> Received(a).n, at |-> Time, episode |-> episodes]
        BY <1>3, <3>1, <3>2 DEF PollActions
      <4> QED
        BY <3>1, <4>1, <4>2
    <3>3. CASE a \notin Accepted
      BY <1>3, <3>1, <3>3 DEF PollActions, Rest, WaitOK
    <3> QED
      BY <3>2, <3>3
  <2> QED
    BY <1>3, <2>1, <2>2 DEF PollActions, Rest, WaitOK
<1>4. CASE PollResets
  <2>1. resetRequested' <=> resetRequested \/ resets > 0
    BY <1>4, Zenon DEF PollResets
  <2>2. TimeOK' /\ ResetOK'
    BY <1>4, <2>1 DEF PollResets, Typed, Rest, TimeOK, ResetOK, Time
  <2>3. WaitOK'
    BY <1>4 DEF PollResets, Rest, WaitOK, Time
  <2> QED
    BY <2>2, <2>3 DEF Rest
<1>5. CASE PollPauses
  BY <1>5 DEF PollPauses, Rest, TimeOK, ResetOK, WaitOK, Time
<1>6. CASE PollOver
  BY <1>6 DEF PollOver, WaitEnds, Rest, TimeOK, ResetOK, WaitOK, Time
<1>7. CASE WaitTimesOut
  BY <1>7 DEF WaitTimesOut, Rest, TimeOK, ResetOK, WaitOK, Time
<1>8. CASE WaitAgain
  <2>1. TimeOK'
    BY <1>8, <1>t DEF WaitAgain, Resend, Rest, TimeOK, Time
  <2> QED
    BY <1>8, <2>1 DEF WaitAgain, Rest, ResetOK, WaitOK, Time
<1>9. CASE PausedReset
  <2>1. Time' = Time
    BY <1>9, NewEpisodeTyped DEF PausedReset
  <2> QED
    BY <1>9, <1>t, <2>1 DEF PausedReset, NewEpisode, Anew, Rest, TimeOK, ResetOK, WaitOK
<1>10. CASE PausedTurn
  BY <1>10 DEF PausedTurn, Rest, TimeOK, ResetOK, WaitOK, Time
<1>11. CASE HoldIdle
  BY <1>11 DEF HoldIdle, Standing, Rest, TimeOK, ResetOK, WaitOK, Time
<1>12. CASE StepWorld
  BY <1>12, <1>t DEF StepWorld, Typed, Rest, TimeOK, ResetOK, WaitOK, Time
<1>13. CASE EndStep
  <2>1. Time' = Time
    BY <1>13, NewEpisodeTyped DEF EndStep, Time
  <2>2. ~resetRequested'
    BY <1>13 DEF EndStep, NewEpisode, Anew
  <2> QED
    BY <1>13, <1>t, <2>1, <2>2 DEF EndStep, Rest, TimeOK, ResetOK, WaitOK
<1>14. ASSUME NEW a \in Agents, SendTwist(a) \/ SendAction(a) PROVE Rest'
  BY <1>14 DEF SendTwist, SendAction, Rest, TimeOK, ResetOK, WaitOK, Time
<1>15. CASE CallReset
  BY <1>15 DEF CallReset, Rest, TimeOK, ResetOK, WaitOK, Time
<1>16. CASE CallPause
  BY <1>16 DEF CallPause, Rest, TimeOK, ResetOK, WaitOK, Time
<1>17. CASE UNCHANGED vars
  BY <1>17 DEF vars, Rest, TimeOK, ResetOK, WaitOK, Time
<1> QED
  BY <1>1, <1>2, <1>3, <1>4, <1>5, <1>6, <1>7, <1>8, <1>9, <1>10, <1>11, <1>12, <1>13,
     <1>14, <1>15, <1>16, <1>17 DEF Next, Step, Poll, Wait, Clients, Ended

(* The inductive invariant holds in every behaviour.                       *)
LEMMA Invariance == Spec => []Inv
<1>1. Inv /\ [Next]_vars => Inv'
  BY StepTyped, StepCommands, StepRest DEF Inv, Rest
<1> QED
  BY <1>1, InitInv, PTL DEF Spec

-----------------------------------------------------------------------------
(* When the world steps every commanded agent does the latest command      *)
(* taken for it in this episode, if that is recent, and holds otherwise    *)
(* (command, hold_idle and new_episode keep this between them).            *)
THEOREM AgentsObey == Spec => []Obeys
<1>1. Inv => Obeys
  <2> SUFFICES ASSUME Inv, pc = "held", NEW a \in Commanded
               PROVE  doing[a] = IF taken[a].n # 0 /\ taken[a].episode = episodes
                                    /\ Time - taken[a].at <= CommandTimeout
                                 THEN Told("command", taken[a].n) ELSE Told("hold", 0)
    BY DEF Obeys
  <2>1. AgentOK(a) /\ Idle \subseteq holding /\ a \in Agents
    BY DEF Inv, CommandsOK, Commanded
  <2>2. last[a] \in Nat \cup {NoTime} /\ Time \in Nat /\ CommandTimeout \in Nat
    BY <2>1, BridgeAssumption DEF Inv, Typed, Time
  <2>3. CASE a \in Idle
    BY <2>1, <2>2, <2>3 DEF AgentOK, Idle, NoTime
  <2>4. CASE a \notin Idle
    BY <2>1, <2>2, <2>4 DEF AgentOK, Idle, NoTime
  <2> QED
    BY <2>3, <2>4
<1> QED
  BY <1>1, Invariance, PTL

(* The clock that ROS nodes see never jumps and never goes back, whatever  *)
(* episodes begin and end (Bridge::time, new_episode's offset).            *)
THEOREM ClockGoesOn == Spec => ClockContinuous
<1>1. Inv /\ Inv' /\ [Next]_vars =>
        [/\ (offset + wtime)' - Time = steps' - steps
         /\ clock' # clock => clock' = (offset + wtime)' /\ clock' >= clock]_vars
  <2> SUFFICES ASSUME Inv, Inv', Next
               PROVE  /\ (offset + wtime)' - Time = steps' - steps
                      /\ clock' # clock => clock' = (offset + wtime)' /\ clock' >= clock
    OBVIOUS
  <2>1. /\ Time = steps /\ Time' = steps' /\ clock <= Time /\ Time' = (offset + wtime)'
        /\ steps \in Nat /\ steps' \in Nat /\ clock \in Int /\ steps' >= steps
        /\ clock' # clock => clock' = Time'
    <3>1. /\ Time = steps /\ Time' = steps' /\ clock <= Time /\ Time' = (offset + wtime)'
          /\ steps \in Nat /\ steps' \in Nat /\ clock \in Int
      <4>1. Time = steps /\ Time' = steps' /\ clock <= Time
        BY DEF Inv, TimeOK
      <4>2. steps \in Nat /\ steps' \in Nat /\ clock \in Int
        BY DEF Inv, Typed, NoTime
      <4>3. Time' = (offset + wtime)'
        BY DEF Time
      <4> QED
        BY <4>1, <4>2, <4>3
    <3> USE DEF worldVars, bridgeVars, clientVars, history
    <3>2. CASE Begin \/ WaitAgain \/ PausedReset \/ EndStep
      <4>1. CASE Begin
        BY <3>1, <4>1 DEF Begin, Resend, Time
      <4>2. CASE WaitAgain
        BY <3>1, <4>2 DEF WaitAgain, Resend, Time
      <4>3. CASE PausedReset
        BY <3>1, <4>3, SMT DEF PausedReset, Time
      <4>4. CASE EndStep
        BY <3>1, <4>4, SMT DEF EndStep, Time
      <4> QED
        BY <3>2, <4>1, <4>2, <4>3, <4>4
    <3>3. CASE PollTwists \/ PollActions \/ PollResets \/ PollPauses
      BY <3>1, <3>3 DEF PollTwists, PollActions, PollResets, PollPauses
    <3>4. CASE PollOver \/ WaitTimesOut \/ PausedTurn \/ HoldIdle \/ StepWorld
      BY <3>1, <3>4 DEF PollOver, WaitTimesOut, PausedTurn, HoldIdle, StepWorld
    <3>5. CASE Clients \/ Ended
      BY <3>1, <3>5 DEF Clients, SendTwist, SendAction, CallReset, CallPause, Ended, vars
    <3> QED
      BY <3>2, <3>3, <3>4, <3>5 DEF Next, Step, Poll, Wait
  <2> QED
    BY <2>1
<1> QED
  BY <1>1, Invariance, PTL DEF Spec, ClockContinuous

(* The answer to a caller of reset is kept: the promised episode runs when *)
(* the step returns, and none begins without a call or an episode's end.   *)
THEOREM PromisesKept == Spec => ResetKept
<1>1. Inv /\ [Next]_vars =>
        [pc # "idle" /\ pc' = "idle" =>
           /\ promised # 0 => episodes' + 1 = promised
           /\ episodes' # episodes => promised # 0 \/ Over]_vars
  <2> SUFFICES ASSUME Inv, Next, pc # "idle", pc' = "idle"
               PROVE  /\ promised # 0 => episodes' + 1 = promised
                      /\ episodes' # episodes => promised # 0 \/ Over
    OBVIOUS
  <2>1. /\ promised \in {0, episodes + 2} /\ episodes \in Nat
        /\ resetRequested <=> promised # 0
    BY DEF Inv, ResetOK, Typed
  <2>2. PausedReset \/ PausedTurn \/ EndStep
    <3> USE DEF vars, Begin, PollTwists, PollActions, PollResets, PollPauses, PollOver,
                WaitTimesOut, WaitAgain, HoldIdle, StepWorld,
                SendTwist, SendAction, CallReset, CallPause, Ended
    <3> QED
      BY DEF Next, Step, Poll, Wait, Clients
  <2>3. CASE PausedReset
    BY <2>1, <2>3 DEF PausedReset, NewEpisode, Anew
  <2>4. CASE PausedTurn
    BY <2>1, <2>4 DEF PausedTurn, bridgeVars, worldVars
  <2>5. CASE EndStep
    BY <2>1, <2>5 DEF EndStep, NewEpisode, Anew
  <2> QED
    BY <2>2, <2>3, <2>4, <2>5
<1> QED
  BY <1>1, Invariance, PTL DEF Spec, ResetKept

(* Only StepWorld makes time pass.                                         *)
LEMMA OnlyStepWorld == Next /\ steps' # steps => StepWorld
BY DEF Next, Step, Poll, Wait, Clients, Begin, PollTwists, PollActions, PollResets, PollPauses,
       PollOver, WaitTimesOut, WaitAgain, PausedReset, PausedTurn, HoldIdle, EndStep,
       SendTwist, SendAction, CallReset, CallPause, Ended, vars, bridgeVars, worldVars

(* Simulated time stands from the answer "paused" to the answer "running". *)
THEOREM PauseHolds == Spec => StandsStill
<1>1. Inv /\ [Next]_vars => [steps' # steps => ~paused]_vars
  BY OnlyStepWorld DEF Inv, WaitOK, StepWorld
<1> QED
  BY <1>1, Invariance, PTL DEF Spec, StandsStill

(* In lockstep the world steps only with a command of every agent taken    *)
(* since the step before, or the limit, or a reset (wait_for_commands).    *)
THEOREM LockstepWaits == Spec => WaitsForAll
<1>1. Inv /\ [Next]_vars =>
        [waiting /\ steps' # steps /\ ~timedOut /\ promised = 0 =>
           \A a \in Commanded : taken[a].n # 0 /\ taken[a].at = Time]_vars
  <2> SUFFICES ASSUME Inv, Next, waiting, steps' # steps, ~timedOut, promised = 0
               PROVE  \A a \in Commanded : taken[a].n # 0 /\ taken[a].at = Time
    OBVIOUS
  <2>1. pc = "held"
    BY OnlyStepWorld DEF StepWorld
  <2>2. Commanded \subseteq fresh
    BY <2>1 DEF Inv, WaitOK, ResetOK
  <2> QED
    BY <2>2 DEF Inv, WaitOK
<1> QED
  BY <1>1, Invariance, PTL DEF Spec, WaitsForAll
=============================================================================
