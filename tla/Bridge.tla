------------------------------- MODULE Bridge -------------------------------
(***************************************************************************)
(* The ROS 2 bridge (crates/ros/src/bridge.rs): one thread runs            *)
(* Bridge::step over and over, and between any two of its reads the        *)
(* clients of the node send commands and call its services.                *)
(*                                                                         *)
(* One call of step is a walk of "pc":                                     *)
(*   idle -> twists -> actions -> resets -> pauses -> check -> turn        *)
(*        -> held -> stepped -> idle                                       *)
(* where twists .. pauses is one poll(), check is the test of the lockstep *)
(* wait (which polls again from twists), turn is the pause test and held   *)
(* lies between hold_idle and the step of the world, stepped after it.     *)
(*                                                                         *)
(* Times are counted in policy steps.  Commands are numbered in the order  *)
(* in which they are sent, over all agents; poll keeps the latest message  *)
(* of a topic, so a topic is its latest message not yet taken.  Odometry   *)
(* is published every step (odom_hz 0, the default).                       *)
(***************************************************************************)
EXTENDS Integers, Sequences, FiniteSets

CONSTANTS
    Agents,          \* the bridged agents
    Flown,           \* those an exported policy flies
    Walkers,         \* those cmd_vel does not drive
    CommandTimeout,  \* BridgeConfig.command_timeout
    EpisodeTime,     \* BridgeConfig.episode_time
    MaxSteps,        \* bound: policy steps until run_until returns
    MaxCommands,     \* bound: commands sent
    MaxResets,       \* bound: calls of the reset service
    MaxPauses        \* bound: calls of the pause service

ASSUME BridgeAssumption ==
    /\ Flown \subseteq Agents
    /\ Walkers \subseteq Agents
    /\ CommandTimeout \in Nat
    /\ EpisodeTime \in Nat \ {0}
    /\ MaxSteps \in Nat /\ MaxCommands \in Nat /\ MaxResets \in Nat /\ MaxPauses \in Nat

VARIABLES
    lockstep,   \* BridgeConfig.lockstep is some limit
    pc,         \* where the bridge's thread is in step()
    offset, wtime, episodes, steps, disabled,      \* the world and its episodes
    paused, resetRequested, commanded,             \* flags of Bridge
    last, holding, fresh,                          \* AgentPubs, per agent
    got,        \* the cmd_vel messages taken by the poll under way
    doing,      \* what the world's controllers are told to do
    clock, shown,                                  \* the last /clock and state published
    waiting,    \* this step() is in wait_for_commands
    twist, action, resets, pauses, sent, called    \* topics, services, their clients

worldVars == <<offset, wtime, episodes, steps, disabled>>
bridgeVars == <<lockstep, worldVars, paused, resetRequested, commanded, last,
                holding, fresh, got, doing, clock, shown, waiting>>
clientVars == <<twist, action, resets, pauses, sent, called>>

\* What the properties remember of a behaviour.
VARIABLES
    taken,      \* per agent: the latest command carried out
    promised,   \* the episode promised to callers of reset in this step(), or 0
    timedOut    \* this step()'s wait ended at its limit
history == <<taken, promised, timedOut>>
vars == <<pc, bridgeVars, clientVars, history>>

Commanded == Agents \ Flown
NoTime == -1
NoCommand == [n |-> 0, good |-> FALSE]
Told(what, n) == [what |-> what, n |-> n]
Time == offset + wtime
World == <<episodes, wtime>>

-----------------------------------------------------------------------------
\* The bridge as Bridge::new leaves it.
InitAgents ==
    /\ last = [a \in Agents |-> NoTime]
    /\ holding = {} /\ fresh = {} /\ disabled = {}
    /\ got = [a \in Agents |-> NoCommand]
    /\ doing = [a \in Agents |-> Told("initial", 0)]

Init ==
    /\ lockstep \in BOOLEAN
    /\ pc = "idle"
    /\ InitAgents
    /\ offset = 0 /\ wtime = 0 /\ episodes = 0 /\ steps = 0
    /\ paused = FALSE /\ resetRequested = FALSE /\ commanded = FALSE
    /\ clock = NoTime /\ shown = <<0, NoTime>>
    /\ waiting = FALSE
    /\ twist = [a \in Agents |-> NoCommand]
    /\ action = [a \in Agents |-> NoCommand]
    /\ resets = 0 /\ pauses = <<>> /\ sent = 0 /\ called = <<0, 0>>
    /\ taken = [a \in Agents |-> [n |-> 0, at |-> NoTime, episode |-> 0]]
    /\ promised = 0 /\ timedOut = FALSE

-----------------------------------------------------------------------------
(* The clients of the node. *)

\* A cmd_vel; the bridge refuses it for agents that take `action` only.
SendTwist(a) ==
    /\ sent < MaxCommands
    /\ sent' = sent + 1
    /\ twist' = [twist EXCEPT ![a] = [n |-> sent + 1, good |-> a \notin Walkers]]
    /\ UNCHANGED <<pc, bridgeVars, action, resets, pauses, called, history>>

\* An action, of the right length or not.
SendAction(a) ==
    /\ sent < MaxCommands
    /\ sent' = sent + 1
    /\ \E good \in BOOLEAN :
          action' = [action EXCEPT ![a] = [n |-> sent + 1, good |-> good]]
    /\ UNCHANGED <<pc, bridgeVars, twist, resets, pauses, called, history>>

CallReset ==
    /\ called[1] < MaxResets
    /\ called' = <<called[1] + 1, called[2]>>
    /\ resets' = resets + 1
    /\ UNCHANGED <<pc, bridgeVars, twist, action, pauses, sent, history>>

CallPause ==
    /\ called[2] < MaxPauses
    /\ called' = <<called[1], called[2] + 1>>
    /\ \E data \in BOOLEAN : pauses' = Append(pauses, data)
    /\ UNCHANGED <<pc, bridgeVars, twist, action, resets, sent, history>>

-----------------------------------------------------------------------------
(* step() begins: in lockstep the first one sends state and clock. *)

Resend ==
    /\ shown' = World
    /\ clock' = Time

Begin ==
    /\ pc = "idle" /\ steps < MaxSteps
    /\ pc' = "twists"
    /\ waiting' = (lockstep /\ ~paused)
    /\ IF steps = 0 /\ lockstep THEN Resend ELSE UNCHANGED <<shown, clock>>
    /\ promised' = 0 /\ timedOut' = FALSE
    /\ UNCHANGED <<lockstep, worldVars, paused, resetRequested, commanded,
                   last, holding, fresh, got, doing, clientVars, taken>>

\* run_until has returned.
Ended ==
    /\ pc = "idle" /\ steps = MaxSteps
    /\ UNCHANGED vars

-----------------------------------------------------------------------------
(* poll(): cmd_vel, action and command(), then the two services. *)

PollTwists ==
    /\ pc = "twists"
    /\ pc' = "actions"
    /\ got' = twist
    /\ twist' = [a \in Agents |-> NoCommand]
    /\ UNCHANGED <<lockstep, worldVars, paused, resetRequested, commanded,
                   last, holding, fresh, doing, clock, shown, waiting,
                   action, resets, pauses, sent, called, history>>

\* The command poll() keeps of an agent: any action goes before any cmd_vel.
Received(a) == IF action[a].n # 0 THEN action[a] ELSE got[a]

\* The agents whose command is carried out; command() refuses the others.
Accepted == {a \in Commanded : Received(a).good}

\* The agents still holding after the commands.
HoldingOn == holding \ Accepted

PollActions ==
    /\ pc = "actions"
    /\ pc' = "resets"
    /\ action' = [a \in Agents |-> NoCommand]
    /\ got' = [a \in Agents |-> NoCommand]
    /\ doing' = [a \in Agents |-> IF a \in Accepted THEN Told("command", Received(a).n) ELSE doing[a]]
    /\ last' = [a \in Agents |-> IF a \in Accepted THEN Time ELSE last[a]]
    /\ holding' = HoldingOn
    /\ fresh' = fresh \cup Accepted
    /\ commanded' = (commanded \/ Accepted # {})
    /\ taken' = [a \in Agents |->
                    IF a \in Accepted
                    THEN [n |-> Received(a).n, at |-> Time, episode |-> episodes] ELSE taken[a]]
    /\ UNCHANGED <<lockstep, worldVars, paused, resetRequested, clock, shown,
                   waiting, twist, resets, pauses, sent, called, promised, timedOut>>

\* Every caller of reset is told "episode {episodes + 2} begins after this step".
PollResets ==
    /\ pc = "resets"
    /\ pc' = "pauses"
    /\ resets' = 0
    /\ resetRequested' = (resetRequested \/ resets > 0)
    /\ promised' = IF resets > 0 THEN episodes + 2 ELSE promised
    /\ UNCHANGED <<lockstep, worldVars, paused, commanded, last, holding, fresh,
                   got, doing, clock, shown, waiting, twist, action, pauses, sent, called,
                   taken, timedOut>>

PollPauses ==
    /\ pc = "pauses"
    /\ pc' = "check"
    /\ pauses' = <<>>
    /\ paused' = IF pauses = <<>> THEN paused ELSE pauses[Len(pauses)]
    /\ UNCHANGED <<lockstep, worldVars, resetRequested, commanded, last, holding,
                   fresh, got, doing, clock, shown, waiting, twist, action, resets, sent, called,
                   history>>

-----------------------------------------------------------------------------
(* wait_for_commands, after each of its polls; outside lockstep and while   *)
(* paused at the beginning of step() there is one poll and no wait.         *)

\* A slip: one agent's command is enough.
WaitEndsAtAny == Commanded \cap fresh # {} \/ paused \/ resetRequested

WaitEnds == Commanded \subseteq fresh \/ paused \/ resetRequested

PollOver ==
    /\ pc = "check"
    /\ ~waiting \/ WaitEnds
    /\ pc' = "turn"
    /\ UNCHANGED <<bridgeVars, clientVars, history>>

\* A slip: the limit counts only once a command has come for this step.
WaitTimesOutLate ==
    /\ pc = "check" /\ waiting /\ ~WaitEnds
    /\ fresh # {}
    /\ pc' = "turn"
    /\ timedOut' = TRUE
    /\ UNCHANGED <<bridgeVars, clientVars, taken, promised>>

\* The limit counts only once any command has come.
WaitTimesOut ==
    /\ pc = "check" /\ waiting /\ ~WaitEnds
    /\ commanded
    /\ pc' = "turn"
    /\ timedOut' = TRUE
    /\ UNCHANGED <<bridgeVars, clientVars, taken, promised>>

\* A slip: the wait sleeps without polling.
WaitAgainBlind ==
    /\ pc = "check" /\ waiting /\ ~WaitEnds
    /\ UNCHANGED vars

\* Polls again, and every 500 ms sends state and clock again.
WaitAgain ==
    /\ pc = "check" /\ waiting /\ ~WaitEnds
    /\ pc' = "twists"
    /\ Resend \/ UNCHANGED <<shown, clock>>
    /\ UNCHANGED <<lockstep, worldVars, paused, resetRequested, commanded,
                   last, holding, fresh, got, doing, waiting, clientVars, history>>

-----------------------------------------------------------------------------
(* new_episode(): the clock runs on, the world and the commands start over. *)

Anew(off, held, request) ==
    /\ offset' = off
    /\ wtime' = 0
    /\ disabled' = {}
    /\ episodes' = episodes + 1
    /\ resetRequested' = request
    /\ last' = [a \in Agents |-> NoTime]
    /\ holding' = held
    /\ doing' = [a \in Agents |-> Told("initial", 0)]

\* Slips: the world is reset before the offset is taken, agents go on holding,
\* the request is not taken back.
NewEpisodeResetsFirst == Anew(offset, {}, FALSE)
NewEpisodeStillHolding == Anew(Time, holding, FALSE)
NewEpisodeAgain == Anew(Time, {}, resetRequested)

NewEpisode == Anew(Time, {}, FALSE)

-----------------------------------------------------------------------------
(* The rest of step(). *)

\* Simulated time stands.
Standing == paused

\* While paused a reset is done at once.
PausedReset ==
    /\ pc = "turn" /\ Standing /\ resetRequested
    /\ pc' = "idle"
    /\ NewEpisode
    /\ clock' = Time
    /\ UNCHANGED <<lockstep, steps, paused, commanded, fresh, got, shown, waiting, clientVars,
                   taken, promised, timedOut>>

PausedTurn ==
    /\ pc = "turn" /\ Standing /\ ~resetRequested
    /\ pc' = "idle"
    /\ UNCHANGED <<bridgeVars, clientVars, history>>

Idle == {a \in Commanded : last[a] = NoTime \/ Time - last[a] > CommandTimeout}

\* The policies act, and agents without a recent command are told to hold.
HoldIdle ==
    /\ pc = "turn" /\ ~Standing
    /\ pc' = "held"
    /\ holding' = holding \cup Idle
    /\ doing' = [a \in Agents |-> IF a \in Flown THEN Told("policy", 0)
                                  ELSE IF a \in Idle \ holding THEN Told("hold", 0) ELSE doing[a]]
    /\ UNCHANGED <<lockstep, worldVars, paused, resetRequested, commanded, last,
                   fresh, got, clock, shown, waiting, clientVars, history>>

\* episode_over() after the step: out of time, or every bridged agent disabled.
Over == wtime >= EpisodeTime \/ (Agents # {} /\ disabled = Agents)

\* The world steps (it may disable agents), then the state is published.
StepWorld ==
    /\ pc = "held"
    /\ pc' = "stepped"
    /\ steps' = steps + 1
    /\ wtime' = wtime + 1
    /\ \E off \in SUBSET Agents : disabled \subseteq off /\ disabled' = off
    /\ fresh' = {}
    /\ shown' = <<episodes, wtime + 1>>
    /\ UNCHANGED <<lockstep, offset, episodes, paused, resetRequested, commanded, last, holding, got, doing,
                   clock, waiting, clientVars, history>>

\* A new episode if one is due, then the clock.
EndStep ==
    /\ pc = "stepped"
    /\ pc' = "idle"
    /\ IF Over \/ resetRequested
       THEN NewEpisode
       ELSE UNCHANGED <<offset, wtime, disabled, episodes, resetRequested, last, holding, doing>>
    /\ clock' = Time
    /\ UNCHANGED <<lockstep, steps, paused, commanded, fresh, got, shown, waiting, clientVars,
                   taken, promised, timedOut>>

-----------------------------------------------------------------------------
Poll == PollTwists \/ PollActions \/ PollResets \/ PollPauses
Wait == PollOver \/ WaitTimesOut \/ WaitAgain
Step == Begin \/ Poll \/ Wait \/ PausedReset \/ PausedTurn \/ HoldIdle \/ StepWorld \/ EndStep

Clients ==
    \/ \E a \in Agents : SendTwist(a) \/ SendAction(a)
    \/ CallReset
    \/ CallPause

Next == Step \/ Clients \/ Ended
Spec == Init /\ [][Next]_vars

\* The thread keeps running, and a wait that goes on reaches its limit: the wall
\* clock passes while wait_for_commands sleeps.  Nothing is assumed of the clients.
FairSpec == Spec /\ WF_vars(Step) /\ SF_vars(WaitTimesOut)
-----------------------------------------------------------------------------
Points == {"idle", "twists", "actions", "resets", "pauses", "check", "turn", "held", "stepped"}

\* When the world is about to step, every commanded agent does the latest command
\* taken for it in this episode if that one is recent, and holds still otherwise:
\* "Commands are held; an agent without one for `command_timeout` holds still".
Obeys ==
    pc = "held" =>
        \A a \in Commanded :
            doing[a] = IF taken[a].n # 0 /\ taken[a].episode = episodes
                          /\ Time - taken[a].at <= CommandTimeout
                       THEN Told("command", taken[a].n) ELSE Told("hold", 0)

\* Simulated time is the number of policy steps whatever episodes begin and end,
\* and a clock that is published is that time: /clock is continuous across episodes.
ClockContinuous ==
    [][/\ (offset + wtime)' - Time = steps' - steps
       /\ clock' # clock => clock' = (offset + wtime)' /\ clock' >= clock]_vars

\* The answer to a reset is kept: when the step() that gave it returns, exactly the
\* promised episode runs; and an episode begins only for such a call or when it is over.
ResetKept ==
    [][pc # "idle" /\ pc' = "idle" =>
          /\ promised # 0 => episodes' + 1 = promised
          /\ episodes' # episodes => promised # 0 \/ Over]_vars

\* Simulated time stands from the answer "paused" to the answer "running".
StandsStill == [][steps' # steps => ~paused]_vars

\* Every call of a service is answered, also while the bridge waits without a limit
\* for a first command and while it is paused.
ServicesAnswered ==
    /\ resets > 0 ~> (resets = 0 \/ steps = MaxSteps)
    /\ pauses # <<>> ~> (pauses = <<>> \/ steps = MaxSteps)

\* Once any command has come, the bridge steps to the end unless it is paused,
\* whether or not the clients go on sending.
KeepsStepping == commanded ~> (steps = MaxSteps \/ paused)

\* "In lockstep each policy step waits until every commanded agent has sent a command":
\* one taken since the step before, unless the wait reached its limit or a reset came.
\* (A step() that begins paused does not wait.)
WaitsForAll ==
    [][waiting /\ steps' # steps /\ ~timedOut /\ promised = 0 =>
          \A a \in Commanded : taken[a].n # 0 /\ taken[a].at = Time]_vars

\* "State before the clock: a controller answering a tick has the state of that tick."
StateOfTheTick == [][clock' # clock => shown' = <<episodes', wtime'>>]_vars
=============================================================================
