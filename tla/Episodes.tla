------------------------------- MODULE Episodes -------------------------------
(***************************************************************************)
(* Training over a batch of worlds (python/autonomousim/multiagent.py and  *)
(* tasks/): a step of all worlds, the learners' rewards and ends, the end  *)
(* of a world's episode, autoreset within the step, resets by the user.    *)
(*                                                                         *)
(* The reward of a step is 1, so that a return counts steps.               *)
(***************************************************************************)
EXTENDS World

CONSTANTS
  Learners,     \* agents of the learning groups; the others are scripted
  TimeLimit,    \* max_steps
  MaxEpisodes, MaxLength, MaxResets   \* bounds: a world's episodes, steps of
                                      \* one that is not reset, calls of reset

ASSUME EpisodesAssumption ==
  /\ Worlds \subseteq Nat /\ Learners \subseteq Agents
  /\ TimeLimit \in Nat \ {0}

VARIABLES
  autoreset,   \* the environment's setting
  doing,       \* "idle", or "stepping" in Rust
  view,        \* world -> the row of the native output arrays
  steps,       \* the task's, by world
  length,      \* by world
  active,      \* world -> learners still going
  success,     \* world -> learners that succeeded
  returns,     \* world -> learner -> return
  out,         \* what the last call returned
  resets

(* For the properties: what the caller saw of each learner's episode.      *)
VARIABLE story
envVars == <<autoreset, doing, view, steps, length, active, success, returns, out, resets, story>>
episodesVars == <<worldVars, envVars>>

Nothing == [obs |-> <<>>]
Untold == [i \in Learners |-> [steps |-> 0, over |-> FALSE]]
Zero == [i \in Learners |-> 0]

(* The row written for a world by write_outputs.                           *)
Row(b, e, t) == [seed |-> b, episode |-> e, tick |-> t]

EpisodesInit ==
  /\ WorldInit
  /\ autoreset \in BOOLEAN /\ doing = "idle"
  /\ view = [w \in Worlds |-> Row(OwnSeed, 1, 0)]
  /\ steps = [w \in Worlds |-> 0] /\ length = [w \in Worlds |-> 0]
  /\ active = [w \in Worlds |-> Learners] /\ success = [w \in Worlds |-> {}]
  /\ returns = [w \in Worlds |-> Zero]
  /\ out = Nothing /\ resets = 0
  /\ story = [w \in Worlds |-> Untold]

(* Slip: the counts of all worlds start over.                              *)
RestartedAll(counts, mask, from) == [w \in Worlds |-> from]

(* Python's count of each world, where a new episode starts.               *)
Restarted(counts, mask, from) == [w \in Worlds |-> IF w \in mask THEN from ELSE counts[w]]

(* The rows of the worlds of the mask are written and gathered.            *)
Gathered(mask, b, e, t) == [w \in Worlds |-> IF w \in mask THEN Row(b[w], e[w], t[w]) ELSE view[w]]

(* env.reset: the worlds of the mask start new episodes.                   *)
ResetCall ==
  \E mask \in SUBSET Worlds \ {{}}, seed \in Seeds \cup {Keep} :
    /\ doing = "idle" /\ resets < MaxResets
    /\ ResetWorlds(agents, mask, seed)
    /\ view' = Gathered(mask, baseSeed', episode', tick')
    /\ steps' = Restarted(steps, mask, 0)
    /\ length' = Restarted(length, mask, 0)
    /\ active' = Restarted(active, mask, Learners)
    /\ success' = Restarted(success, mask, {})
    /\ returns' = Restarted(returns, mask, Zero)
    /\ out' = [obs |-> view']
    /\ resets' = resets + 1
    /\ story' = Restarted(story, mask, Untold)
    /\ UNCHANGED <<autoreset, doing, ticksLeft>>

(* env.step, into Rust.                                                    *)
StepCall ==
  /\ doing = "idle" /\ \A w \in Worlds : length[w] < MaxLength
  /\ \E w \in Worlds : episode[w] <= MaxEpisodes
  /\ StartStep
  /\ doing' = "stepping" /\ out' = Nothing
  /\ UNCHANGED <<baseSeed, episode, tick, autoreset, view, steps, length, active, success, returns,
                 resets, story>>

(* The worlds are stepped on a thread pool; they share nothing here, so    *)
(* that it is enough to step one after the other.                          *)
WorldTicks(w) ==
  /\ doing = "stepping" /\ \A v \in Worlds : v < w => ticksLeft[v] = 0
  /\ TickWorld(w) /\ UNCHANGED envVars

-----------------------------------------------------------------------------
(* Slip: an agent may end again.                                           *)
EndsAgain(w, terminated) == terminated

(* Of those the task ends, the ones that were still going.                 *)
Ends(w, terminated) == terminated \cap active[w]

(* Slip: the reward counts after the end.                                  *)
RewardedOn(w) == [i \in Learners |-> returns[w][i] + 1]

(* The return with the step's reward, 0 for those that had stopped.        *)
Rewarded(w) == [i \in Learners |-> returns[w][i] + (IF i \in active[w] THEN 1 ELSE 0)]

(* Slip: final_obs is the view, which the reset overwrites.                *)
FinalObsView(finished, restarted) == restarted

(* final_obs is copied before the reset.                                   *)
FinalObs(finished, restarted) == finished

(* Slip: agents that end by success are left going in Rust.                *)
StopsFailed(end, won) == [w \in Worlds |-> end[w] \ won[w]]

(* Those that sim.disable stops.                                           *)
Stops(end, won) == end

(* env.step, back from Rust: what the task finds, who is stopped, which    *)
(* episodes are over, and autoreset.                                       *)
ComputeWith(failed) ==
  LET happened(w, e) == {i \in Learners : e \in agents[w][i].events}
      failure(w) == happened(w, "terminal") \cup failed[w]
      succeeded(w) == happened(w, "finished") \ failure(w)
      end == [w \in Worlds |-> Ends(w, failure(w) \cup succeeded(w))]
      going == [w \in Worlds |-> active[w] \ end[w]]
      won == [w \in Worlds |-> success[w] \cup (succeeded(w) \cap active[w])]
      sum == [w \in Worlds |-> Rewarded(w)]
      long == [w \in Worlds |-> length[w] + 1]
      timeUp(w) == steps[w] + 1 >= TimeLimit
      truncated == {w \in Worlds : timeUp(w) /\ going[w] # {}}
      done == {w \in Worlds : going[w] = {}} \cup truncated
      again == IF autoreset THEN done ELSE {}
      written == Gathered(Worlds, baseSeed, episode, tick)
  IN  /\ doing = "stepping" /\ \A w \in Worlds : ticksLeft[w] = 0
      /\ ResetWorlds(Disabled(agents, Stops(end, won)), again, Keep)
      /\ view' = [w \in Worlds |-> IF w \in again THEN Gathered(again, baseSeed', episode', tick')[w]
                                   ELSE written[w]]
      /\ steps' = Restarted([w \in Worlds |-> steps[w] + 1], again, 0)
      /\ length' = Restarted(long, again, 0)
      /\ active' = Restarted(going, again, Learners)
      /\ success' = Restarted(won, again, {})
      /\ returns' = Restarted(sum, again, Zero)
      /\ out' = [obs |-> view', active |-> active, terminated |-> end, truncated |-> truncated,
                 done |-> done, final |-> FinalObs(written, view'),
                 r |-> [w \in done |-> sum[w]], l |-> [w \in done |-> long[w]],
                 success |-> [w \in done |-> won[w]]]
      /\ story' = Restarted([w \in Worlds |-> [i \in Learners |->
           IF story[w][i].over THEN story[w][i]
           ELSE [steps |-> story[w][i].steps + 1, over |-> i \in end[w]]]], again, Untold)
      /\ doing' = "idle" /\ UNCHANGED <<ticksLeft, autoreset, resets>>
Compute == \E failed \in [Worlds -> SUBSET Learners] : ComputeWith(failed)

EpisodesNext == ResetCall \/ StepCall \/ Compute \/ \E w \in Worlds : WorldTicks(w)
EpisodesSpec == EpisodesInit /\ [][EpisodesNext]_episodesVars

-----------------------------------------------------------------------------
EpisodesTypeOK ==
  /\ baseSeed \in [Worlds -> Seeds \cup {OwnSeed}] /\ episode \in [Worlds -> Nat]
  /\ tick \in [Worlds -> Nat] /\ ticksLeft \in [Worlds -> 0 .. Decimation]
  /\ agents \in [Worlds -> [Agents -> AgentState]]
  /\ autoreset \in BOOLEAN /\ doing \in {"idle", "stepping"}
  /\ steps \in [Worlds -> Nat] /\ length \in [Worlds -> Nat]
  /\ active \in [Worlds -> SUBSET Learners] /\ success \in [Worlds -> SUBSET Learners]
  /\ returns \in [Worlds -> [Learners -> Nat]] /\ resets \in Nat
  /\ story \in [Worlds -> [Learners -> [steps : Nat, over : BOOLEAN]]]

(* Between calls Python's notes (_active) and Rust's agree on who goes on: *)
(* no learner that was told its end is still driven about by Rust, and     *)
(* none is frozen in Rust while Python still collects its rewards, through *)
(* crashes, successes, autoresets and resets of some worlds only.          *)
StoppedTogether == doing = "idle" =>
  \A w \in Worlds, i \in Learners : i \in active[w] <=> ~agents[w][i].disabled

(* The three counts of an episode stay together across resets: the clock   *)
(* in Rust, the task's steps (the time limit), the environment's length;   *)
(* and with autoreset no episode gets past the time limit.                 *)
InStep == doing = "idle" => \A w \in Worlds :
  /\ tick[w] = length[w] * Decimation /\ steps[w] = length[w]
  /\ autoreset => length[w] < TimeLimit

(* What a call returns as observations belongs to the episode and the tick *)
(* each world is in, and final_obs to the last tick of the finished one,   *)
(* although the arrays are views that the autoreset writes over.           *)
RightEpisode == out # Nothing => \A w \in Worlds :
  /\ out.obs[w] = Row(baseSeed[w], episode[w], tick[w])
  /\ "done" \in DOMAIN out /\ autoreset /\ w \in out.done =>
       out.final[w] = Row(baseSeed[w], episode[w] - 1, out.l[w] * Decimation)

Computes == doing = "stepping" /\ doing' = "idle"

(* A learner is told its end once an episode, and info["active"] marks     *)
(* those whose rewards and ends count: the ones not told theirs before.    *)
EndsOnce == [][ Computes => \A w \in Worlds :
    LET going == {i \in Learners : ~story[w][i].over}
    IN  out'.active[w] = going /\ out'.terminated[w] \subseteq going ]_episodesVars

(* The return reported when a world's episode ends sums each learner's     *)
(* rewards up to its own end and of this episode only.                     *)
ReturnsCount == [][ Computes => \A w \in out'.done, i \in Learners :
    out'.r[w][i] = story[w][i].steps + (IF story[w][i].over THEN 0 ELSE 1) ]_episodesVars

(* An agent of a group with disable_on_terminal is frozen once a terminal  *)
(* event of it was reported (GroupSpec: it then no longer moves).          *)
Frozen == doing = "idle" => \A w \in Worlds, i \in Freezing :
  "terminal" \in agents[w][i].events => agents[w][i].disabled
=============================================================================
