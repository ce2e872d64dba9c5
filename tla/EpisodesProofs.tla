---------------------------- MODULE EpisodesProofs -----------------------------
(***************************************************************************)
(* What Episodes promises, for any worlds, agents, dividers and limits.    *)
(*                                                                         *)
(* The invariant says how Rust and Python can differ while a step is under *)
(* way: a learner is stopped in Rust ahead of Python only by a terminal    *)
(* event of this step, which Python will find; and the clock is ahead of   *)
(* Python's counts by the ticks done.                                      *)
(***************************************************************************)
EXTENDS Episodes, FiniteSetTheorems, SequenceTheorems, TLAPS

Stopped == \A w \in Worlds, i \in Learners :
  /\ i \notin active[w] => agents[w][i].disabled
  /\ agents[w][i].disabled /\ i \in active[w] =>
       doing = "stepping" /\ "terminal" \in agents[w][i].events

Told == \A w \in Worlds, i \in Learners :
  /\ story[w][i].over <=> i \notin active[w]
  /\ returns[w][i] = story[w][i].steps

Clocked == \A w \in Worlds :
  /\ steps[w] = length[w] /\ (autoreset => length[w] < TimeLimit)
  /\ doing = "idle" => ticksLeft[w] = 0 /\ tick[w] = length[w] * Decimation
  /\ doing = "stepping" => tick[w] + ticksLeft[w] = (length[w] + 1) * Decimation

Viewed ==
  /\ doing = "stepping" => out = Nothing
  /\ doing = "idle" => view = [w \in Worlds |-> Row(baseSeed[w], episode[w], tick[w])]

IInv == EpisodesTypeOK /\ Stopped /\ Told /\ Clocked /\ Viewed /\ RightEpisode

-----------------------------------------------------------------------------
(* What the steps of an agent do to its state.                             *)
LEMMA FreshTyped == Fresh \in AgentState /\ ~Fresh.disabled
  BY EmptySeq DEF Fresh, AgentState, NoReading

LEMMA StartedTyped ==
  ASSUME NEW a \in AgentState, NEW turned
  PROVE  Started(a, turned) \in AgentState /\ Started(a, turned).disabled = a.disabled
  BY DEF Started, AgentState

LEMMA SettledTyped ==
  ASSUME NEW i, NEW a \in AgentState, NEW reach, NEW broken
  PROVE  LET r == Settled(i, a, reach, broken)
         IN  /\ r \in AgentState /\ a.events \subseteq r.events
             /\ a.disabled => r.disabled
             /\ r.disabled => a.disabled \/ "terminal" \in r.events
  BY DEF Settled, AgentState

LEMMA SteppedTyped ==
  ASSUME NEW i, NEW a \in AgentState, NEW t \in Nat, NEW bad, NEW reach, NEW broken, NEW still
  PROVE  LET r == Stepped(i, a, t, bad, reach, broken, still)
         IN  /\ r \in AgentState /\ a.events \subseteq r.events
             /\ a.disabled => r.disabled
             /\ r.disabled => a.disabled \/ "terminal" \in r.events
<1> DEFINE noted == [a EXCEPT !.events = @ \cup (IF bad THEN {"terminal"} ELSE {})]
           moved == [noted EXCEPT !.resting = i \in Kinematic /\ still]
<1>1. noted \in AgentState /\ noted.disabled = a.disabled /\ a.events \subseteq noted.events
  BY DEF AgentState
<1>2. moved \in AgentState /\ moved.disabled = a.disabled /\ moved.events = noted.events
  BY <1>1 DEF AgentState
<1>3. Stepped(i, a, t, bad, reach, broken, still) \in {a, noted, Settled(i, moved, reach, broken)}
  BY DEF Stepped
<1> HIDE DEF noted, moved
<1>4. CASE Stepped(i, a, t, bad, reach, broken, still) = a
  BY <1>4
<1>5. CASE Stepped(i, a, t, bad, reach, broken, still) = noted
  BY <1>5, <1>1
<1>6. CASE Stepped(i, a, t, bad, reach, broken, still) = Settled(i, moved, reach, broken)
  <2>1. LET r == Settled(i, moved, reach, broken)
        IN  /\ r \in AgentState /\ moved.events \subseteq r.events
            /\ moved.disabled => r.disabled
            /\ r.disabled => moved.disabled \/ "terminal" \in r.events
    BY <1>2, SettledTyped
  <2> QED BY <1>6, <1>1, <1>2, <2>1
<1> QED BY <1>3, <1>4, <1>5, <1>6

LEMMA StruckTyped ==
  ASSUME NEW a \in AgentState, NEW hit
  PROVE  LET r == Struck(a, hit)
         IN  r \in AgentState /\ a.events \subseteq r.events /\ r.disabled = a.disabled
  BY DEF Struck, AgentState

LEMMA PolledTyped ==
  ASSUME NEW a \in AgentState, NEW t \in Nat
  PROVE  LET r == Polled(a, t)
         IN  r \in AgentState /\ r.events = a.events /\ r.disabled = a.disabled
<1> DEFINE q == a.queue
           due == {k \in DOMAIN q : \A j \in 1 .. k : q[j] + Latency <= t}
           n == Cardinality(due)
<1>1. q \in Seq(Nat) /\ Len(q) \in Nat /\ DOMAIN q = 1 .. Len(q)
  BY DEF AgentState
<1>2. IsFiniteSet(1 .. Len(q)) /\ Cardinality(1 .. Len(q)) = Len(q)
  BY <1>1, FS_Interval
<1>3. due \subseteq 1 .. Len(q)
  BY <1>1
<1>4. n \in Nat /\ n <= Len(q)
  BY <1>2, <1>3, FS_Subset, FS_CardinalityType
<1>5. CASE n = 0
  BY <1>5 DEF Polled
<1>6. CASE n # 0
  <2>1. Polled(a, t) = [a EXCEPT !.current = q[n], !.queue = SubSeq(q, n + 1, Len(q))]
    BY <1>6 DEF Polled
  <2> HIDE DEF q, n
  <2>2. n \in 1 .. Len(q) /\ q[n] \in Nat
    BY <1>6, <1>4, <1>1
  <2>3. \A k \in n + 1 .. Len(q) : q[k] \in Nat
    BY <2>2, <1>1, <1>4
  <2>4. SubSeq(q, n + 1, Len(q)) \in Seq(Nat)
    BY <2>2, <2>3, <1>1, <1>4, SubSeqProperties
  <2> QED BY <2>1, <2>2, <2>4 DEF AgentState
<1> QED BY <1>5, <1>6

LEMMA MeasuredTyped ==
  ASSUME NEW a \in AgentState, NEW t \in Nat
  PROVE  LET m == Measured(a, t)
         IN  m \in AgentState /\ m.events = a.events /\ m.disabled = a.disabled
  BY AppendProperties DEF Measured, AgentState

LEMMA SensedTyped ==
  ASSUME NEW i, NEW a \in AgentState, NEW t \in Nat
  PROVE  LET r == Sensed(i, a, t)
         IN  r \in AgentState /\ r.events = a.events /\ r.disabled = a.disabled
<1> QED BY MeasuredTyped, PolledTyped DEF Sensed

(* A tick stops an agent only by a terminal event.                         *)
LEMMA TickedTyped ==
  ASSUME NEW i, NEW a \in AgentState, NEW t \in Nat, NEW u \in Nat,
         NEW bad, NEW reach, NEW broken, NEW still, NEW hit
  PROVE  LET r == Sensed(i, Struck(Stepped(i, a, t, bad, reach, broken, still), hit), u)
         IN  /\ r \in AgentState /\ a.events \subseteq r.events
             /\ a.disabled => r.disabled
             /\ r.disabled => a.disabled \/ "terminal" \in r.events
<1> DEFINE x == Stepped(i, a, t, bad, reach, broken, still)
           y == Struck(x, hit)
<1>1. /\ x \in AgentState /\ a.events \subseteq x.events
      /\ a.disabled => x.disabled
      /\ x.disabled => a.disabled \/ "terminal" \in x.events
  BY SteppedTyped
<1> HIDE DEF x
<1>2. y \in AgentState /\ x.events \subseteq y.events /\ y.disabled = x.disabled
  BY <1>1, StruckTyped
<1> HIDE DEF y
<1>3. LET r == Sensed(i, y, u)
      IN  r \in AgentState /\ r.events = y.events /\ r.disabled = y.disabled
  BY <1>2, SensedTyped
<1>4. LET r == Sensed(i, y, u)
      IN  /\ r \in AgentState /\ a.events \subseteq r.events
          /\ a.disabled => r.disabled
          /\ r.disabled => a.disabled \/ "terminal" \in r.events
  BY <1>1, <1>2, <1>3
<1> QED BY <1>4 DEF x, y

(* What a reset of some worlds leaves.                                     *)
LEMMA ResetTyped ==
  ASSUME baseSeed \in [Worlds -> Seeds \cup {OwnSeed}], episode \in [Worlds -> Nat],
         tick \in [Worlds -> Nat], NEW state \in [Worlds -> [Agents -> AgentState]],
         NEW mask \in SUBSET Worlds, NEW seed \in Seeds \cup {Keep}, ResetWorlds(state, mask, seed)
  PROVE  /\ baseSeed' \in [Worlds -> Seeds \cup {OwnSeed}] /\ episode' \in [Worlds -> Nat]
         /\ tick' \in [Worlds -> Nat] /\ agents' \in [Worlds -> [Agents -> AgentState]]
<1>1. baseSeed' \in [Worlds -> Seeds \cup {OwnSeed}]
  BY DEF ResetWorlds
<1>2. episode' \in [Worlds -> Nat]
  BY DEF ResetWorlds
<1>3. tick' \in [Worlds -> Nat]
  BY DEF ResetWorlds
<1>4. agents' \in [Worlds -> [Agents -> AgentState]]
  BY FreshTyped DEF ResetWorlds
<1> QED BY <1>1, <1>2, <1>3, <1>4

-----------------------------------------------------------------------------
LEMMA InitInvariant == EpisodesInit => IInv
<1> SUFFICES ASSUME EpisodesInit PROVE IInv
  OBVIOUS
<1> USE EpisodesAssumption, WorldAssumption
<1>1. EpisodesTypeOK
  BY FreshTyped DEF EpisodesInit, WorldInit, EpisodesTypeOK, Zero, Untold
<1>2. Stopped
  BY FreshTyped DEF EpisodesInit, WorldInit, Stopped
<1>3. Told
  BY DEF EpisodesInit, Told, Zero, Untold
<1>4. Clocked
  BY DEF EpisodesInit, WorldInit, Clocked
<1>5. Viewed
  BY DEF EpisodesInit, WorldInit, Viewed
<1>6. RightEpisode
  BY DEF EpisodesInit, RightEpisode
<1> QED BY <1>1, <1>2, <1>3, <1>4, <1>5, <1>6 DEF IInv

LEMMA ResetPreserves == IInv /\ ResetCall => IInv'
<1> SUFFICES ASSUME IInv, ResetCall PROVE IInv'
  OBVIOUS
<1>1. PICK mask \in SUBSET Worlds \ {{}}, seed \in Seeds \cup {Keep} :
        /\ doing = "idle" /\ resets < MaxResets
        /\ ResetWorlds(agents, mask, seed)
        /\ view' = Gathered(mask, baseSeed', episode', tick')
        /\ steps' = Restarted(steps, mask, 0)
        /\ length' = Restarted(length, mask, 0)
        /\ active' = Restarted(active, mask, Learners)
        /\ success' = Restarted(success, mask, {})
        /\ returns' = Restarted(returns, mask, Zero)
        /\ out' = [obs |-> view']
        /\ resets' = resets + 1
        /\ story' = Restarted(story, mask, Untold)
        /\ UNCHANGED <<autoreset, doing, ticksLeft>>
  BY DEF ResetCall
<1> USE <1>1, EpisodesAssumption, WorldAssumption DEF IInv
<1>2. EpisodesTypeOK'
  <2>1. /\ baseSeed' \in [Worlds -> Seeds \cup {OwnSeed}] /\ episode' \in [Worlds -> Nat]
        /\ tick' \in [Worlds -> Nat] /\ agents' \in [Worlds -> [Agents -> AgentState]]
    BY ResetTyped DEF EpisodesTypeOK
  <2>2. steps' \in [Worlds -> Nat] /\ length' \in [Worlds -> Nat]
    BY DEF EpisodesTypeOK, Restarted
  <2>3. active' \in [Worlds -> SUBSET Learners] /\ success' \in [Worlds -> SUBSET Learners]
    BY DEF EpisodesTypeOK, Restarted
  <2>4. returns' \in [Worlds -> [Learners -> Nat]]
    BY DEF EpisodesTypeOK, Restarted, Zero
  <2>5. story' \in [Worlds -> [Learners -> [steps : Nat, over : BOOLEAN]]]
    BY DEF EpisodesTypeOK, Restarted, Untold
  <2>6. /\ autoreset' \in BOOLEAN /\ doing' \in {"idle", "stepping"} /\ resets' \in Nat
        /\ ticksLeft' \in [Worlds -> 0 .. Decimation]
    BY DEF EpisodesTypeOK
  <2> QED BY <2>1, <2>2, <2>3, <2>4, <2>5, <2>6 DEF EpisodesTypeOK
<1>3. Stopped'
  BY FreshTyped DEF Stopped, ResetWorlds, Restarted, EpisodesTypeOK
<1>4. Told'
  BY DEF Told, Restarted, Zero, Untold, EpisodesTypeOK
<1>5. Clocked'
  BY DEF Clocked, ResetWorlds, Restarted, EpisodesTypeOK
<1>6. Viewed'
  BY DEF Viewed, Gathered, ResetWorlds, Row
<1>7. RightEpisode'
  BY <1>6 DEF RightEpisode, Viewed
<1> QED BY <1>2, <1>3, <1>4, <1>5, <1>6, <1>7

LEMMA StepPreserves == IInv /\ StepCall => IInv'
<1> SUFFICES ASSUME IInv, StepCall PROVE IInv'
  OBVIOUS
<1> USE EpisodesAssumption, WorldAssumption DEF IInv
<1>1. PICK turned \in [Worlds -> SUBSET Kinematic] :
        /\ agents' = [w \in Worlds |-> [i \in Agents |-> Started(agents[w][i], i \in turned[w])]]
        /\ ticksLeft' = [w \in Worlds |-> Decimation]
  BY DEF StepCall, StartStep
<1>2. \A w \in Worlds, i \in Agents :
        agents'[w][i] \in AgentState /\ agents'[w][i].disabled = agents[w][i].disabled
  <2> SUFFICES ASSUME NEW w \in Worlds, NEW i \in Agents
               PROVE  agents'[w][i] \in AgentState /\ agents'[w][i].disabled = agents[w][i].disabled
    OBVIOUS
  <2>1. agents'[w][i] = Started(agents[w][i], i \in turned[w])
    BY <1>1
  <2>2. agents[w][i] \in AgentState
    BY DEF EpisodesTypeOK
  <2> QED BY <2>1, <2>2, StartedTyped
<1>3. EpisodesTypeOK'
  <2>1. agents' \in [Worlds -> [Agents -> AgentState]]
    BY <1>1, <1>2
  <2>2. ticksLeft' \in [Worlds -> 0 .. Decimation]
    BY <1>1
  <2> QED BY <2>1, <2>2 DEF EpisodesTypeOK, StepCall
<1>4. Stopped'
  BY <1>2 DEF Stopped, StepCall
<1>5. Told'
  BY DEF Told, StepCall
<1>6. Clocked'
  <2>1. \A l \in Nat : l * Decimation + Decimation = (l + 1) * Decimation
    OBVIOUS
  <2>2. \A w \in Worlds : tick[w] + Decimation = (length[w] + 1) * Decimation
    BY <2>1 DEF Clocked, StepCall, EpisodesTypeOK
  <2> QED BY <1>1, <2>2 DEF Clocked, StepCall, EpisodesTypeOK
<1>7. Viewed' /\ RightEpisode'
  BY DEF Viewed, RightEpisode, StepCall
<1> QED BY <1>3, <1>4, <1>5, <1>6, <1>7

LEMMA TicksPreserves == ASSUME NEW w \in Worlds PROVE IInv /\ WorldTicks(w) => IInv'
<1> SUFFICES ASSUME IInv, WorldTicks(w) PROVE IInv'
  OBVIOUS
<1> USE EpisodesAssumption, WorldAssumption DEF IInv
<1>1. PICK bad, reach, broken, still, hit :
        agents' = [agents EXCEPT ![w] = AfterTick(w, bad, reach, broken, still, hit)]
  BY Zenon DEF WorldTicks, TickWorld
<1>2. /\ doing = "stepping" /\ ticksLeft[w] > 0
      /\ tick' = [tick EXCEPT ![w] = @ + 1] /\ ticksLeft' = [ticksLeft EXCEPT ![w] = @ - 1]
      /\ UNCHANGED <<baseSeed, episode>> /\ UNCHANGED envVars
  BY DEF WorldTicks, TickWorld
<1>3. tick[w] \in Nat
  BY DEF EpisodesTypeOK
<1>4. \A v \in Worlds, i \in Agents :
        /\ agents'[v][i] \in AgentState /\ agents[v][i].events \subseteq agents'[v][i].events
        /\ agents[v][i].disabled => agents'[v][i].disabled
        /\ agents'[v][i].disabled => agents[v][i].disabled \/ "terminal" \in agents'[v][i].events
  <2> SUFFICES ASSUME NEW v \in Worlds, NEW i \in Agents
               PROVE  /\ agents'[v][i] \in AgentState /\ agents[v][i].events \subseteq agents'[v][i].events
                      /\ agents[v][i].disabled => agents'[v][i].disabled
                      /\ agents'[v][i].disabled => agents[v][i].disabled \/ "terminal" \in agents'[v][i].events
    OBVIOUS
  <2>1. agents[v][i] \in AgentState
    BY DEF EpisodesTypeOK
  <2>2. CASE v # w
    BY <1>1, <2>1, <2>2 DEF EpisodesTypeOK
  <2>3. CASE v = w
    <3> DEFINE r == Sensed(i, Struck(Stepped(i, agents[v][i], tick[v], i \in bad, i \in reach, i \in broken,
                                             i \in still), i \in hit), tick[v] + 1)
    <3>1. agents'[v][i] = r
      BY <1>1, <2>3 DEF AfterTick, EpisodesTypeOK
    <3>2. tick[v] \in Nat /\ tick[v] + 1 \in Nat
      BY <1>3, <2>3
    <3>3. /\ r \in AgentState /\ agents[v][i].events \subseteq r.events
          /\ agents[v][i].disabled => r.disabled
          /\ r.disabled => agents[v][i].disabled \/ "terminal" \in r.events
      BY <2>1, <3>2, TickedTyped
    <3> QED BY <3>1, <3>3
  <2> QED BY <2>2, <2>3
<1>5. EpisodesTypeOK'
  <2>1. agents' \in [Worlds -> [Agents -> AgentState]]
    <3>1. AfterTick(w, bad, reach, broken, still, hit) \in [Agents -> AgentState]
      BY <1>1, <1>4 DEF EpisodesTypeOK, AfterTick
    <3> QED BY <1>1, <3>1 DEF EpisodesTypeOK
  <2>2. tick' \in [Worlds -> Nat] /\ ticksLeft' \in [Worlds -> 0 .. Decimation]
    BY <1>2, <1>3 DEF EpisodesTypeOK
  <2> QED BY <1>2, <2>1, <2>2 DEF EpisodesTypeOK, envVars
<1>6. Stopped'
  BY <1>2, <1>4 DEF Stopped, envVars, EpisodesTypeOK
<1>7. Told'
  BY <1>2 DEF Told, envVars
<1>8. Clocked'
  BY <1>2, <1>3 DEF Clocked, envVars, EpisodesTypeOK
<1>9. Viewed' /\ RightEpisode'
  BY <1>2 DEF Viewed, RightEpisode, envVars
<1> QED BY <1>5, <1>6, <1>7, <1>8, <1>9

(* When Python has looked at the step: those it ends are the ones Rust     *)
(* had stopped, and more; the clock is where its counts say.               *)
LEMMA ComputePreserves ==
  ASSUME NEW failed \in [Worlds -> SUBSET Learners], IInv, ComputeWith(failed)
  PROVE  /\ IInv'
         /\ \A w \in Worlds : out'.active[w] = active[w] /\ out'.terminated[w] \subseteq active[w]
         /\ \A w \in out'.done, i \in Learners :
              out'.r[w][i] = returns[w][i] + (IF i \in active[w] THEN 1 ELSE 0)
<1> DEFINE happened(w, e) == {i \in Learners : e \in agents[w][i].events}
           failure(w) == happened(w, "terminal") \cup failed[w]
           succeeded(w) == happened(w, "finished") \ failure(w)
           end == [w \in Worlds |-> Ends(w, failure(w) \cup succeeded(w))]
           going == [w \in Worlds |-> active[w] \ end[w]]
           won == [w \in Worlds |-> success[w] \cup (succeeded(w) \cap active[w])]
           sum == [w \in Worlds |-> Rewarded(w)]
           long == [w \in Worlds |-> length[w] + 1]
           timeUp(w) == steps[w] + 1 >= TimeLimit
           truncated == {w \in Worlds : timeUp(w) /\ going[w] # {}}
           done == {w \in Worlds : going[w] = {}} \cup truncated
           again == IF autoreset THEN done ELSE {}
           written == Gathered(Worlds, baseSeed, episode, tick)
           stopped == Disabled(agents, Stops(end, won))
           told == [w \in Worlds |-> [i \in Learners |->
             IF story[w][i].over THEN story[w][i]
             ELSE [steps |-> story[w][i].steps + 1, over |-> i \in end[w]]]]
<1>1. /\ doing = "stepping" /\ \A w \in Worlds : ticksLeft[w] = 0
      /\ ResetWorlds(stopped, again, Keep)
      /\ view' = [w \in Worlds |-> IF w \in again THEN Gathered(again, baseSeed', episode', tick')[w]
                                   ELSE written[w]]
      /\ steps' = Restarted([w \in Worlds |-> steps[w] + 1], again, 0)
      /\ length' = Restarted(long, again, 0)
      /\ active' = Restarted(going, again, Learners)
      /\ success' = Restarted(won, again, {})
      /\ returns' = Restarted(sum, again, Zero)
      /\ out' = [obs |-> view', active |-> active, terminated |-> end, truncated |-> truncated,
                 done |-> done, final |-> FinalObs(written, view'),
                 r |-> [w \in done |-> sum[w]], l |-> [w \in done |-> long[w]],
                 success |-> [w \in done |-> won[w]]]
      /\ story' = Restarted(told, again, Untold)
      /\ doing' = "idle" /\ UNCHANGED <<ticksLeft, autoreset, resets>>
  BY Zenon DEF ComputeWith
<1> USE EpisodesAssumption, WorldAssumption DEF IInv
<1>2. /\ end \in [Worlds -> SUBSET Learners] /\ going \in [Worlds -> SUBSET Learners]
      /\ won \in [Worlds -> SUBSET Learners]
  BY DEF EpisodesTypeOK, Ends
<1>3. sum \in [Worlds -> [Learners -> Nat]] /\ long \in [Worlds -> Nat]
  BY DEF EpisodesTypeOK, Rewarded
<1>4. told \in [Worlds -> [Learners -> [steps : Nat, over : BOOLEAN]]]
  BY DEF EpisodesTypeOK
<1>5. stopped \in [Worlds -> [Agents -> AgentState]]
  <2>1. ASSUME NEW w \in Worlds, NEW i \in Agents
        PROVE  stopped[w][i] \in AgentState
    <3>1. agents[w][i] \in AgentState
      BY DEF EpisodesTypeOK
    <3>2. [agents[w][i] EXCEPT !.disabled = TRUE] \in AgentState
      BY <3>1 DEF AgentState
    <3> QED BY <3>1, <3>2 DEF Disabled
  <2> QED BY <2>1 DEF Disabled
<1>6. done \subseteq Worlds /\ again \subseteq done /\ (autoreset => again = done)
  OBVIOUS
<1>7. \A w \in Worlds : /\ end[w] \subseteq active[w] /\ going[w] = active[w] \ end[w]
                        /\ \A i \in active[w] : "terminal" \in agents[w][i].events => i \in end[w]
  BY DEF EpisodesTypeOK, Ends
<1>8. \A w \in Worlds : w \notin done => length[w] + 1 < TimeLimit
  <2>1. \A w \in Worlds : steps[w] = length[w] /\ length[w] \in Nat
    BY DEF EpisodesTypeOK, Clocked
  <2>2. \A w \in Worlds : w \notin done => ~timeUp(w)
    OBVIOUS
  <2> QED BY <2>1, <2>2
<1>9. \A w \in Worlds, i \in Agents :
        stopped[w][i].disabled <=> agents[w][i].disabled \/ i \in end[w]
  BY <1>2 DEF EpisodesTypeOK, Disabled, Stops, AgentState
<1>10. \A w \in Worlds, i \in Learners :
         (told[w][i].over <=> story[w][i].over \/ i \in end[w]) /\ sum[w][i] = told[w][i].steps
  <2> SUFFICES ASSUME NEW w \in Worlds, NEW i \in Learners
               PROVE  /\ told[w][i].over <=> story[w][i].over \/ i \in end[w]
                      /\ sum[w][i] = told[w][i].steps
    OBVIOUS
  <2>1. /\ story[w][i].over <=> i \notin active[w]
        /\ returns[w][i] = story[w][i].steps /\ story[w][i].steps \in Nat
    BY DEF Told, EpisodesTypeOK
  <2>2. sum[w][i] = returns[w][i] + (IF i \in active[w] THEN 1 ELSE 0)
    BY DEF Rewarded
  <2>3. CASE i \in active[w]
    <3> DEFINE b == i \in end[w]
    <3>1. told[w][i] = [steps |-> story[w][i].steps + 1, over |-> b]
      BY Zenon, <2>1, <2>3
    <3> HIDE DEF told, sum, end
    <3>2. told[w][i].steps = story[w][i].steps + 1
      BY <3>1
    <3> HIDE DEF b
    <3>3. told[w][i].over = b
      BY <3>1
    <3>4. told[w][i].over <=> i \in end[w]
      BY Zenon, <3>3 DEF b
    <3>5. ~story[w][i].over
      BY Zenon, <2>1, <2>3
    <3>6. told[w][i].over <=> story[w][i].over \/ i \in end[w]
      BY Zenon, <3>4, <3>5
    <3>7. sum[w][i] = told[w][i].steps
      BY <2>1, <2>2, <2>3, <3>2
    <3> QED BY <3>6, <3>7
  <2>4. CASE i \notin active[w]
    <3>1. told[w][i] = story[w][i]
      BY Zenon, <2>1, <2>4
    <3> HIDE DEF told, sum, end
    <3>2. i \notin end[w]
      BY <2>4, <1>7
    <3>3. told[w][i].over <=> story[w][i].over \/ i \in end[w]
      BY Zenon, <3>1, <3>2
    <3>4. sum[w][i] = told[w][i].steps
      BY <2>1, <2>2, <2>4, <3>1
    <3> QED BY <3>3, <3>4
  <2> QED BY <2>3, <2>4
<1>11. \A w \in done, i \in Learners : sum[w][i] = returns[w][i] + (IF i \in active[w] THEN 1 ELSE 0)
  BY DEF Rewarded
<1>12. out'.active = active /\ out'.terminated = end /\ out'.done = done
         /\ out'.r = [w \in done |-> sum[w]] /\ out'.l = [w \in done |-> long[w]]
         /\ out'.final = written /\ out'.obs = view'
  BY <1>1 DEF FinalObs
<1>13. written = [w \in Worlds |-> Row(baseSeed[w], episode[w], tick[w])]
  BY DEF Gathered
<1> HIDE DEF end, going, won, sum, long, truncated, done, again, written, stopped, told
<1>14. EpisodesTypeOK'
  <2>1. Keep \in Seeds \cup {Keep} /\ again \in SUBSET Worlds
    BY <1>6
  <2>2. /\ baseSeed' \in [Worlds -> Seeds \cup {OwnSeed}] /\ episode' \in [Worlds -> Nat]
        /\ tick' \in [Worlds -> Nat] /\ agents' \in [Worlds -> [Agents -> AgentState]]
    BY <1>1, <1>5, <2>1, ResetTyped DEF EpisodesTypeOK
  <2>3. steps' \in [Worlds -> Nat] /\ length' \in [Worlds -> Nat]
    BY <1>1, <1>3 DEF EpisodesTypeOK, Restarted
  <2>4. active' \in [Worlds -> SUBSET Learners] /\ success' \in [Worlds -> SUBSET Learners]
    BY <1>1, <1>2 DEF Restarted
  <2>5. returns' \in [Worlds -> [Learners -> Nat]]
    BY <1>1, <1>3 DEF Restarted, Zero
  <2>6. story' \in [Worlds -> [Learners -> [steps : Nat, over : BOOLEAN]]]
    BY <1>1, <1>4 DEF Restarted, Untold
  <2>7. /\ autoreset' \in BOOLEAN /\ doing' \in {"idle", "stepping"} /\ resets' \in Nat
        /\ ticksLeft' \in [Worlds -> 0 .. Decimation]
    BY <1>1 DEF EpisodesTypeOK
  <2> QED BY <2>2, <2>3, <2>4, <2>5, <2>6, <2>7 DEF EpisodesTypeOK
<1>15. Stopped'
  <2> SUFFICES ASSUME NEW w \in Worlds, NEW i \in Learners
               PROVE  i \notin active'[w] <=> agents'[w][i].disabled
    BY <1>1 DEF Stopped
  <2>1. i \in Agents
    OBVIOUS
  <2>2. CASE w \in again
    BY <1>1, <2>1, <2>2, FreshTyped DEF ResetWorlds, Restarted
  <2>3. CASE w \notin again
    <3>1. active'[w] = active[w] \ end[w] /\ agents'[w] = stopped[w]
      BY <1>1, <1>7, <2>3 DEF ResetWorlds, Restarted
    <3> QED BY <3>1, <2>1, <1>7, <1>9 DEF Stopped
  <2> QED BY <2>2, <2>3
<1>16. Told'
  <2> SUFFICES ASSUME NEW w \in Worlds, NEW i \in Learners
               PROVE  /\ story'[w][i].over <=> i \notin active'[w]
                      /\ returns'[w][i] = story'[w][i].steps
    BY DEF Told
  <2>1. CASE w \in again
    BY <1>1, <2>1 DEF Restarted, Untold, Zero
  <2>2. CASE w \notin again
    <3>1. story'[w] = told[w] /\ returns'[w] = sum[w] /\ active'[w] = active[w] \ end[w]
      BY <1>1, <1>7, <2>2 DEF Restarted
    <3>2. story[w][i].over <=> i \notin active[w]
      BY DEF Told
    <3>3. story'[w][i].over <=> story[w][i].over \/ i \in end[w]
      BY Zenon, <3>1, <1>10
    <3>4. i \notin active'[w] <=> i \notin active[w] \/ i \in end[w]
      BY <3>1
    <3>5. story'[w][i].over <=> i \notin active'[w]
      BY Zenon, <3>2, <3>3, <3>4
    <3>6. returns'[w][i] = story'[w][i].steps
      BY Zenon, <3>1, <1>10
    <3> QED BY <3>5, <3>6
  <2> QED BY <2>1, <2>2
<1>17. Clocked'
  <2> SUFFICES ASSUME NEW w \in Worlds
               PROVE  /\ steps'[w] = length'[w] /\ (autoreset' => length'[w] < TimeLimit)
                      /\ ticksLeft'[w] = 0 /\ tick'[w] = length'[w] * Decimation
    BY <1>1 DEF Clocked
  <2>1. CASE w \in again
    <3>1. length'[w] = 0 /\ steps'[w] = 0 /\ tick'[w] = 0
      BY <1>1, <2>1 DEF ResetWorlds, Restarted
    <3> QED BY <1>1, <3>1
  <2>2. CASE w \notin again
    <3>1. length'[w] = length[w] + 1 /\ steps'[w] = steps[w] + 1 /\ tick'[w] = tick[w]
      BY <1>1, <2>2 DEF ResetWorlds, Restarted, long
    <3>2. steps[w] = length[w] /\ tick[w] + ticksLeft[w] = (length[w] + 1) * Decimation
      BY <1>1 DEF Clocked
    <3>3. autoreset => length[w] + 1 < TimeLimit
      BY <1>6, <1>8, <2>2
    <3> QED BY <1>1, <3>1, <3>2, <3>3 DEF EpisodesTypeOK
  <2> QED BY <2>1, <2>2
<1>18. Viewed'
  BY <1>1, <1>6, <1>13 DEF Viewed, Gathered, ResetWorlds
<1>19. RightEpisode'
  <2> SUFFICES ASSUME NEW w \in Worlds
               PROVE  /\ out'.obs[w] = Row(baseSeed'[w], episode'[w], tick'[w])
                      /\ autoreset' /\ w \in out'.done =>
                           out'.final[w] = Row(baseSeed'[w], episode'[w] - 1, out'.l[w] * Decimation)
    BY DEF RightEpisode
  <2>1. out'.obs[w] = Row(baseSeed'[w], episode'[w], tick'[w])
    BY <1>1, <1>12, <1>18 DEF Viewed
  <2>2. ASSUME autoreset', w \in out'.done
        PROVE  out'.final[w] = Row(baseSeed'[w], episode'[w] - 1, out'.l[w] * Decimation)
    <3>1. w \in again /\ w \in done
      BY <1>1, <1>6, <1>12, <2>2
    <3>2. baseSeed'[w] = baseSeed[w] /\ episode'[w] = episode[w] + 1 /\ episode[w] \in Nat
      BY <1>1, <3>1 DEF ResetWorlds, EpisodesTypeOK
    <3>3. out'.l[w] = length[w] + 1
      BY <1>12, <3>1 DEF long
    <3>4. tick[w] = (length[w] + 1) * Decimation
      BY <1>1 DEF Clocked, EpisodesTypeOK
    <3> QED BY <1>12, <1>13, <3>2, <3>3, <3>4
  <2> QED BY <2>1, <2>2
<1>20. \A w \in Worlds : out'.active[w] = active[w] /\ out'.terminated[w] \subseteq active[w]
  BY <1>7, <1>12
<1>21. \A w \in out'.done, i \in Learners :
         out'.r[w][i] = returns[w][i] + (IF i \in active[w] THEN 1 ELSE 0)
  BY <1>11, <1>12
<1> QED BY <1>14, <1>15, <1>16, <1>17, <1>18, <1>19, <1>20, <1>21

LEMMA StutterPreserves == IInv /\ UNCHANGED episodesVars => IInv'
<1> SUFFICES ASSUME IInv, UNCHANGED episodesVars PROVE IInv'
  OBVIOUS
<1> USE DEF IInv, episodesVars, envVars, worldVars
<1>1. EpisodesTypeOK'
  BY DEF EpisodesTypeOK
<1>2. Stopped' /\ Told'
  BY DEF Stopped, Told
<1>3. Clocked' /\ Viewed' /\ RightEpisode'
  BY DEF Clocked, Viewed, RightEpisode
<1> QED BY <1>1, <1>2, <1>3

THEOREM Invariance == EpisodesSpec => []IInv
<1>1. IInv /\ [EpisodesNext]_episodesVars => IInv'
  BY ResetPreserves, StepPreserves, TicksPreserves, ComputePreserves, StutterPreserves
     DEF EpisodesNext, Compute
<1> QED BY <1>1, InitInvariant, PTL DEF EpisodesSpec

-----------------------------------------------------------------------------
(* The state of the batch and of the environment keeps its types.          *)
THEOREM Typed == EpisodesSpec => []EpisodesTypeOK
BY Invariance, PTL DEF IInv

(* Between calls, Rust goes on with the learners that Python goes on with. *)
THEOREM StoppedTogetherAlways == EpisodesSpec => []StoppedTogether
<1>1. IInv => StoppedTogether
  BY DEF IInv, Stopped, StoppedTogether
<1> QED BY <1>1, Invariance, PTL

(* The clock, the task's steps and the length of an episode stay together, *)
(* and autoreset keeps episodes within the time limit.                     *)
THEOREM InStepAlways == EpisodesSpec => []InStep
<1>1. IInv => InStep
  BY DEF IInv, Clocked, InStep
<1> QED BY <1>1, Invariance, PTL

(* Observations are of the current episode, final ones of the last tick of *)
(* the finished one.                                                       *)
THEOREM RightEpisodeAlways == EpisodesSpec => []RightEpisode
BY Invariance, PTL DEF IInv

(* The way from Compute to what the caller saw: of all steps only Compute  *)
(* goes from "stepping" to "idle".                                         *)
LEMMA ComputesTold == IInv /\ [EpisodesNext]_episodesVars /\ Computes =>
  /\ \A w \in Worlds : out'.active[w] = active[w] /\ out'.terminated[w] \subseteq active[w]
  /\ \A w \in out'.done, i \in Learners :
       out'.r[w][i] = returns[w][i] + (IF i \in active[w] THEN 1 ELSE 0)
  /\ out'.done \subseteq Worlds
<1> SUFFICES ASSUME IInv, [EpisodesNext]_episodesVars, Computes
             PROVE  /\ \A w \in Worlds : out'.active[w] = active[w] /\ out'.terminated[w] \subseteq active[w]
                    /\ \A w \in out'.done, i \in Learners :
                         out'.r[w][i] = returns[w][i] + (IF i \in active[w] THEN 1 ELSE 0)
                    /\ out'.done \subseteq Worlds
  OBVIOUS
<1>1. ~ResetCall /\ ~StepCall /\ ~UNCHANGED episodesVars
  BY DEF Computes, ResetCall, StepCall, episodesVars, envVars
<1>2. \A w \in Worlds : ~WorldTicks(w)
  BY DEF Computes, WorldTicks, envVars
<1>3. PICK failed \in [Worlds -> SUBSET Learners] : ComputeWith(failed)
  BY <1>1, <1>2 DEF EpisodesNext, Compute
<1>4. out'.done \subseteq Worlds
  BY <1>3 DEF ComputeWith
<1> QED BY <1>3, <1>4, ComputePreserves

(* A learner is told its end once an episode, and info["active"] marks the *)
(* learners whose rewards count.                                           *)
THEOREM EndsOnceAlways == EpisodesSpec => EndsOnce
<1>1. IInv /\ [EpisodesNext]_episodesVars =>
        [ Computes => \A w \in Worlds :
            LET going == {i \in Learners : ~story[w][i].over}
            IN  out'.active[w] = going /\ out'.terminated[w] \subseteq going ]_episodesVars
  <2> SUFFICES ASSUME IInv, [EpisodesNext]_episodesVars, Computes, NEW w \in Worlds
               PROVE  LET going == {i \in Learners : ~story[w][i].over}
                      IN  out'.active[w] = going /\ out'.terminated[w] \subseteq going
    OBVIOUS
  <2>1. active[w] = {i \in Learners : ~story[w][i].over}
    BY DEF IInv, EpisodesTypeOK, Told
  <2> QED BY <2>1, ComputesTold
<1> QED BY <1>1, Invariance, PTL DEF EpisodesSpec, EndsOnce

(* A return sums the learner's rewards up to its own end.                  *)
THEOREM ReturnsCountAlways == EpisodesSpec => ReturnsCount
<1>1. IInv /\ [EpisodesNext]_episodesVars =>
        [ Computes => \A w \in out'.done, i \in Learners :
            out'.r[w][i] = story[w][i].steps + (IF story[w][i].over THEN 0 ELSE 1) ]_episodesVars
  <2> SUFFICES ASSUME IInv, [EpisodesNext]_episodesVars, Computes, NEW w \in out'.done, NEW i \in Learners
               PROVE  out'.r[w][i] = story[w][i].steps + (IF story[w][i].over THEN 0 ELSE 1)
    OBVIOUS
  <2>1. w \in Worlds /\ out'.r[w][i] = returns[w][i] + (IF i \in active[w] THEN 1 ELSE 0)
    BY ComputesTold
  <2>2. returns[w][i] = story[w][i].steps /\ (story[w][i].over <=> i \notin active[w])
    BY <2>1 DEF IInv, Told
  <2> QED BY <2>1, <2>2
<1> QED BY <1>1, Invariance, PTL DEF EpisodesSpec, ReturnsCount
-----------------------------------------------------------------------------
(* A sensor's delay line at tick t: the readings measured in the episode   *)
(* that are not due yet, all of them and in their order; and the sensor    *)
(* shows the last one that was due.  A frozen agent's sensor shows one     *)
(* that was due, and its delay line stands still.                          *)
Measures(m) == m % SensorDivider = 0

Line(q, t) ==
  /\ \A k \in 1 .. Len(q) : q[k] \in 1 .. t /\ Measures(q[k]) /\ q[k] + Latency > t
  /\ \A j, k \in 1 .. Len(q) : j < k => q[j] < q[k]
  /\ \A m \in 1 .. t : Measures(m) /\ m + Latency > t => \E k \in 1 .. Len(q) : q[k] = m

Latest(c, t) == \A m \in Newest(t) : m <= c

OnTime(a, t) ==
  /\ a.current \in Newest(t) \cup {NoReading}
  /\ ~a.disabled => Line(a.queue, t) /\ Latest(a.current, t)

Readings == \A w \in Worlds, i \in Sensing : OnTime(agents[w][i], tick[w])

LEMMA NewestDef ==
  ASSUME NEW t \in Nat, NEW m
  PROVE  m \in Newest(t) <=> m \in 1 .. t /\ Measures(m) /\ m + Latency <= t
BY DEF Newest, Measures

(* The delay line after the measurement of tick t + 1: the readings it     *)
(* holds are due at t + 1 at the earliest, and only its head can be.       *)
LEMMA MeasuredLine ==
  ASSUME NEW a \in AgentState, NEW t \in Nat, Line(a.queue, t)
  PROVE  LET q == Measured(a, t + 1).queue
         IN  /\ q \in Seq(Nat) /\ Len(q) \in Nat
             /\ \A k \in 1 .. Len(q) : q[k] \in 1 .. (t + 1) /\ Measures(q[k]) /\ q[k] + Latency >= t + 1
             /\ \A j, k \in 1 .. Len(q) : j < k => q[j] < q[k]
             /\ \A m \in 1 .. (t + 1) : Measures(m) /\ m + Latency >= t + 1 => \E k \in 1 .. Len(q) : q[k] = m
<1> USE WorldAssumption
<1> DEFINE p == a.queue
           q == Measured(a, t + 1).queue
<1>1. p \in Seq(Nat) /\ Len(p) \in Nat /\ \A k \in 1 .. Len(p) : p[k] \in Nat
  BY ElementOfSeq, LenProperties DEF AgentState
<1>2. q = IF Measures(t + 1) THEN Append(p, t + 1) ELSE p
  BY DEF Measured, Measures, AgentState
<1>3. Line(p, t)
  OBVIOUS
<1> HIDE DEF p, q
<1>4. CASE ~Measures(t + 1)
  <2>1. q = p
    BY <1>2, <1>4
  <2>2. \A m \in 1 .. (t + 1) : Measures(m) => m \in 1 .. t
    BY <1>4
  <2>3. \A k \in 1 .. Len(q) : q[k] \in 1 .. (t + 1) /\ Measures(q[k]) /\ q[k] + Latency >= t + 1
    <3> SUFFICES ASSUME NEW k \in 1 .. Len(p)
                 PROVE  p[k] \in 1 .. (t + 1) /\ Measures(p[k]) /\ p[k] + Latency >= t + 1
      BY <2>1
    <3>1. p[k] \in 1 .. t /\ Measures(p[k]) /\ p[k] + Latency > t
      BY <1>3 DEF Line
    <3> QED BY <3>1
  <2>4. \A j, k \in 1 .. Len(q) : j < k => q[j] < q[k]
    BY <1>3, <2>1 DEF Line
  <2>5. \A m \in 1 .. (t + 1) : Measures(m) /\ m + Latency >= t + 1 => \E k \in 1 .. Len(q) : q[k] = m
    <3> SUFFICES ASSUME NEW m \in 1 .. (t + 1), Measures(m), m + Latency >= t + 1
                 PROVE  \E k \in 1 .. Len(p) : p[k] = m
      BY <2>1
    <3>1. m \in 1 .. t /\ m + Latency > t
      BY <2>2
    <3> QED BY <1>3, <3>1 DEF Line
  <2> QED
    BY <1>1, <2>1, <2>3, <2>4, <2>5 DEF q
<1>5. CASE Measures(t + 1)
  <2>1. /\ q \in Seq(Nat) /\ Len(q) = Len(p) + 1 /\ q[Len(p) + 1] = t + 1
        /\ \A k \in 1 .. Len(p) : q[k] = p[k]
    BY <1>1, <1>2, <1>5, AppendProperties
  <2>2. \A k \in 1 .. Len(q) : q[k] \in 1 .. (t + 1) /\ Measures(q[k]) /\ q[k] + Latency >= t + 1
    <3> SUFFICES ASSUME NEW k \in 1 .. Len(q)
                 PROVE  q[k] \in 1 .. (t + 1) /\ Measures(q[k]) /\ q[k] + Latency >= t + 1
      OBVIOUS
    <3>1. CASE k = Len(p) + 1
      BY <1>5, <2>1, <3>1
    <3>2. CASE k # Len(p) + 1
      <4>1. k \in 1 .. Len(p)
        BY <1>1, <2>1, <3>2
      <4>2. p[k] \in 1 .. t /\ Measures(p[k]) /\ p[k] + Latency > t
        BY <1>3, <4>1 DEF Line
      <4>3. q[k] = p[k]
        BY <2>1, <4>1
      <4> QED
        BY <4>2, <4>3
    <3> QED BY <3>1, <3>2
  <2>3. \A j, k \in 1 .. Len(q) : j < k => q[j] < q[k]
    <3> SUFFICES ASSUME NEW j \in 1 .. Len(q), NEW k \in 1 .. Len(q), j < k PROVE q[j] < q[k]
      OBVIOUS
    <3>0. Len(q) = Len(p) + 1 /\ Len(p) \in Nat
      BY <1>1, <2>1
    <3>1. j \in 1 .. Len(p) /\ q[j] = p[j] /\ p[j] \in 1 .. t
      <4>1. j \in 1 .. Len(p)
        BY <3>0
      <4> QED BY <1>3, <2>1, <4>1 DEF Line
    <3>2. CASE k = Len(p) + 1
      BY <2>1, <3>1, <3>2
    <3>3. CASE k # Len(p) + 1
      <4>1. k \in 1 .. Len(p)
        BY <3>0, <3>3
      <4> QED
        BY <1>3, <2>1, <3>1, <4>1 DEF Line
    <3> QED BY <3>2, <3>3
  <2>4. \A m \in 1 .. (t + 1) : Measures(m) /\ m + Latency >= t + 1 => \E k \in 1 .. Len(q) : q[k] = m
    <3> SUFFICES ASSUME NEW m \in 1 .. (t + 1), Measures(m), m + Latency >= t + 1
                 PROVE  \E k \in 1 .. Len(q) : q[k] = m
      OBVIOUS
    <3>1. CASE m = t + 1
      <4>1. Len(p) + 1 \in 1 .. Len(q)
        BY <1>1, <2>1
      <4> QED BY <2>1, <3>1, <4>1
    <3>2. CASE m # t + 1
      <4>1. m \in 1 .. t /\ m + Latency > t
        BY <3>2
      <4>2. PICK k \in 1 .. Len(p) : p[k] = m
        BY <1>3, <4>1 DEF Line
      <4>3. k \in 1 .. Len(q)
        BY <1>1, <2>1
      <4> QED BY <2>1, <4>2, <4>3
    <3> QED BY <3>1, <3>2
  <2> QED
    BY <1>1, <2>1, <2>2, <2>3, <2>4 DEF q
<1> QED BY <1>4, <1>5

(* Polling at t + 1 takes the reading that is due, if one is, and leaves   *)
(* the delay line in order.                                                *)
LEMMA SensedOnTime ==
  ASSUME NEW i \in Sensing, NEW a \in AgentState, NEW t \in Nat, OnTime(a, t)
  PROVE  OnTime(Sensed(i, a, t + 1), t + 1)
<1> USE WorldAssumption
<1>1. \A m \in Newest(t) : m \in Newest(t + 1)
  BY NewestDef
<1>2. CASE a.disabled
  <2>1. Sensed(i, a, t + 1) = a
    BY <1>2 DEF Sensed
  <2> QED BY <1>1, <1>2, <2>1 DEF OnTime
<1>3. CASE ~a.disabled
  <2> DEFINE b == Measured(a, t + 1)
             q == b.queue
             due == {k \in DOMAIN q : \A j \in 1 .. k : q[j] + Latency <= t + 1}
             n == Cardinality(due)
             c == a.current
  <2>1. Sensed(i, a, t + 1) = Polled(b, t + 1)
    BY <1>3 DEF Sensed
  <2>2. /\ q \in Seq(Nat) /\ Len(q) \in Nat
        /\ \A k \in 1 .. Len(q) : q[k] \in 1 .. (t + 1) /\ Measures(q[k]) /\ q[k] + Latency >= t + 1
        /\ \A j, k \in 1 .. Len(q) : j < k => q[j] < q[k]
        /\ \A m \in 1 .. (t + 1) : Measures(m) /\ m + Latency >= t + 1 => \E k \in 1 .. Len(q) : q[k] = m
    BY <1>3, MeasuredLine DEF OnTime
  <2>3. b \in AgentState /\ b.current = c /\ ~b.disabled
    <3>1. b \in AgentState /\ b.disabled = a.disabled
      BY MeasuredTyped
    <3>2. b.current = c
      BY DEF Measured, AgentState
    <3> QED BY <1>3, <3>1, <3>2
  <2>4. c \in Newest(t) \cup {NoReading} /\ Latest(c, t)
    BY <1>3 DEF OnTime
  <2>5. Polled(b, t + 1) = IF n = 0 THEN b
          ELSE [b EXCEPT !.current = q[n], !.queue = SubSeq(q, n + 1, Len(q))]
    BY DEF Polled
  <2>6. DOMAIN q = 1 .. Len(q)
    BY <2>2
  <2> HIDE DEF b, q, c
  <2>7. CASE Len(q) > 0 /\ q[1] + Latency = t + 1
    <3>1. 1 \in 1 .. Len(q) /\ q[1] \in 1 .. (t + 1) /\ Measures(q[1])
      BY <2>2, <2>7
    <3>2. due = {1}
      <4>1. 1 \in due
        BY <2>6, <2>7, <3>1
      <4>2. ASSUME NEW k \in due PROVE k = 1
        <5>1. k \in 1 .. Len(q) /\ k \in 1 .. k /\ q[k] + Latency <= t + 1
          BY <2>6
        <5>2. k # 1 => q[1] < q[k]
          BY <2>2, <3>1, <5>1
        <5> QED BY <2>2, <2>7, <3>1, <5>1, <5>2
      <4> QED BY <4>1, <4>2
    <3>3. n = 1
      BY <3>2, FS_Singleton
    <3> HIDE DEF due, n
    <3> DEFINE r == SubSeq(q, 2, Len(q))
    <3>4. r \in Seq(Nat) /\ Len(r) = Len(q) - 1 /\ \A k \in 1 .. (Len(q) - 1) : r[k] = q[k + 1]
      <4>1. 2 \in Int /\ Len(q) \in Int /\ \A k \in 2 .. Len(q) : q[k] \in Nat
        BY <2>2
      <4>2. /\ r \in Seq(Nat) /\ Len(r) = (IF 2 <= Len(q) THEN Len(q) - 2 + 1 ELSE 0)
            /\ \A k \in 1 .. (Len(q) - 2 + 1) : r[k] = q[2 + k - 1]
        BY <4>1, SubSeqProperties
      <4> HIDE DEF r
      <4>3. Len(r) = Len(q) - 1
        <5>1. Len(r) = IF 2 <= Len(q) THEN Len(q) - 2 + 1 ELSE 0
          BY <4>2
        <5>2. Len(q) \in Nat /\ Len(q) > 0
          BY <2>2, <2>7
        <5>3. PICK l, x : l \in Nat /\ l = Len(q) /\ x = Len(r) /\ l > 0
          BY <5>2
        <5>4. x = IF 2 <= l THEN l - 2 + 1 ELSE 0
          BY <5>1, <5>3, Zenon
        <5>5. x = l - 1
          BY <5>3, <5>4
        <5> QED BY <5>3, <5>5
      <4>4. ASSUME NEW k \in 1 .. (Len(q) - 1) PROVE r[k] = q[k + 1]
        <5>1. k \in 1 .. (Len(q) - 2 + 1) /\ 2 + k - 1 = k + 1
          BY <2>2
        <5> QED BY <4>2, <5>1
      <4> QED BY <4>2, <4>3, <4>4
    <3>5. Polled(b, t + 1) = [b EXCEPT !.current = q[1], !.queue = r]
      BY <2>5, <3>3
    <3> HIDE DEF r
    <3>6. LET s == Polled(b, t + 1) IN s.current = q[1] /\ s.queue = r
      BY <2>3, <3>5 DEF AgentState
    <3>7. q[1] \in Newest(t + 1) /\ Latest(q[1], t + 1)
      BY <2>2, <2>7, <3>1, NewestDef DEF Latest
    <3>8. Line(r, t + 1)
      <4>0. \A k \in 1 .. Len(r) : k + 1 \in 1 .. Len(q) /\ r[k] = q[k + 1]
        BY <2>2, <3>4
      <4>1. \A k \in 1 .. Len(r) : r[k] \in 1 .. (t + 1) /\ Measures(r[k]) /\ r[k] + Latency > t + 1
        <5> SUFFICES ASSUME NEW k \in 1 .. Len(r)
                     PROVE  r[k] \in 1 .. (t + 1) /\ Measures(r[k]) /\ r[k] + Latency > t + 1
          OBVIOUS
        <5>1. k + 1 \in 1 .. Len(q) /\ r[k] = q[k + 1] /\ 1 < k + 1
          BY <2>2, <3>4, <4>0
        <5>2. q[1] < q[k + 1] /\ q[k + 1] \in 1 .. (t + 1) /\ Measures(q[k + 1])
          BY <2>2, <3>1, <5>1
        <5> QED BY <2>7, <3>1, <5>1, <5>2
      <4>2. \A j, k \in 1 .. Len(r) : j < k => r[j] < r[k]
        <5> SUFFICES ASSUME NEW j \in 1 .. Len(r), NEW k \in 1 .. Len(r), j < k PROVE r[j] < r[k]
          OBVIOUS
        <5>1. j + 1 < k + 1
          BY <2>2, <3>4
        <5> QED BY <2>2, <4>0, <5>1
      <4>3. ASSUME NEW m \in 1 .. (t + 1), Measures(m), m + Latency > t + 1
            PROVE  \E k \in 1 .. Len(r) : r[k] = m
        <5>1. PICK k \in 1 .. Len(q) : q[k] = m
          BY <2>2, <4>3
        <5>2. k # 1
          BY <2>7, <4>3, <5>1
        <5>3. k - 1 \in 1 .. Len(r) /\ (k - 1) + 1 = k
          BY <2>2, <3>4, <5>2
        <5> QED BY <4>0, <5>1, <5>3
      <4> QED BY <4>1, <4>2, <4>3 DEF Line
    <3> QED BY <2>1, <3>6, <3>7, <3>8 DEF OnTime
  <2>8. CASE ~(Len(q) > 0 /\ q[1] + Latency = t + 1)
    <3>1. \A k \in 1 .. Len(q) : q[k] + Latency > t + 1
      <4> SUFFICES ASSUME NEW k \in 1 .. Len(q), ~(q[k] + Latency > t + 1) PROVE FALSE
        OBVIOUS
      <4>1. 1 \in 1 .. Len(q)
        BY <2>2
      <4>2. k # 1 => q[1] < q[k]
        BY <2>2, <4>1
      <4> QED BY <2>2, <2>8, <4>1, <4>2
    <3>2. due = {}
      <4> SUFFICES ASSUME NEW k \in due PROVE FALSE
        OBVIOUS
      <4>1. k \in 1 .. Len(q) /\ k \in 1 .. k
        BY <2>6
      <4>2. q[k] + Latency <= t + 1
        BY <4>1
      <4> QED BY <2>2, <3>1, <4>1, <4>2
    <3>3. n = 0
      BY <3>2, FS_EmptySet
    <3>4. Polled(b, t + 1) = b
      BY <2>5, <3>3
    <3>5. Line(q, t + 1)
      BY <2>2, <3>1 DEF Line
    <3>6. Latest(c, t + 1)
      <4> SUFFICES ASSUME NEW m \in Newest(t + 1) PROVE m <= c
        BY DEF Latest
      <4>1. m \in 1 .. (t + 1) /\ Measures(m) /\ m + Latency <= t + 1
        BY NewestDef
      <4>2. CASE m + Latency <= t
        <5>1. m \in Newest(t)
          BY <4>1, <4>2, NewestDef
        <5> QED BY <2>4, <5>1 DEF Latest
      <4>3. CASE m + Latency = t + 1
        <5>1. PICK k \in 1 .. Len(q) : q[k] = m
          BY <2>2, <4>1, <4>3
        <5> QED BY <3>1, <4>3, <5>1
      <4> QED BY <4>1, <4>2, <4>3
    <3> QED BY <1>1, <2>1, <2>3, <2>4, <3>4, <3>5, <3>6 DEF OnTime, q
  <2> QED BY <2>7, <2>8
<1> QED BY <1>2, <1>3

(* Nothing else in a tick touches a delay line or what a sensor shows.     *)
SameSensor(a, b) == b.queue = a.queue /\ b.current = a.current /\ (a.disabled => b.disabled)

LEMMA SameOnTime ==
  ASSUME NEW a, NEW b, NEW t \in Nat, OnTime(a, t), SameSensor(a, b)
  PROVE  OnTime(b, t)
BY DEF OnTime, SameSensor

LEMMA FreshOnTime == OnTime(Fresh, 0)
<1>1. \A t \in Nat : \A m : m \in Newest(t) => m \in 1 .. t
  BY NewestDef
<1>2. Newest(0) = {}
  BY <1>1
<1>3. Fresh.queue = <<>> /\ Fresh.current = NoReading
  BY DEF Fresh
<1> QED BY <1>2, <1>3 DEF OnTime, Line, Latest

LEMMA SteppedSensor ==
  ASSUME NEW i, NEW a \in AgentState, NEW t \in Nat, NEW bad, NEW reach, NEW broken, NEW still
  PROVE  SameSensor(a, Stepped(i, a, t, bad, reach, broken, still))
<1> DEFINE noted == [a EXCEPT !.events = @ \cup (IF bad THEN {"terminal"} ELSE {})]
           moved == [noted EXCEPT !.resting = i \in Kinematic /\ still]
<1>1. noted \in AgentState /\ SameSensor(a, noted)
  BY DEF AgentState, SameSensor
<1>2. moved \in AgentState /\ SameSensor(a, moved)
  BY <1>1 DEF AgentState, SameSensor
<1>3. Stepped(i, a, t, bad, reach, broken, still) \in {a, noted, Settled(i, moved, reach, broken)}
  BY DEF Stepped
<1> HIDE DEF noted, moved
<1>4. SameSensor(moved, Settled(i, moved, reach, broken))
  BY <1>2 DEF Settled, AgentState, SameSensor
<1>5. SameSensor(a, Settled(i, moved, reach, broken))
  BY <1>2, <1>4 DEF SameSensor
<1>6. SameSensor(a, a)
  BY DEF SameSensor
<1> QED BY <1>1, <1>3, <1>5, <1>6

LEMMA TickedOnTime ==
  ASSUME NEW i \in Sensing, NEW a \in AgentState, NEW t \in Nat, OnTime(a, t),
         NEW bad, NEW reach, NEW broken, NEW still, NEW hit
  PROVE  OnTime(Sensed(i, Struck(Stepped(i, a, t, bad, reach, broken, still), hit), t + 1), t + 1)
<1> DEFINE x == Stepped(i, a, t, bad, reach, broken, still)
           y == Struck(x, hit)
<1>1. x \in AgentState /\ SameSensor(a, x)
  BY SteppedTyped, SteppedSensor
<1> HIDE DEF x
<1>2. y \in AgentState /\ SameSensor(x, y)
  BY <1>1, StruckTyped DEF Struck, AgentState, SameSensor
<1>3. OnTime(y, t)
  BY <1>1, <1>2, SameOnTime DEF SameSensor
<1> HIDE DEF y
<1>4. OnTime(Sensed(i, y, t + 1), t + 1)
  BY <1>2, <1>3, SensedOnTime
<1> QED BY <1>4 DEF x, y

(* What a step of the environment does to one agent's sensors.             *)
LEMMA ReadingsKept ==
  ASSUME IInv, [EpisodesNext]_episodesVars, Readings
  PROVE  Readings'
<1> SUFFICES ASSUME NEW w \in Worlds, NEW i \in Sensing PROVE OnTime(agents'[w][i], tick'[w])
  BY DEF Readings
<1>0. /\ i \in Agents /\ agents[w][i] \in AgentState /\ tick[w] \in Nat
      /\ OnTime(agents[w][i], tick[w])
      /\ agents \in [Worlds -> [Agents -> AgentState]] /\ tick \in [Worlds -> Nat]
  BY WorldAssumption DEF IInv, EpisodesTypeOK, Readings
<1>1. ASSUME NEW state \in [Worlds -> [Agents -> AgentState]], NEW mask, NEW seed,
             ResetWorlds(state, mask, seed), SameSensor(agents[w][i], state[w][i])
      PROVE  OnTime(agents'[w][i], tick'[w])
  <2>1. CASE w \in mask
    <3>1. agents'[w][i] = Fresh /\ tick'[w] = 0
      BY <1>0, <1>1, <2>1 DEF ResetWorlds
    <3> QED BY <3>1, FreshOnTime
  <2>2. CASE w \notin mask
    <3>1. agents'[w][i] = state[w][i] /\ tick'[w] = tick[w]
      BY <1>0, <1>1, <2>2 DEF ResetWorlds
    <3> QED BY <1>0, <1>1, <3>1, SameOnTime
  <2> QED BY <2>1, <2>2
<1>2. CASE ResetCall
  <2>1. PICK mask, seed : ResetWorlds(agents, mask, seed)
    BY <1>2 DEF ResetCall
  <2>2. SameSensor(agents[w][i], agents[w][i])
    BY DEF SameSensor
  <2> QED BY <1>0, <1>1, <2>1, <2>2
<1>3. CASE StepCall
  <2>1. PICK turned : agents' = [v \in Worlds |-> [j \in Agents |-> Started(agents[v][j], j \in turned[v])]]
    BY <1>3 DEF StepCall, StartStep
  <2>2. agents'[w][i] = Started(agents[w][i], i \in turned[w]) /\ tick'[w] = tick[w]
    BY <1>0, <1>3, <2>1 DEF StepCall
  <2>3. SameSensor(agents[w][i], agents'[w][i])
    BY <1>0, <2>2 DEF Started, AgentState, SameSensor
  <2> QED BY <1>0, <2>2, <2>3, SameOnTime
<1>4. ASSUME NEW v \in Worlds, WorldTicks(v) PROVE OnTime(agents'[w][i], tick'[w])
  <2>1. PICK bad, reach, broken, still, hit :
          agents' = [agents EXCEPT ![v] = AfterTick(v, bad, reach, broken, still, hit)]
    BY <1>4, Zenon DEF WorldTicks, TickWorld
  <2>2. tick' = [tick EXCEPT ![v] = @ + 1]
    BY <1>4 DEF WorldTicks, TickWorld
  <2>3. CASE v # w
    <3>1. agents'[w][i] = agents[w][i] /\ tick'[w] = tick[w]
      BY <1>0, <2>1, <2>2, <2>3
    <3> QED BY <1>0, <3>1
  <2>4. CASE v = w
    <3>1. tick'[w] = tick[w] + 1
      BY <1>0, <2>2, <2>4
    <3>2. agents'[w][i] = Sensed(i, Struck(Stepped(i, agents[w][i], tick[w], i \in bad, i \in reach,
                                      i \in broken, i \in still), i \in hit), tick[w] + 1)
      BY <1>0, <2>1, <2>4 DEF AfterTick
    <3> QED BY <1>0, <3>1, <3>2, TickedOnTime
  <2> QED BY <2>3, <2>4
<1>5. CASE Compute
  <2>1. PICK end, won, again : ResetWorlds(Disabled(agents, Stops(end, won)), again, Keep)
    BY <1>5, Zenon DEF Compute, ComputeWith
  <2> DEFINE stop == Stops(end, won)
             stopped == Disabled(agents, stop)
  <2> HIDE DEF stop
  <2>2. ASSUME NEW v \in Worlds, NEW j \in Agents
        PROVE  stopped[v][j] \in AgentState /\ SameSensor(agents[v][j], stopped[v][j])
    <3>1. agents[v][j] \in AgentState
      BY <1>0
    <3>2. stopped[v][j] \in {agents[v][j], [agents[v][j] EXCEPT !.disabled = TRUE]}
      BY DEF Disabled
    <3> QED BY <3>1, <3>2 DEF AgentState, SameSensor
  <2>3. stopped \in [Worlds -> [Agents -> AgentState]]
    BY <2>2 DEF Disabled
  <2>4. ResetWorlds(stopped, again, Keep)
    BY <2>1 DEF stop
  <2> HIDE DEF stopped
  <2> QED BY <1>0, <1>1, <2>2, <2>3, <2>4
<1>6. CASE UNCHANGED episodesVars
  BY <1>0, <1>6 DEF episodesVars, worldVars
<1> QED BY <1>2, <1>3, <1>4, <1>5, <1>6 DEF EpisodesNext

(* A sensor shows the newest reading that is due, and none of an earlier   *)
(* episode, whatever the divider and the latency; a frozen agent's shows   *)
(* one that was due when it stopped.                                       *)
THEOREM ReadingsOnTimeAlways == EpisodesSpec => []ReadingsOnTime
<1>1. EpisodesInit => Readings
  <2> SUFFICES ASSUME EpisodesInit, NEW w \in Worlds, NEW i \in Sensing
               PROVE  OnTime(agents[w][i], tick[w])
    BY DEF Readings
  <2>1. agents[w][i] = Fresh /\ tick[w] = 0
    BY WorldAssumption DEF EpisodesInit, WorldInit
  <2> QED BY <2>1, FreshOnTime
<1>2. Readings => ReadingsOnTime
  BY DEF Readings, OnTime, Latest, ReadingsOnTime
<1> QED BY <1>1, <1>2, ReadingsKept, Invariance, PTL DEF EpisodesSpec
=============================================================================
