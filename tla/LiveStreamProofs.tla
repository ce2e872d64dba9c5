--------------------------- MODULE LiveStreamProofs ----------------------------
(* The live stream, proved for any connections, queues and runs.           *)
EXTENDS LiveStream, StreamLemmas

SharedTyped ==
  /\ prefix \in Seq(Nat) /\ meta \in Seq(Nat) /\ episode \in Seq(Nat) /\ routes \in Seq(Nat)
  /\ clients \subseteq Conns

ConnTyped ==
  /\ queue \in [Conns -> Seq(Seq(Nat))]
  /\ buf \in [Conns -> Seq(Nat)]
  /\ writer \in [Conns -> {"none", "recv", "write", "flush", "done"}]
  /\ link \in [Conns -> {"none", "pending", "taken", "up", "fin", "cut"}]
  /\ wire \in [Conns -> Seq(Nat)]
  /\ got \in [Conns -> Seq(Nat)]
  /\ since \in [Conns -> [run : Nat, at : Nat]]

StreamTyped == RecorderTyped /\ SharedTyped /\ ConnTyped

LEMMA InitTyped == Init => StreamTyped
  BY DEF Init, InitRecorder, StreamTyped, RecorderTyped, SharedTyped, ConnTyped, FreshWorlds, Fresh, World, Absent

(* Who is held on to has a connection that was accepted, and an open sink; *)
(* a writer that is done is so because its connection is.                  *)
Held ==
  /\ sink # "up" => clients = {}
  /\ sink = "up" => episodes # 0
  /\ \A c \in Conns :
       /\ Len(queue[c]) <= Queue
       /\ link[c] \in {"none", "pending", "taken"} => writer[c] = "none"
       /\ writer[c] = "done" => link[c] \notin {"none", "pending", "taken", "up"}

SInv == StreamTyped /\ Held

(* What close and the accept thread do to end the stream.                  *)
Closes == CloseConnects \/ CloseJoins \/ AcceptReturnsOwn \/ AcceptEnds

LEMMA ClosesIs ==
  ASSUME Closes
  PROVE  /\ UNCHANGED <<world, run, episodes, script, log, prefix, meta, episode, routes, clients,
                        queue, buf, writer, wire, got, since>>
         /\ sink' = sink \/ Finished
         /\ \/ link' = link
            \/ link' = [c \in Conns |-> IF link[c] \in {"pending", "taken"} THEN "cut" ELSE link[c]]
  BY DEF Closes, CloseConnects, CloseJoins, AcceptReturnsOwn, AcceptEnds, Finished, simVars, sinkVars, connVars

(* Sending a record: to each of the clients that stay.                     *)
LEMMA SendKeeps ==
  ASSUME ConnTyped, clients \subseteq Conns, NEW k \in Nat, Send(k),
         \A c \in Conns : Len(queue[c]) <= Queue
  PROVE  /\ queue' \in [Conns -> Seq(Seq(Nat))] /\ clients' \subseteq clients
         /\ \A c \in Conns : Len(queue'[c]) <= Queue
<1>1. \A c \in Conns : queue[c] \in Seq(Seq(Nat)) /\ <<k>> \in Seq(Nat)
  BY DEF ConnTyped
<1>2. \A c \in Conns : Append(queue[c], <<k>>) \in Seq(Seq(Nat)) /\ Len(Append(queue[c], <<k>>)) = Len(queue[c]) + 1
  BY <1>1
<1>3. Queue \in Nat /\ \A c \in Conns : Len(queue[c]) \in Nat
  BY <1>1, LiveStreamAssumption
<1>4. queue' = [c \in Conns |-> IF c \in clients' THEN Append(queue[c], <<k>>) ELSE queue[c]]
      /\ clients' = {c \in clients : Takes(c)}
  BY DEF Send
<1>5. \A c \in clients' : Len(queue[c]) < Queue
  BY <1>4 DEF Takes
<1> QED BY <1>1, <1>2, <1>3, <1>4, <1>5

(* The five kinds of record are cached differently.                        *)
LEMMA SimWritesOK == ASSUME SInv, SimWrites PROVE SInv'
<1>1. PICK r, k :
        /\ Write(r, k)
        /\ \/ prefix' = Append(prefix, k) /\ UNCHANGED <<meta, episode, routes>>
           \/ meta' = <<k>> /\ episode' = <<>> /\ routes' = <<>> /\ UNCHANGED prefix
           \/ episode' = <<k>> /\ routes' = <<>> /\ UNCHANGED <<prefix, meta>>
           \/ routes' = Append(routes, k) /\ UNCHANGED <<prefix, meta, episode>>
           \/ UNCHANGED <<prefix, meta, episode, routes>>
  BY DEF SimWrites, AddChannel, WriteMeta, WriteEpisode, WriteRoute, WriteOther
<1>2. Writes(r, k) /\ Send(k) /\ UNCHANGED <<buf, writer, link, wire, got, since>>
  BY <1>1 DEF Write
<1>3. RecorderTyped' /\ k \in Nat /\ sink' = sink /\ episodes' = episodes
  BY <1>2, WritesTyped DEF SInv, StreamTyped, Writes
<1>4. /\ queue' \in [Conns -> Seq(Seq(Nat))] /\ clients' \subseteq clients
      /\ \A c \in Conns : Len(queue'[c]) <= Queue
  BY <1>2, <1>3, SendKeeps DEF SInv, StreamTyped, Held, SharedTyped
<1>5. SharedTyped'
  <2>1. <<k>> \in Seq(Nat) /\ <<>> \in Seq(Nat) /\ \A s \in Seq(Nat) : Append(s, k) \in Seq(Nat)
    BY <1>3
  <2>2. /\ prefix' \in {prefix, Append(prefix, k)}
        /\ meta' \in {meta, <<k>>}
        /\ episode' \in {episode, <<k>>, <<>>}
        /\ routes' \in {routes, Append(routes, k), <<>>}
    BY <1>1
  <2> QED BY <2>1, <2>2, <1>4 DEF SInv, StreamTyped, SharedTyped
<1>6. ConnTyped'
  BY <1>2, <1>4 DEF SInv, StreamTyped, ConnTyped
<1>7. Held'
  BY <1>2, <1>3, <1>4 DEF SInv, Held
<1> QED BY <1>3, <1>5, <1>6, <1>7 DEF SInv, StreamTyped

LEMMA CatTyped ==
  ASSUME NEW a \in Seq(Nat), NEW b \in Seq(Nat), NEW c \in Seq(Nat), NEW d \in Seq(Nat)
  PROVE  <<0>> \o a \o b \o c \o d \in Seq(Nat)
  OBVIOUS

(* A connection as it is accepted.                                         *)
LEMMA AcceptOK == ASSUME SInv, NEW c \in Conns, Accept(c) PROVE SInv'
<1>1. StartBatch \in Seq(Nat)
  BY CatTyped DEF StartBatch, SInv, StreamTyped, SharedTyped
<1>2. <<StartBatch>> \in Seq(Seq(Nat)) /\ Len(<<StartBatch>>) = 1 /\ Len(log) \in Nat
  BY <1>1 DEF SInv, StreamTyped, RecorderTyped
<1>3. Queue \in Nat \ {0}
  BY LiveStreamAssumption
<1>4. RecorderTyped' /\ SharedTyped'
  BY DEF Accept, simVars, SInv, StreamTyped, RecorderTyped, SharedTyped
<1>5. ConnTyped'
  <2>1. since' \in [Conns -> [run : Nat, at : Nat]]
    BY <1>2 DEF Accept, SInv, StreamTyped, RecorderTyped, ConnTyped
  <2> QED BY <1>2, <2>1 DEF Accept, SInv, StreamTyped, ConnTyped
<1>6. Held'
  BY <1>2, <1>3 DEF Accept, simVars, SInv, StreamTyped, ConnTyped, Held
<1> QED BY <1>4, <1>5, <1>6 DEF SInv, StreamTyped

LEMMA WriterStepOK == ASSUME SInv, NEW c \in Conns, WriterStep(c) PROVE SInv'
<1>1. RecorderTyped' /\ SharedTyped'
  BY DEF WriterStep, Recv, RecvEnds, TryRecv, TryRecvEmpty, Push, WriteFails, Flushed,
         simVars, sinkVars, SInv, StreamTyped, RecorderTyped, SharedTyped
<1>2. queue[c] \in Seq(Seq(Nat)) /\ buf[c] \in Seq(Nat) /\ wire[c] \in Seq(Nat) /\ Queue \in Nat
  BY LiveStreamAssumption DEF SInv, StreamTyped, ConnTyped
<1>3. queue[c] # <<>> =>
        Tail(queue[c]) \in Seq(Seq(Nat)) /\ Head(queue[c]) \in Seq(Nat) /\ Len(Tail(queue[c])) <= Len(queue[c])
  BY <1>2
<1>4. queue[c] # <<>> => buf[c] \o Head(queue[c]) \in Seq(Nat)
  BY <1>2, <1>3
<1>5. buf[c] # <<>> => Tail(buf[c]) \in Seq(Nat) /\ Append(wire[c], Head(buf[c])) \in Seq(Nat)
  BY <1>2
<1> USE DEF SInv, StreamTyped
<1>6. CASE Recv(c)
  <2>1. ConnTyped'
    BY <1>3, <1>6 DEF Recv, ConnTyped
  <2>2. Held'
    BY <1>2, <1>3, <1>6 DEF Recv, simVars, sinkVars, ConnTyped, Held
  <2> QED BY <1>1, <2>1, <2>2
<1>7. CASE RecvEnds(c)
  <2>1. ConnTyped'
    BY <1>7 DEF RecvEnds, ConnTyped
  <2>2. Held'
    BY <1>7 DEF RecvEnds, simVars, sinkVars, ConnTyped, Held
  <2> QED BY <1>1, <2>1, <2>2
<1>8. CASE TryRecv(c)
  <2>1. ConnTyped'
    BY <1>3, <1>4, <1>8 DEF TryRecv, ConnTyped
  <2>2. Held'
    BY <1>2, <1>3, <1>8 DEF TryRecv, simVars, sinkVars, ConnTyped, Held
  <2> QED BY <1>1, <2>1, <2>2
<1>9. CASE TryRecvEmpty(c)
  BY <1>1, <1>9 DEF TryRecvEmpty, simVars, sinkVars, ConnTyped, Held
<1>10. CASE Push(c)
  <2>1. ConnTyped'
    BY <1>5, <1>10 DEF Push, ConnTyped
  <2>2. Held'
    BY <1>10 DEF Push, simVars, sinkVars, ConnTyped, Held
  <2> QED BY <1>1, <2>1, <2>2
<1>11. CASE WriteFails(c)
  <2>1. ConnTyped'
    BY <1>11 DEF WriteFails, ConnTyped
  <2>2. Held'
    BY <1>2, <1>11 DEF WriteFails, simVars, sinkVars, ConnTyped, Held
  <2> QED BY <1>1, <2>1, <2>2
<1>12. CASE Flushed(c)
  BY <1>1, <1>12 DEF Flushed, simVars, sinkVars, ConnTyped, Held
<1> QED BY <1>6, <1>7, <1>8, <1>9, <1>10, <1>11, <1>12 DEF WriterStep

LEMMA NetworkOK ==
  ASSUME SInv, NEW c \in Conns, AcceptReturns(c) \/ AcceptUnserved(c) \/ Connect(c) \/ Receive(c) \/ Break(c)
  PROVE  SInv'
<1> USE DEF SInv, StreamTyped, simVars, sinkVars
<1>1. RecorderTyped' /\ SharedTyped'
  BY DEF AcceptReturns, AcceptUnserved, Connect, Receive, Break, RecorderTyped, SharedTyped
<1>2. CASE AcceptReturns(c) \/ AcceptUnserved(c)
  BY <1>1, <1>2 DEF AcceptReturns, AcceptUnserved, ConnTyped, Held
<1>3. CASE Connect(c)
  BY <1>1, <1>3 DEF Connect, ConnTyped, Held
<1>4. CASE Receive(c)
  <2>1. got[c] \in Seq(Nat) /\ wire[c] \in Seq(Nat) /\ wire[c] # <<>>
    BY <1>4 DEF Receive, ConnTyped
  <2>2. Tail(wire[c]) \in Seq(Nat) /\ Append(got[c], Head(wire[c])) \in Seq(Nat)
    BY <2>1
  <2>3. ConnTyped'
    BY <1>4, <2>2 DEF Receive, ConnTyped
  <2>4. Held'
    BY <1>4 DEF Receive, Held
  <2> QED BY <1>1, <2>3, <2>4
<1>5. CASE Break(c)
  <2>1. ConnTyped'
    <3>1. wire' = [wire EXCEPT ![c] = <<>>] \/ wire' = wire
      BY <1>5 DEF Break
    <3>2. wire' \in [Conns -> Seq(Nat)]
      <4>1. wire \in [Conns -> Seq(Nat)] /\ <<>> \in Seq(Nat)
        BY DEF ConnTyped
      <4>2. [wire EXCEPT ![c] = <<>>] \in [Conns -> Seq(Nat)]
        BY <4>1
      <4> QED BY <3>1, <4>1, <4>2
    <3>3. link' \in [Conns -> {"none", "pending", "taken", "up", "fin", "cut"}]
      BY <1>5 DEF Break, ConnTyped
    <3> QED BY <1>5, <3>2, <3>3 DEF Break, ConnTyped
  <2>2. Held'
    BY <1>5 DEF Break, ConnTyped, Held
  <2> QED BY <1>1, <2>1, <2>2
<1> QED BY <1>2, <1>3, <1>4, <1>5

LEMMA SinkEndsOK ==
  ASSUME SInv, Close \/ Closes \/ \E next \in FreshWorlds, short \in SUBSET Conns : Exit(next, short)
  PROVE  SInv'
<1> USE DEF SInv, StreamTyped
<1>1. CASE Close
  BY <1>1 DEF Close, Finish, connVars, RecorderTyped, SharedTyped, ConnTyped, Held
<1>2. CASE Closes
  <2>1. RecorderTyped' /\ SharedTyped'
    BY <1>2, ClosesIs DEF Finished, RecorderTyped, SharedTyped
  <2>2. ConnTyped'
    BY <1>2, ClosesIs DEF ConnTyped
  <2>3. Held'
    BY <1>2, ClosesIs DEF Finished, ConnTyped, Held
  <2> QED BY <2>1, <2>2, <2>3
<1>3. CASE \E next \in FreshWorlds, short \in SUBSET Conns : Exit(next, short)
  <2>1. PICK next \in FreshWorlds, short \in SUBSET Conns : Exit(next, short)
    BY <1>3
  <2>2. RecorderTyped' /\ sink' = "none"
    BY <2>1, ProcessEndsTyped DEF Exit, ProcessEnds
  <2>3. SharedTyped' /\ clients' = {}
    BY <2>1 DEF Exit, Cleared, SharedTyped
  <2>4. ConnTyped'
    <3>1. writer' \in [Conns -> {"none", "recv", "write", "flush", "done"}]
      BY <2>1 DEF Exit
    <3>2. link' \in [Conns -> {"none", "pending", "taken", "up", "fin", "cut"}]
      BY <2>1 DEF Exit, ConnTyped
    <3>3. queue' \in [Conns -> Seq(Seq(Nat))] /\ buf' \in [Conns -> Seq(Nat)]
      BY <2>1 DEF Exit
    <3> QED BY <2>1, <3>1, <3>2, <3>3 DEF Exit, ConnTyped
  <2>5. Held'
    BY <2>1, <2>2, <2>3, LiveStreamAssumption DEF Exit, ConnTyped, Held
  <2> QED BY <2>2, <2>3, <2>4, <2>5
<1> QED BY <1>1, <1>2, <1>3

LEMMA SimStepOK == ASSUME SInv, SimStep PROVE SInv'
<1> USE DEF SInv, StreamTyped
<1>1. CASE SimWrites
  BY <1>1, SimWritesOK
<1>2. CASE Bind
  <2>1. RecorderTyped' /\ sink' = "up" /\ episodes' = 1
    BY <1>2, AttachTyped DEF Bind, Attach
  <2>2. SharedTyped' /\ ConnTyped' /\ Held'
    BY <1>2, <2>1 DEF Bind, Cleared, connVars, SharedTyped, ConnTyped, Held
  <2> QED BY <2>1, <2>2
<1>3. CASE Close
  BY <1>3, SinkEndsOK
<1>4. ASSUME NEW seed \in Seeds, Reset(seed), UNCHANGED <<sinkVars, connVars>>
      PROVE  SInv'
  <2>1. RecorderTyped' /\ sink' = sink /\ episodes' # 0
    BY <1>4, ResetTyped DEF Reset, RecorderTyped
  <2> QED BY <1>4, <2>1 DEF sinkVars, connVars, SharedTyped, ConnTyped, Held
<1>5. ASSUME NEW replaced \in BOOLEAN, NEW due \in BOOLEAN, Tick(replaced, due, clients # {}),
             UNCHANGED <<sinkVars, connVars>>
      PROVE  SInv'
  <2>1. RecorderTyped' /\ sink' = sink /\ episodes' = episodes
    BY <1>5, TickTyped DEF Tick, Held
  <2> QED BY <1>5, <2>1 DEF sinkVars, connVars, SharedTyped, ConnTyped, Held
<1> QED BY <1>1, <1>2, <1>3, <1>4, <1>5 DEF SimStep

LEMMA StreamInitOK == Init => SInv
<1>1. ASSUME Init PROVE Held
  BY <1>1, LiveStreamAssumption DEF Init, InitRecorder, Held
<1> QED BY <1>1, InitTyped DEF SInv

LEMMA StreamStepOK == SInv /\ [Next]_vars => SInv'
<1> SUFFICES ASSUME SInv, [Next]_vars PROVE SInv'
  OBVIOUS
<1>1. CASE UNCHANGED vars
  BY <1>1 DEF vars, simVars, sinkVars, connVars, SInv, StreamTyped, RecorderTyped, SharedTyped, ConnTyped, Held
<1> QED BY <1>1, SimStepOK, SinkEndsOK, AcceptOK, NetworkOK, WriterStepOK DEF Next, AcceptThread, Closes

(* Types of the stream's variables, at every moment.                       *)
THEOREM StreamTypeCorrect == Spec => []StreamTyped
  BY StreamInitOK, StreamStepOK, PTL DEF Spec, SInv

(* A client is given up for its own lag or failure, or because the stream  *)
(* ends (write's retain, close).                                           *)
THEOREM ClientsDroppedForCause == Spec => DroppedForCause
<1>1. SInv /\ [Next]_vars =>
        [\A c \in clients \ clients' : Len(queue[c]) = Queue \/ link[c] # "up" \/ sink' # "up"]_vars
  <2> SUFFICES ASSUME SInv, [Next]_vars, NEW c \in clients \ clients', sink' = "up"
               PROVE  Len(queue[c]) = Queue \/ link[c] # "up"
    OBVIOUS
  <2>1. c \in Conns /\ Len(queue[c]) \in Nat /\ Queue \in Nat /\ Len(queue[c]) <= Queue
    BY LiveStreamAssumption DEF SInv, StreamTyped, SharedTyped, ConnTyped, Held
  <2>2. ~(sink # "up")
    BY DEF SInv, Held
  <2>3. SimWrites
    BY <2>2 DEF vars, sinkVars, Next, SimStep, Bind, Attach, Close, Finish, CloseConnects, CloseJoins, Finished,
           AcceptThread, AcceptReturnsOwn, AcceptEnds, AcceptReturns, Accept, AcceptUnserved,
           WriterStep, Recv, RecvEnds, TryRecv, TryRecvEmpty, Push, WriteFails, Flushed,
           Connect, Receive, Break, Exit, ProcessEnds
  <2>4. ~Takes(c)
    BY <2>3 DEF SimWrites, AddChannel, WriteMeta, WriteEpisode, WriteRoute, WriteOther, Write, Send
  <2> QED BY <2>1, <2>4 DEF Takes, SInv, Held
<1> QED BY StreamInitOK, StreamStepOK, <1>1, PTL DEF Spec, DroppedForCause
-----------------------------------------------------------------------------
(* What a connection is promised, as the log grows                         *)

(* The set of records in order is what the abstract broadcast calls so.    *)
LEMMA OrderedIs == ASSUME NEW S PROVE Feed!Ordered(S) = InOrder(S, Len(log))
  BY DEF Feed!Ordered, Feed!InOrder, InOrder

LEMMA LatestNext ==
  ASSUME NEW n \in Nat, NEW S \in SUBSET (1 .. n)
  PROVE  Feed!Latest(S \cup {n + 1}) = {n + 1}
<1>1. n + 1 <= n + 1 /\ \A i \in 1 .. n : i <= n + 1 /\ ~(n + 1 <= i)
  OBVIOUS
<1> QED BY <1>1 DEF Feed!Latest

(* Nothing comes after the newest ...                                      *)
LEMMA AfterNewest ==
  ASSUME NEW n \in Nat, NEW S \in SUBSET (1 .. n), NEW T, n + 1 \in T
  PROVE  Feed!After(S, T) = {}
<1>1. \A i \in 1 .. n : ~(n + 1 < i)
  OBVIOUS
<1> QED BY <1>1 DEF Feed!After

(* ... which comes after all.                                              *)
LEMMA AfterNext ==
  ASSUME NEW n \in Nat, NEW S \in SUBSET (1 .. n), NEW T \in SUBSET (1 .. n)
  PROVE  Feed!After(S \cup {n + 1}, T) = Feed!After(S, T) \cup {n + 1}
<1>1. \A i \in 1 .. n : i < n + 1
  OBVIOUS
<1> QED BY <1>1 DEF Feed!After

(* The first m records stay.                                               *)
LEMMA OldRecords ==
  ASSUME log \in Seq(Record), NEW x, log' = Append(log, x), NEW r, NEW m \in 0 .. Len(log)
  PROVE  /\ Feed!Of(r, m)' = Feed!Of(r, m)
         /\ \A topic : Feed!Messages(r, m, topic)' = Feed!Messages(r, m, topic)
         /\ Feed!Channels(r, m)' = Feed!Channels(r, m)
<1>1. \A i \in 1 .. m : log'[i] = log[i]
  OBVIOUS
<1>2. Feed!Of(r, m)' = Feed!Of(r, m)
  BY <1>1 DEF Feed!Of
<1>3. Feed!Of(r, m) \subseteq 1 .. m
  BY DEF Feed!Of
<1> QED BY <1>1, <1>2, <1>3 DEF Feed!Messages, Feed!Channels

(* ... and the new one is added to the set it belongs to.                  *)
LEMMA NewRecord ==
  ASSUME log \in Seq(Record), NEW x, log' = Append(log, x), NEW r, NEW n, n = Len(log)
  PROVE  /\ Feed!Of(r, n + 1)' = IF x.run = r THEN Feed!Of(r, n) \cup {n + 1} ELSE Feed!Of(r, n)
         /\ Feed!Channels(r, n + 1)' =
              IF x.run = r /\ x.op = "channel" THEN Feed!Channels(r, n) \cup {n + 1} ELSE Feed!Channels(r, n)
<1>1. n \in Nat /\ log'[n + 1] = x /\ \A i \in 1 .. n : log'[i] = log[i]
  OBVIOUS
<1>2. \A i : i \in 1 .. (n + 1) <=> i \in 1 .. n \/ i = n + 1
  BY <1>1
<1>3. \A i \in 1 .. n : i # n + 1
  BY <1>1
<1>4. Feed!Of(r, n + 1)' = IF x.run = r THEN Feed!Of(r, n) \cup {n + 1} ELSE Feed!Of(r, n)
  BY <1>1, <1>2, <1>3 DEF Feed!Of
<1>5. Feed!Of(r, n) \subseteq 1 .. n
  BY DEF Feed!Of
<1>6. Feed!Channels(r, n + 1)' =
        IF x.run = r /\ x.op = "channel" THEN Feed!Channels(r, n) \cup {n + 1} ELSE Feed!Channels(r, n)
  BY <1>1, <1>3, <1>4, <1>5 DEF Feed!Channels
<1> QED BY <1>4, <1>6

(* What the sink has cached is what the log says a connection begins with. *)
Cached ==
  /\ \A i \in 1 .. Len(log) : log[i].run <= run
  /\ sink = "up" =>
       LET n == Len(log) IN
       /\ run # 0
       /\ prefix = InOrder(Feed!Channels(run, n), n)
       /\ meta = InOrder(Feed!Meta(run, n), n)
       /\ meta \o episode = InOrder(Feed!Meta(run, n) \cup Feed!Episode(run, n), n)
       /\ meta \o episode \o routes
            = InOrder(Feed!Meta(run, n) \cup Feed!Episode(run, n) \cup Feed!Routes(run, n), n)

LEMMA SetsTyped ==
  ASSUME NEW r, NEW n
  PROVE  /\ Feed!Of(r, n) \subseteq 1 .. n /\ Feed!Channels(r, n) \subseteq 1 .. n
         /\ \A topic : Feed!Messages(r, n, topic) \subseteq 1 .. n
         /\ Feed!Meta(r, n) \subseteq 1 .. n /\ Feed!Episode(r, n) \subseteq 1 .. n
         /\ Feed!Routes(r, n) \subseteq 1 .. n
  BY DEF Feed!Of, Feed!Channels, Feed!Messages, Feed!Meta, Feed!Episode, Feed!Routes, Feed!Latest, Feed!After

(* What the start of run r is made of when x is written as its record.     *)
StartSets(r, n, x) ==
  /\ Feed!Channels(r, n + 1)' =
       IF x.op = "channel" THEN Feed!Channels(r, n) \cup {n + 1} ELSE Feed!Channels(r, n)
  /\ x.op = "message" /\ x.topic = "/meta" =>
       /\ Feed!Meta(r, n + 1)' = {n + 1}
       /\ Feed!Episode(r, n + 1)' = {} /\ Feed!Routes(r, n + 1)' = {}
  /\ x.op = "message" /\ x.topic = "/episode" =>
       /\ Feed!Meta(r, n + 1)' = Feed!Meta(r, n)
       /\ Feed!Episode(r, n + 1)' = {n + 1} /\ Feed!Routes(r, n + 1)' = {}
  /\ x.op = "message" /\ x.topic = "/route" =>
       /\ Feed!Meta(r, n + 1)' = Feed!Meta(r, n)
       /\ Feed!Episode(r, n + 1)' = Feed!Episode(r, n)
       /\ Feed!Routes(r, n + 1)' = Feed!Routes(r, n) \cup {n + 1}
  /\ (x.op = "channel" \/ x.topic = "/state") =>
       /\ Feed!Meta(r, n + 1)' = Feed!Meta(r, n)
       /\ Feed!Episode(r, n + 1)' = Feed!Episode(r, n)
       /\ Feed!Routes(r, n + 1)' = Feed!Routes(r, n)

LEMMA StartSetsNext ==
  ASSUME log \in Seq(Record), NEW x, log' = Append(log, x), NEW r, x.run = r, NEW n, n = Len(log)
  PROVE  StartSets(r, n, x)
<1> USE DEF StartSets
<1>1. n \in Nat
  BY DEF Record
<1> DEFINE M == Feed!Messages(r, n, "/meta")
           E == Feed!Messages(r, n, "/episode")
           R == Feed!Messages(r, n, "/route")
           M2 == Feed!Messages(r, n + 1, "/meta")'
           E2 == Feed!Messages(r, n + 1, "/episode")'
           R2 == Feed!Messages(r, n + 1, "/route")'
<1>2. M \in SUBSET (1 .. n) /\ E \in SUBSET (1 .. n) /\ R \in SUBSET (1 .. n)
  BY SetsTyped
<1>3. /\ M2 = IF x.op = "message" /\ x.topic = "/meta" THEN M \cup {n + 1} ELSE M
      /\ E2 = IF x.op = "message" /\ x.topic = "/episode" THEN E \cup {n + 1} ELSE E
      /\ R2 = IF x.op = "message" /\ x.topic = "/route" THEN R \cup {n + 1} ELSE R
  <2>1. Feed!Of(r, n + 1)' = Feed!Of(r, n) \cup {n + 1} /\ Feed!Of(r, n) \subseteq 1 .. n
    BY NewRecord, SetsTyped
  <2>2. log'[n + 1] = x /\ \A i \in 1 .. n : log'[i] = log[i] /\ i # n + 1
    BY <1>1
  <2>3. M2 = IF x.op = "message" /\ x.topic = "/meta" THEN M \cup {n + 1} ELSE M
    BY <2>1, <2>2 DEF Feed!Messages
  <2>4. E2 = IF x.op = "message" /\ x.topic = "/episode" THEN E \cup {n + 1} ELSE E
    BY <2>1, <2>2 DEF Feed!Messages
  <2>5. R2 = IF x.op = "message" /\ x.topic = "/route" THEN R \cup {n + 1} ELSE R
    BY <2>1, <2>2 DEF Feed!Messages
  <2> QED BY <2>3, <2>4, <2>5
<1>4. /\ Feed!Meta(r, n) = Feed!Latest(M) /\ Feed!Meta(r, n + 1)' = Feed!Latest(M2)
      /\ Feed!Episode(r, n) = Feed!Latest(Feed!After(E, Feed!Latest(M)))
      /\ Feed!Episode(r, n + 1)' = Feed!Latest(Feed!After(E2, Feed!Latest(M2)))
      /\ Feed!Routes(r, n) = Feed!After(R, M \cup E)
      /\ Feed!Routes(r, n + 1)' = Feed!After(R2, M2 \cup E2)
  BY DEF Feed!Meta, Feed!Episode, Feed!Routes
<1>5. Feed!Channels(r, n + 1)' =
        IF x.op = "channel" THEN Feed!Channels(r, n) \cup {n + 1} ELSE Feed!Channels(r, n)
  BY NewRecord
<1> HIDE DEF M, E, R, M2, E2, R2
<1>6. Feed!Latest({}) = {} /\ Feed!Latest(M) \in SUBSET (1 .. n) /\ Feed!After(E, Feed!Latest(M)) \in SUBSET (1 .. n)
      /\ M \cup E \in SUBSET (1 .. n) /\ {} \in SUBSET (1 .. n)
  BY <1>2 DEF Feed!Latest, Feed!After
<1>7. CASE x.op = "message" /\ x.topic = "/meta"
  <2>1. M2 = M \cup {n + 1} /\ E2 = E /\ R2 = R
    BY <1>3, <1>7
  <2>2. Feed!Latest(M2) = {n + 1}
    BY <1>1, <1>2, <2>1, LatestNext
  <2>3. Feed!After(E, {n + 1}) = {} /\ Feed!After(R, (M \cup E) \cup {n + 1}) = {}
    <3>1. n + 1 \in {n + 1} /\ n + 1 \in (M \cup E) \cup {n + 1}
      OBVIOUS
    <3>2. Feed!After(E, {n + 1}) = {}
      BY <1>1, <1>2, <3>1, AfterNewest
    <3>3. Feed!After(R, (M \cup E) \cup {n + 1}) = {}
      BY <1>1, <1>2, <3>1, AfterNewest
    <3> QED BY <3>2, <3>3
  <2>4. M2 \cup E2 = (M \cup E) \cup {n + 1}
    BY <2>1
  <2> QED BY <1>4, <1>5, <1>6, <1>7, <2>1, <2>2, <2>3, <2>4
<1>8. CASE x.op = "message" /\ x.topic = "/episode"
  <2>1. M2 = M /\ E2 = E \cup {n + 1} /\ R2 = R
    BY <1>3, <1>8
  <2>2. Feed!After(E2, Feed!Latest(M)) = Feed!After(E, Feed!Latest(M)) \cup {n + 1}
    BY <1>1, <1>2, <1>6, <2>1, AfterNext
  <2>3. Feed!Latest(Feed!After(E, Feed!Latest(M)) \cup {n + 1}) = {n + 1}
    BY <1>1, <1>6, LatestNext
  <2>4. Feed!After(R, (M \cup E) \cup {n + 1}) = {}
    <3>1. n + 1 \in (M \cup E) \cup {n + 1}
      OBVIOUS
    <3> QED BY <1>1, <1>2, <3>1, AfterNewest
  <2>5. M2 \cup E2 = (M \cup E) \cup {n + 1}
    BY <2>1
  <2> QED BY <1>4, <1>5, <1>8, <2>1, <2>2, <2>3, <2>4, <2>5
<1>9. CASE x.op = "message" /\ x.topic = "/route"
  <2>1. M2 = M /\ E2 = E /\ R2 = R \cup {n + 1}
    BY <1>3, <1>9
  <2>2. Feed!After(R2, M \cup E) = Feed!After(R, M \cup E) \cup {n + 1}
    BY <1>1, <1>2, <1>6, <2>1, AfterNext
  <2> QED BY <1>4, <1>5, <1>9, <2>1, <2>2
<1>10. CASE ~(x.op = "message" /\ x.topic \in {"/meta", "/episode", "/route"})
  <2>1. M2 = M /\ E2 = E /\ R2 = R
    BY <1>3, <1>10
  <2> QED BY <1>4, <1>5, <1>10, <2>1
<1> QED BY <1>7, <1>8, <1>9, <1>10

(* What is cached of a run q, given the sets of its start.                 *)
LEMMA CachedStep ==
  ASSUME SInv, Cached, SimWrites
  PROVE  Cached'
<1>1. PICK r, k :
        /\ Write(r, k)
        /\ \/ r.op = "channel" /\ prefix' = Append(prefix, k) /\ UNCHANGED <<meta, episode, routes>>
           \/ r = Message("/meta") /\ meta' = <<k>> /\ episode' = <<>> /\ routes' = <<>> /\ UNCHANGED prefix
           \/ r = Message("/episode") /\ episode' = <<k>> /\ routes' = <<>> /\ UNCHANGED <<prefix, meta>>
           \/ r = Message("/route") /\ routes' = Append(routes, k) /\ UNCHANGED <<prefix, meta, episode>>
           \/ r = Message("/state") /\ UNCHANGED <<prefix, meta, episode, routes>>
  BY DEF SimWrites, AddChannel, WriteMeta, WriteEpisode, WriteRoute, WriteOther
<1>2. PICK q, n, x : q = run /\ n = Len(log) /\ x = Says(r)
  OBVIOUS
<1>3. /\ log \in Seq(Record) /\ log' = Append(log, x) /\ n \in Nat /\ k = n + 1 /\ Len(log') = n + 1
      /\ run' = q /\ run \in Nat /\ sink' = sink
      /\ x.run = q /\ x.op = r.op /\ x.topic = r.topic
  BY <1>1, <1>2 DEF Write, Writes, Says, SInv, StreamTyped, RecorderTyped
<1>4. \A i \in 1 .. Len(log') : log'[i].run <= run'
  <2> SUFFICES ASSUME NEW i \in 1 .. (n + 1) PROVE log'[i].run <= q
    BY <1>3
  <2>1. CASE i = n + 1
    BY <1>2, <1>3, <2>1
  <2>2. CASE i \in 1 .. n
    <3>1. log'[i] = log[i] /\ log[i].run <= run
      BY <1>2, <1>3, <2>2 DEF Cached
    <3> QED BY <1>2, <3>1
  <2> QED BY <1>3, <2>1, <2>2
<1>5. ASSUME sink = "up"
      PROVE  /\ prefix' = InOrder(Feed!Channels(q, n + 1)', n + 1)
             /\ meta' = InOrder(Feed!Meta(q, n + 1)', n + 1)
             /\ meta' \o episode' = InOrder(Feed!Meta(q, n + 1)' \cup Feed!Episode(q, n + 1)', n + 1)
             /\ meta' \o episode' \o routes' = 
                  InOrder(Feed!Meta(q, n + 1)' \cup Feed!Episode(q, n + 1)' \cup Feed!Routes(q, n + 1)', n + 1)
  <2> DEFINE C == Feed!Channels(q, n)
             M == Feed!Meta(q, n)
             E == Feed!Episode(q, n)
             R == Feed!Routes(q, n)
             C2 == Feed!Channels(q, n + 1)'
             M2 == Feed!Meta(q, n + 1)'
             E2 == Feed!Episode(q, n + 1)'
             R2 == Feed!Routes(q, n + 1)'
  <2>1. C \in SUBSET (1 .. n) /\ M \in SUBSET (1 .. n) /\ M \cup E \in SUBSET (1 .. n)
        /\ M \cup E \cup R \in SUBSET (1 .. n)
    BY SetsTyped
  <2>2. prefix = InOrder(C, n) /\ meta = InOrder(M, n) /\ meta \o episode = InOrder(M \cup E, n)
        /\ meta \o episode \o routes = InOrder(M \cup E \cup R, n)
    BY <1>2, <1>5 DEF Cached
  <2>3. prefix \in Seq(Nat) /\ meta \in Seq(Nat) /\ episode \in Seq(Nat) /\ routes \in Seq(Nat)
    BY DEF SInv, StreamTyped, SharedTyped
  <2>4. /\ C2 = IF x.op = "channel" THEN C \cup {n + 1} ELSE C
        /\ x.op = "message" /\ x.topic = "/meta" => M2 = {n + 1} /\ E2 = {} /\ R2 = {}
        /\ x.op = "message" /\ x.topic = "/episode" => M2 = M /\ E2 = {n + 1} /\ R2 = {}
        /\ x.op = "message" /\ x.topic = "/route" => M2 = M /\ E2 = E /\ R2 = R \cup {n + 1}
        /\ (x.op = "channel" \/ x.topic = "/state") => M2 = M /\ E2 = E /\ R2 = R
    <3>1. log \in Seq(Record) /\ log' = Append(log, x) /\ x.run = q /\ n = Len(log)
      BY <1>2, <1>3
    <3>2. StartSets(q, n, x)
      BY <3>1, StartSetsNext
    <3> QED BY <3>2 DEF StartSets
  <2> HIDE DEF C, M, E, R, C2, M2, E2, R2
  <2>9. /\ InOrder(C, n + 1) = prefix /\ InOrder(C \cup {n + 1}, n + 1) = Append(prefix, n + 1)
        /\ InOrder(M, n + 1) = meta /\ InOrder(M \cup {n + 1}, n + 1) = Append(meta, n + 1)
        /\ InOrder(M \cup E, n + 1) = meta \o episode
        /\ InOrder(M \cup E \cup R, n + 1) = meta \o episode \o routes
        /\ InOrder((M \cup E \cup R) \cup {n + 1}, n + 1) = Append(meta \o episode \o routes, n + 1)
        /\ InOrder({n + 1}, n + 1) = <<n + 1>>
    BY <1>3, <2>1, <2>2, OrderedNext
  <2>10. Append(meta, n + 1) = meta \o <<n + 1>>
         /\ Append(meta \o episode \o routes, n + 1) = meta \o episode \o Append(routes, n + 1)
    <3>1. /\ Append(routes, n + 1) = routes \o <<n + 1>>
          /\ \A s \in Seq(Nat) : Append(s, n + 1) = s \o <<n + 1>>
      BY <1>3, <2>3
    <3>2. meta \o episode \in Seq(Nat) /\ meta \o episode \o routes \in Seq(Nat) /\ <<n + 1>> \in Seq(Nat)
      BY <1>3, <2>3
    <3>3. (meta \o episode) \o (routes \o <<n + 1>>) = ((meta \o episode) \o routes) \o <<n + 1>>
      BY <2>3, <3>2, CatAssociative
    <3> QED BY <2>3, <3>1, <3>2, <3>3
  <2>11. \A s \in Seq(Nat) : s \o <<>> = s
    OBVIOUS
  <2>12. meta \o <<n + 1>> \in Seq(Nat) /\ <<n + 1>> \in Seq(Nat)
    BY <1>3, <2>3
  <2>13. /\ prefix' = InOrder(C2, n + 1) /\ meta' = InOrder(M2, n + 1)
         /\ meta' \o episode' = InOrder(M2 \cup E2, n + 1)
         /\ meta' \o episode' \o routes' = InOrder(M2 \cup E2 \cup R2, n + 1)
    <3>1. CASE r.op = "channel" /\ prefix' = Append(prefix, k) /\ UNCHANGED <<meta, episode, routes>>
      BY <1>3, <2>4, <2>9, <3>1
    <3>2. CASE r = Message("/meta") /\ meta' = <<k>> /\ episode' = <<>> /\ routes' = <<>> /\ UNCHANGED prefix
      <4>1. r.op = "message" /\ r.topic = "/meta"
        BY <3>2 DEF Message
      <4>2. M2 = {n + 1} /\ M2 \cup E2 = {n + 1} /\ M2 \cup E2 \cup R2 = {n + 1} /\ C2 = C
        BY <1>3, <2>4, <4>1
      <4> QED BY <1>3, <2>9, <2>11, <2>12, <3>2, <4>2
    <3>3. CASE r = Message("/episode") /\ episode' = <<k>> /\ routes' = <<>> /\ UNCHANGED <<prefix, meta>>
      <4>1. r.op = "message" /\ r.topic = "/episode"
        BY <3>3 DEF Message
      <4>2. M2 = M /\ M2 \cup E2 = M \cup {n + 1} /\ M2 \cup E2 \cup R2 = M \cup {n + 1} /\ C2 = C
        BY <1>3, <2>4, <4>1
      <4> QED BY <1>3, <2>9, <2>10, <2>11, <2>12, <3>3, <4>2
    <3>4. CASE r = Message("/route") /\ routes' = Append(routes, k) /\ UNCHANGED <<prefix, meta, episode>>
      <4>1. r.op = "message" /\ r.topic = "/route"
        BY <3>4 DEF Message
      <4>2. M2 = M /\ M2 \cup E2 = M \cup E /\ M2 \cup E2 \cup R2 = (M \cup E \cup R) \cup {n + 1} /\ C2 = C
        BY <1>3, <2>4, <4>1
      <4> QED BY <1>3, <2>9, <2>10, <3>4, <4>2
    <3>5. CASE r = Message("/state") /\ UNCHANGED <<prefix, meta, episode, routes>>
      <4>1. r.op = "message" /\ r.topic = "/state"
        BY <3>5 DEF Message
      <4>2. M2 = M /\ E2 = E /\ R2 = R /\ C2 = C
        BY <1>3, <2>4, <4>1
      <4> QED BY <2>9, <3>5, <4>2
    <3> QED BY <1>1, <3>1, <3>2, <3>3, <3>4, <3>5
  <2> QED BY <2>13 DEF C2, M2, E2, R2
<1> QED BY <1>2, <1>3, <1>4, <1>5 DEF Cached

LEMMA CachedSame ==
  ASSUME Cached, log' = log, run' = run, sink' = "up" => sink = "up" /\ UNCHANGED <<prefix, meta, episode, routes>>
  PROVE  Cached'
<1>1. PICK q, n : q = run /\ n = Len(log)
  OBVIOUS
<1>2. Feed!Of(q, n)' = Feed!Of(q, n)
  BY DEF Feed!Of
<1>3. Feed!Channels(q, n)' = Feed!Channels(q, n)
  BY <1>2 DEF Feed!Channels
<1>4. Feed!Messages(q, n, "/meta")' = Feed!Messages(q, n, "/meta")
      /\ Feed!Messages(q, n, "/episode")' = Feed!Messages(q, n, "/episode")
      /\ Feed!Messages(q, n, "/route")' = Feed!Messages(q, n, "/route")
  BY <1>2 DEF Feed!Messages
<1>5. /\ Feed!Meta(q, n)' = Feed!Meta(q, n) /\ Feed!Episode(q, n)' = Feed!Episode(q, n)
      /\ Feed!Routes(q, n)' = Feed!Routes(q, n)
  BY <1>4 DEF Feed!Meta, Feed!Episode, Feed!Routes
<1> QED BY <1>1, <1>3, <1>5 DEF Cached

LEMMA CachedBind == ASSUME SInv, Cached, Bind PROVE Cached'
<1>1. PICK q, n : q = run' /\ n = Len(log)
  OBVIOUS
<1>2. /\ run \in Nat /\ n \in Nat /\ q = run + 1 /\ log' = log
      /\ prefix' = <<>> /\ meta' = <<>> /\ episode' = <<>> /\ routes' = <<>>
  BY <1>1 DEF SInv, StreamTyped, RecorderTyped, Bind, Attach, Cleared
<1>3. \A i \in 1 .. n : log[i].run \in Nat /\ log[i].run <= run
  <2>1. log \in Seq(Record)
    BY DEF SInv, StreamTyped, RecorderTyped
  <2>2. \A i \in 1 .. n : log[i] \in Record /\ log[i].run <= run
    BY <1>1, <2>1 DEF Cached
  <2> QED BY <2>2 DEF Record
<1>4. \A i \in 1 .. n : log[i].run <= q /\ log[i].run # q
  BY <1>2, <1>3
<1>5. Feed!Of(q, n)' = {}
  BY <1>2, <1>4 DEF Feed!Of
<1>6. /\ Feed!Channels(q, n)' = {}
      /\ Feed!Meta(q, n)' = {} /\ Feed!Episode(q, n)' = {} /\ Feed!Routes(q, n)' = {}
  <2>1. Feed!Channels(q, n)' = {} /\ \A topic : Feed!Messages(q, n, topic)' = {}
    BY <1>5 DEF Feed!Channels, Feed!Messages
  <2>2. \A S : Feed!Latest({}) = {} /\ Feed!After({}, S) = {}
    BY DEF Feed!Latest, Feed!After
  <2> QED BY <2>1, <2>2 DEF Feed!Meta, Feed!Episode, Feed!Routes
<1>7. InOrder({}, n) = <<>>
  BY <1>2, InOrderEmpty
<1>8. /\ InOrder(Feed!Channels(q, n)', n) = <<>>
      /\ InOrder(Feed!Meta(q, n)', n) = <<>>
      /\ InOrder(Feed!Meta(q, n)' \cup Feed!Episode(q, n)', n) = <<>>
      /\ InOrder(Feed!Meta(q, n)' \cup Feed!Episode(q, n)' \cup Feed!Routes(q, n)', n) = <<>>
  BY <1>6, <1>7
<1>9. <<>> \o <<>> = <<>>
  OBVIOUS
<1> QED BY <1>1, <1>2, <1>4, <1>8, <1>9 DEF Cached

(* What else is true of a connection.                                      *)
ConnsOK ==
  \A c \in Conns :
    /\ since[c] # Absent => since[c].at <= Len(log) /\ since[c].run # 0 /\ since[c].run <= run
    /\ c \in clients => since[c] # Absent /\ since[c].run = run
    /\ link[c] = "up" => since[c] # Absent
    /\ since[c] = Absent => got[c] = <<>> /\ wire[c] = <<>>
    /\ link[c] \in {"none", "pending", "taken"} => since[c] = Absent /\ buf[c] = <<>>
    /\ writer[c] = "recv" => buf[c] = <<>>

CInv == SInv /\ Cached /\ ConnsOK

LEMMA CInvInit == Init => CInv
<1> SUFFICES ASSUME Init PROVE CInv
  OBVIOUS
<1>1. SInv
  BY StreamInitOK
<1>2. Cached /\ ConnsOK
  BY DEF Init, InitRecorder, Cached, ConnsOK
<1> QED BY <1>1, <1>2 DEF CInv

LEMMA CachedNext == ASSUME SInv, Cached, [Next]_vars PROVE Cached'
<1>1. CASE UNCHANGED vars
  BY <1>1, CachedSame DEF vars, simVars, sinkVars
<1>2. CASE SimStep
  <2>1. CASE Close
    BY <2>1, CachedSame DEF Close, Finish
  <2>2. CASE \E seed \in Seeds : Reset(seed) /\ UNCHANGED <<sinkVars, connVars>>
    BY <2>2, CachedSame DEF Reset, sinkVars
  <2>3. CASE \E replaced, due \in BOOLEAN :
               Tick(replaced, due, clients # {}) /\ UNCHANGED <<sinkVars, connVars>>
    BY <2>3, CachedSame DEF Tick, sinkVars
  <2> QED BY <1>2, <2>1, <2>2, <2>3, CachedStep, CachedBind DEF SimStep
<1>3. CASE Closes
  BY <1>3, ClosesIs, CachedSame DEF Finished
<1>4. ASSUME NEW c \in Conns, Accept(c) \/ AcceptReturns(c) \/ AcceptUnserved(c) \/ WriterStep(c) \/ Connect(c) \/ Receive(c) \/ Break(c)
      PROVE  Cached'
  <2>1. log' = log /\ run' = run /\ sink' = sink /\ UNCHANGED <<prefix, meta, episode, routes>>
    BY <1>4 DEF Accept, AcceptReturns, AcceptUnserved, WriterStep, Recv, RecvEnds, TryRecv, TryRecvEmpty, Push, WriteFails, Flushed,
           Connect, Receive, Break, simVars, sinkVars
  <2> QED BY <2>1, CachedSame
<1>5. CASE \E next \in FreshWorlds, short \in SUBSET Conns : Exit(next, short)
  BY <1>5, CachedSame DEF Exit, ProcessEnds
<1> QED BY <1>1, <1>2, <1>3, <1>4, <1>5 DEF Next, AcceptThread, Closes

(* Record k is written, and sent to the connections.                       *)
Written(k) ==
  /\ k = Len(log) + 1 /\ Len(log') = k
  /\ \E x \in Record : log' = Append(log, x) /\ x.run = run
  /\ run' = run /\ sink' = sink
  /\ clients' \subseteq clients
  /\ queue' = [c \in Conns |-> IF c \in clients' THEN Append(queue[c], <<k>>) ELSE queue[c]]
  /\ UNCHANGED <<buf, writer, link, wire, got, since>>

LEMMA WrittenTo == ASSUME SInv, SimWrites PROVE \E k \in Nat : Written(k)
<1>1. PICK r, k : Writes(r, k) /\ Send(k) /\ UNCHANGED <<buf, writer, link, wire, got, since>>
  BY DEF SimWrites, AddChannel, WriteMeta, WriteEpisode, WriteRoute, WriteOther, Write
<1>2. log \in Seq(Record) /\ log' \in Seq(Record) /\ k \in Nat
  BY <1>1, WritesTyped DEF SInv, StreamTyped, RecorderTyped
<1>3. /\ k = Len(log) + 1 /\ log' = Append(log, Says(r)) /\ run' = run /\ sink' = sink
      /\ Says(r).run = run
  BY <1>1 DEF Writes, Says
<1>4. log'[Len(log) + 1] = Says(r) /\ Len(log') = Len(log) + 1
  BY <1>2, <1>3
<1>5. Says(r) \in Record
  BY <1>2, <1>4
<1> QED BY <1>1, <1>2, <1>3, <1>4, <1>5 DEF Send, Written

LEMMA ConnsOKWrites == ASSUME SInv, ConnsOK, SimWrites PROVE ConnsOK'
<1>1. PICK k \in Nat : Written(k)
  BY WrittenTo
<1>2. \A c \in Conns : since[c].at \in Nat
  BY DEF SInv, StreamTyped, ConnTyped
<1>3. Len(log) \in Nat /\ \A m \in Nat : m <= Len(log) => m <= k
  BY <1>1 DEF SInv, StreamTyped, RecorderTyped, Written
<1> QED BY <1>1, <1>2, <1>3 DEF ConnsOK, Written

LEMMA ConnsOKSame ==
  ASSUME ConnsOK, SInv, Len(log') = Len(log), run' \in Nat, run <= run',
         run' = run \/ clients' = {}, clients' \subseteq clients, UNCHANGED <<buf, writer, link, wire, got, since>>
  PROVE  ConnsOK'
<1>1. run \in Nat /\ \A c \in Conns : since[c].run \in Nat
  BY DEF SInv, StreamTyped, RecorderTyped, ConnTyped
<1>2. \A c \in Conns : since[c].run <= run => since[c].run <= run'
  BY <1>1
<1> QED BY <1>2 DEF ConnsOK

LEMMA ConnsOKConn ==
  ASSUME SInv, Cached, ConnsOK, NEW c \in Conns,
         AcceptReturns(c) \/ AcceptUnserved(c) \/ WriterStep(c) \/ Connect(c) \/ Receive(c) \/ Break(c)
  PROVE  ConnsOK'
<1> USE DEF ConnsOK, simVars, sinkVars
<1>1. buf \in [Conns -> Seq(Nat)] /\ writer \in [Conns -> {"none", "recv", "write", "flush", "done"}]
      /\ link \in [Conns -> {"none", "pending", "taken", "up", "fin", "cut"}]
      /\ wire \in [Conns -> Seq(Nat)] /\ got \in [Conns -> Seq(Nat)]
  BY DEF SInv, StreamTyped, ConnTyped
<1>2. CASE AcceptReturns(c) \/ AcceptUnserved(c)
  BY <1>1, <1>2 DEF AcceptReturns, AcceptUnserved
<1>3. CASE Connect(c)
  BY <1>1, <1>3 DEF Connect
<1>4. CASE Receive(c)
  BY <1>1, <1>4 DEF Receive
<1>5. CASE Break(c)
  BY <1>1, <1>5 DEF Break
<1>6. CASE Recv(c) \/ RecvEnds(c) \/ TryRecv(c) \/ TryRecvEmpty(c)
  BY <1>1, <1>6 DEF Recv, RecvEnds, TryRecv, TryRecvEmpty, SInv, Held
<1>7. CASE Push(c)
  BY <1>1, <1>7 DEF Push
<1>8. CASE WriteFails(c) \/ Flushed(c)
  BY <1>1, <1>8 DEF WriteFails, Flushed
<1> QED BY <1>2, <1>3, <1>4, <1>5, <1>6, <1>7, <1>8 DEF WriterStep

LEMMA ConnsOKAccept ==
  ASSUME SInv, Cached, ConnsOK, NEW c \in Conns, Accept(c)
  PROVE  ConnsOK'
<1>1. Len(log) \in Nat /\ run \in Nat /\ run # 0
  BY DEF SInv, StreamTyped, RecorderTyped, Cached, Accept
<1>2. /\ log' = log /\ run' = run /\ clients' = clients \cup {c} /\ buf' = buf /\ wire' = wire /\ got' = got
      /\ buf[c] = <<>>
  BY DEF Accept, simVars, ConnsOK
<1>3. /\ since'[c] = [run |-> run, at |-> Len(log)] /\ link'[c] = "up" /\ writer'[c] = "recv"
      /\ \A d \in Conns \ {c} : since'[d] = since[d] /\ link'[d] = link[d] /\ writer'[d] = writer[d]
  BY DEF Accept, SInv, StreamTyped, ConnTyped
<1>4. since'[c] # Absent /\ since'[c].run = run /\ since'[c].at = Len(log)
  BY <1>1, <1>3 DEF Absent
<1> QED BY <1>1, <1>2, <1>3, <1>4 DEF ConnsOK

LEMMA ConnsOKNext == ASSUME SInv, Cached, ConnsOK, [Next]_vars PROVE ConnsOK'
<1>1. CASE UNCHANGED vars
  <2>1. Len(log') = Len(log) /\ run' \in Nat /\ run <= run' /\ run' = run /\ clients' \subseteq clients /\ UNCHANGED <<buf, writer, link, wire, got, since>>
    BY <1>1 DEF vars, simVars, sinkVars, connVars, SInv, StreamTyped, RecorderTyped
  <2> QED BY <2>1, ConnsOKSame
<1>2. CASE SimStep
  <2>1. CASE Close
    <3>1. Len(log') = Len(log) /\ run' \in Nat /\ run <= run' /\ clients' = {} /\ UNCHANGED <<buf, writer, link, wire, got, since>>
      BY <2>1 DEF Close, Finish, connVars, SInv, StreamTyped, RecorderTyped
    <3> QED BY <3>1, ConnsOKSame
  <2>2. CASE Bind
    <3>1. Len(log') = Len(log) /\ run' \in Nat /\ run <= run' /\ clients' = {} /\ UNCHANGED <<buf, writer, link, wire, got, since>>
      BY <2>2 DEF Bind, Attach, Cleared, connVars, SInv, StreamTyped, RecorderTyped
    <3> QED BY <3>1, ConnsOKSame
  <2>3. CASE \E seed \in Seeds : Reset(seed) /\ UNCHANGED <<sinkVars, connVars>>
    <3>1. Len(log') = Len(log) /\ run' \in Nat /\ run <= run' /\ run' = run /\ clients' \subseteq clients /\ UNCHANGED <<buf, writer, link, wire, got, since>>
      BY <2>3 DEF Reset, sinkVars, connVars, SInv, StreamTyped, RecorderTyped
    <3> QED BY <3>1, ConnsOKSame
  <2>4. CASE \E replaced, due \in BOOLEAN :
               Tick(replaced, due, clients # {}) /\ UNCHANGED <<sinkVars, connVars>>
    <3>1. Len(log') = Len(log) /\ run' \in Nat /\ run <= run' /\ run' = run /\ clients' \subseteq clients /\ UNCHANGED <<buf, writer, link, wire, got, since>>
      BY <2>4 DEF Tick, sinkVars, connVars, SInv, StreamTyped, RecorderTyped
    <3> QED BY <3>1, ConnsOKSame
  <2> QED BY <1>2, <2>1, <2>2, <2>3, <2>4, ConnsOKWrites DEF SimStep
<1>3. CASE Closes
  <2>1. log' = log /\ run' = run /\ UNCHANGED <<clients, buf, writer, wire, got, since>>
    BY <1>3, ClosesIs
  <2>2. \A c \in Conns : link'[c] = link[c] \/ (link'[c] = "cut" /\ link[c] \in {"pending", "taken"})
    BY <1>3, ClosesIs
  <2> QED BY <2>1, <2>2 DEF ConnsOK
<1>4. CASE \E next \in FreshWorlds, short \in SUBSET Conns : Exit(next, short)
  <2>1. /\ log' = log /\ run' = run /\ clients' = {}
        /\ UNCHANGED <<wire, got, since>>
        /\ \A c \in Conns : /\ buf'[c] = <<>> /\ writer'[c] # "recv" /\ link'[c] \notin {"up", "pending", "taken"}
                            /\ link'[c] = "none" => link[c] = "none"
    BY <1>4 DEF Exit, ProcessEnds, Cleared
  <2> QED BY <2>1 DEF ConnsOK
<1> QED BY <1>1, <1>2, <1>3, <1>4, ConnsOKConn, ConnsOKAccept DEF Next, AcceptThread, Closes

LEMMA CInvNext == CInv /\ [Next]_vars => CInv'
  BY StreamStepOK, CachedNext, ConnsOKNext DEF CInv
-----------------------------------------------------------------------------
(* What a connection is promised                                           *)

LEMMA FeedInOrder == ASSUME NEW S, NEW n PROVE Feed!InOrder(S, n) = InOrder(S, n)
  BY DEF Feed!InOrder, InOrder

LEMMA SetsAre ==
  ASSUME NEW r, NEW n
  PROVE  /\ Feed!Of(r, n) = OfRun(log, r, n) /\ Feed!Channels(r, n) = ChannelsOf(log, r, n)
         /\ Feed!Meta(r, n) \cup Feed!Episode(r, n) \cup Feed!Routes(r, n) = CachedOf(log, r, n)
<1>1. Feed!Of(r, n) = OfRun(log, r, n)
  BY DEF Feed!Of, OfRun
<1>2. \A topic : Feed!Messages(r, n, topic) = OnTopic(log, r, n, topic)
  BY <1>1 DEF Feed!Messages, OnTopic, IsOn
<1>3. Feed!Channels(r, n) = ChannelsOf(log, r, n)
  BY <1>1 DEF Feed!Channels, ChannelsOf
<1>4. \A S, T : Feed!Latest(S) = Newest(S) /\ Feed!After(S, T) = Later(S, T)
  BY DEF Feed!Latest, Newest, Feed!After, Later
<1>5. Feed!Meta(r, n) \cup Feed!Episode(r, n) \cup Feed!Routes(r, n) = CachedOf(log, r, n)
  BY <1>2, <1>4 DEF Feed!Meta, Feed!Episode, Feed!Routes, CachedOf
<1> QED BY <1>1, <1>3, <1>5

(* The abstract broadcast's promise is the one the lemmas are about.       *)
LEMMA PromiseIs == ASSUME NEW c PROVE Feed!Promise(c) = Promised(log, since[c].run, since[c].at)
<1>1. PICK r, m, n : since[c].run = r /\ since[c].at = m /\ Len(log) = n
  OBVIOUS
<1>2. Feed!Promise(c) = Feed!Start(r, m) \o Feed!Ordered(Feed!Of(r, n) \ (1 .. m))
  BY <1>1 DEF Feed!Promise
<1>3. \A S : Feed!Ordered(S) = InOrder(S, n)
  BY <1>1, FeedInOrder DEF Feed!Ordered
<1>4. Feed!Start(r, m) = <<0>> \o InOrder(ChannelsOf(log, r, m), n) \o InOrder(CachedOf(log, r, m), n)
  BY <1>3, SetsAre DEF Feed!Start, Feed!Header
<1>5. Feed!Ordered(Feed!Of(r, n) \ (1 .. m)) = InOrder(LiveOf(log, r, m), n)
  BY <1>1, <1>3, SetsAre DEF LiveOf
<1> QED BY <1>1, <1>2, <1>4, <1>5 DEF Promised, Listed, Magic

LEMMA PromiseIsNext ==
  ASSUME NEW c, since'[c] = since[c] PROVE Feed!Promise(c)' = Promised(log', since[c].run, since[c].at)
<1>1. (Feed!Promise(c) = Promised(log, since[c].run, since[c].at))'
  BY PromiseIs, PTL
<1> QED BY <1>1

LEMMA PromiseSame ==
  ASSUME log' = log, NEW c, since'[c] = since[c]
  PROVE  Feed!Promise(c)' = Feed!Promise(c)
<1>1. Feed!Promise(c)' = Promised(log', since[c].run, since[c].at)
  BY PromiseIsNext
<1> QED BY <1>1, PromiseIs

(* A record of its run is added at the end of what a connection is         *)
(* promised; another changes nothing.                                      *)
LEMMA PromiseNext ==
  ASSUME log \in Seq(Record), NEW x, log' = Append(log, x), NEW c, since'[c] = since[c],
         since[c].at \in 0 .. Len(log)
  PROVE  Feed!Promise(c)' = IF since[c].run = x.run THEN Append(Feed!Promise(c), Len(log) + 1) ELSE Feed!Promise(c)
<1>1. PICK r, m, n : since[c].run = r /\ since[c].at = m /\ Len(log) = n
  OBVIOUS
<1>2. Feed!Promise(c)' = Promised(Append(log, x), r, m)
  BY <1>1, PromiseIsNext
<1>3. Feed!Promise(c) = Promised(log, r, m)
  BY <1>1, PromiseIs
<1>4. Promised(Append(log, x), r, m) = IF x.run = r THEN Append(Promised(log, r, m), n + 1) ELSE Promised(log, r, m)
  BY <1>1, PromisedGrows
<1> QED BY <1>1, <1>2, <1>3, <1>4

LEMMA PromiseTyped ==
  ASSUME SInv, NEW c
  PROVE  Feed!Promise(c) \in Seq(Nat)
<1>1. Len(log) \in Nat
  BY DEF SInv, StreamTyped, RecorderTyped
<1> QED BY <1>1, PromiseIs, ListedTyped DEF Promised

-----------------------------------------------------------------------------
(* What a connection carries                                               *)

LEMMA GivenTyped == ASSUME SInv, NEW c \in Conns PROVE Given(c) \in Seq(Nat)
<1>1. /\ queue[c] \in Seq(Seq(Nat)) /\ buf[c] \in Seq(Nat)
      /\ wire[c] \in Seq(Nat) /\ got[c] \in Seq(Nat)
  BY DEF SInv, StreamTyped, ConnTyped
<1>2. FlattenSeq(queue[c]) \in Seq(Nat)
  BY <1>1, FlattenTyped
<1> HIDE DEF FlattenSeq
<1>3. buf[c] \o FlattenSeq(queue[c]) \in Seq(Nat) /\ <<>> \in Seq(Nat)
  BY <1>1, <1>2
<1>4. (IF link[c] = "up" THEN buf[c] \o FlattenSeq(queue[c]) ELSE <<>>) \in Seq(Nat)
  BY <1>3
<1> DEFINE rest == IF link[c] = "up" THEN buf[c] \o FlattenSeq(queue[c]) ELSE <<>>
<1>5. rest \in Seq(Nat)
  BY <1>4
<1> HIDE DEF rest
<1>6. got[c] \o wire[c] \o rest \in Seq(Nat)
  BY <1>1, <1>5
<1> QED BY <1>6 DEF Given, rest

(* What Unbroken says of connection c.                                     *)
Whole(c) == since[c] # Absent =>
  /\ IsPrefix(Given(c), Feed!Promise(c))
  /\ c \in clients /\ link[c] = "up" => Given(c) = Feed!Promise(c)

LEMMA WholeSame ==
  ASSUME SInv, NEW c, Whole(c), log' = log, since'[c] = since[c], Given(c)' = Given(c),
         c \in clients' /\ link'[c] = "up" => c \in clients /\ link[c] = "up"
  PROVE  Whole(c)'
<1>1. Feed!Promise(c)' = Feed!Promise(c)
  BY PromiseSame
<1> QED BY <1>1 DEF Whole

(* ... when the end of it is lost.                                         *)
LEMMA WholeLess ==
  ASSUME SInv, SInv', NEW c \in Conns, Whole(c), log' = log, since'[c] = since[c],
         IsPrefix(Given(c)', Given(c)), ~(c \in clients' /\ link'[c] = "up")
  PROVE  Whole(c)'
<1>1. Feed!Promise(c)' = Feed!Promise(c)
  BY PromiseSame
<1>2. Given(c) \in Seq(Nat) /\ Given(c)' \in Seq(Nat) /\ Feed!Promise(c) \in Seq(Nat)
  <2>1. (SInv => Given(c) \in Seq(Nat))'
    BY GivenTyped, PTL
  <2> QED BY <2>1, GivenTyped, PromiseTyped
<1>3. since[c] # Absent => IsPrefix(Given(c)', Feed!Promise(c))
  BY <1>2, PrefixTransitive DEF Whole
<1> QED BY <1>1, <1>3 DEF Whole

LEMMA WholeWrites ==
  ASSUME CInv, NEW c \in Conns, Whole(c), SimWrites
  PROVE  Whole(c)'
<1>1. PICK k \in Nat : Written(k)
  BY WrittenTo DEF CInv
<1>2. PICK x \in Record : log' = Append(log, x) /\ x.run = run
  BY <1>1 DEF Written
<1>3. SUFFICES ASSUME since[c] # Absent
               PROVE  /\ IsPrefix(Given(c)', Feed!Promise(c)')
                      /\ c \in clients' /\ link'[c] = "up" => Given(c)' = Feed!Promise(c)'
  BY <1>1 DEF Whole, Written
<1>4. Feed!Promise(c)' = IF since[c].run = run THEN Append(Feed!Promise(c), k) ELSE Feed!Promise(c)
  <2>1. log \in Seq(Record) /\ since[c].at \in 0 .. Len(log) /\ since'[c] = since[c] /\ k = Len(log) + 1
    BY <1>1, <1>3 DEF CInv, SInv, StreamTyped, RecorderTyped, ConnTyped, ConnsOK, Written
  <2> QED BY <1>2, <2>1, PromiseNext
<1>5. Given(c) \in Seq(Nat) /\ Feed!Promise(c) \in Seq(Nat)
  BY GivenTyped, PromiseTyped DEF CInv
<1>6. CASE c \in clients' /\ link'[c] = "up"
  <2>1. c \in clients /\ link[c] = "up" /\ since[c].run = run /\ Given(c) = Feed!Promise(c)
    BY <1>1, <1>3, <1>6 DEF Written, CInv, ConnsOK, Whole
  <2>2. /\ queue[c] \in Seq(Seq(Nat)) /\ buf[c] \in Seq(Nat)
        /\ wire[c] \in Seq(Nat) /\ got[c] \in Seq(Nat)
    BY DEF CInv, SInv, StreamTyped, ConnTyped
  <2>3. queue'[c] = Append(queue[c], <<k>>) /\ buf' = buf /\ wire' = wire /\ got' = got /\ <<k>> \in Seq(Nat)
    BY <1>1, <1>6 DEF Written
  <2>4. FlattenSeq(queue'[c]) = FlattenSeq(queue[c]) \o <<k>>
    <3>1. queue[c] = <<>> => FlattenSeq(queue[c]) = <<>>
      BY FlattenNone
    <3>2. <<>> \o <<k>> = <<k>>
      OBVIOUS
    <3> QED BY <2>2, <2>3, <3>1, <3>2, FlattenAppend
  <2> DEFINE f == FlattenSeq(queue[c])
             g == got[c] \o wire[c]
             b == buf[c]
  <2>5. f \in Seq(Nat) /\ g \in Seq(Nat) /\ b \in Seq(Nat)
    BY <2>2, FlattenTyped
  <2>6. Given(c) = g \o (b \o f) /\ Given(c)' = g \o (b \o (f \o <<k>>))
    BY <1>6, <2>1, <2>3, <2>4 DEF Given
  <2> HIDE DEF f, g, b
  <2>7. b \o f \in Seq(Nat) /\ b \o (f \o <<k>>) = (b \o f) \o <<k>>
    BY <2>3, <2>5, CatAssociative
  <2>8. g \o ((b \o f) \o <<k>>) = (g \o (b \o f)) \o <<k>>
    BY <2>3, <2>5, <2>7, CatAssociative
  <2>9. Append(Given(c), k) = Given(c) \o <<k>>
    BY <1>5
  <2>10. Given(c)' = Feed!Promise(c)'
    BY <1>4, <2>1, <2>6, <2>7, <2>8, <2>9
  <2>11. Given(c)' \in Seq(Nat)
    BY <1>5, <2>6, <2>7, <2>8, <2>9
  <2>12. IsPrefix(Given(c)', Given(c)')
    BY <2>11 DEF IsPrefix
  <2> QED BY <2>10, <2>12
<1>7. CASE ~(c \in clients' /\ link'[c] = "up")
  <2>1. Given(c)' = Given(c)
    BY <1>1, <1>7 DEF Written, Given
  <2>2. IsPrefix(Given(c), Feed!Promise(c))
    BY <1>3 DEF Whole
  <2>3. IsPrefix(Feed!Promise(c), Append(Feed!Promise(c), k))
    BY <1>5 DEF IsPrefix
  <2>4. Append(Feed!Promise(c), k) \in Seq(Nat)
    BY <1>5
  <2>5. IsPrefix(Given(c), Append(Feed!Promise(c), k))
    BY <1>5, <2>2, <2>3, <2>4, PrefixTransitive
  <2> QED BY <1>4, <1>7, <2>1, <2>2, <2>5
<1> QED BY <1>6, <1>7

LEMMA GivenSame ==
  ASSUME NEW c, got'[c] = got[c], wire'[c] = wire[c], link'[c] = "up" <=> link[c] = "up",
         link[c] = "up" => buf'[c] = buf[c] /\ queue'[c] = queue[c]
  PROVE  Given(c)' = Given(c)
  BY DEF Given

(* The start a connection is given as it is accepted is what is promised.  *)
LEMMA WholeAccept ==
  ASSUME CInv, NEW c \in Conns, Accept(c)
  PROVE  Whole(c)'
<1>1. PICK r, n : r = run /\ n = Len(log)
  OBVIOUS
<1> DEFINE C == Feed!Channels(r, n)
           P == Feed!Meta(r, n) \cup Feed!Episode(r, n) \cup Feed!Routes(r, n)
<1>2. /\ n \in Nat /\ log' = log
      /\ since' = [since EXCEPT ![c] = [run |-> run, at |-> Len(log)]]
      /\ queue' = [queue EXCEPT ![c] = <<StartBatch>>]
      /\ link' = [link EXCEPT ![c] = "up"] /\ buf' = buf /\ wire' = wire /\ got' = got
  BY <1>1 DEF Accept, simVars, CInv, SInv, StreamTyped, RecorderTyped
<1>3. since'[c].run = r /\ since'[c].at = n /\ Len(log') = n
  BY <1>1, <1>2 DEF CInv, SInv, StreamTyped, ConnTyped
<1>4. Feed!Promise(c)' = Listed(C, P, {}, n)
  <2>1. (Feed!Promise(c) = Promised(log, since[c].run, since[c].at))'
    BY PromiseIs, PTL
  <2>2. Feed!Promise(c)' = Promised(log, r, n)
    BY <1>2, <1>3, <2>1
  <2>3. LiveOf(log, r, n) = {}
    BY <1>1 DEF LiveOf, OfRun
  <2>4. Promised(log, r, n) = Listed(C, P, {}, n)
    BY <1>1, <2>3, SetsAre DEF Promised
  <2> QED BY <2>2, <2>4
<1>5. /\ prefix \in Seq(Nat) /\ meta \in Seq(Nat) /\ episode \in Seq(Nat) /\ routes \in Seq(Nat)
      /\ prefix = InOrder(C, n) /\ meta \o episode \o routes = InOrder(P, n)
  BY <1>1 DEF Accept, CInv, SInv, StreamTyped, SharedTyped, Cached
<1> HIDE DEF C, P
<1>6. StartBatch = Listed(C, P, {}, n)
  <2> DEFINE s == <<0>> \o prefix
             e == meta \o episode
  <2>1. s \in Seq(Nat) /\ meta \in Seq(Nat) /\ episode \in Seq(Nat) /\ routes \in Seq(Nat)
    BY <1>5
  <2>2. InOrder({}, n) = <<>>
    BY <1>2, InOrderEmpty
  <2>3. Listed(C, P, {}, n) = (s \o (e \o routes)) \o <<>>
    BY <1>5, <2>2 DEF Listed, Magic
  <2>4. StartBatch = ((s \o meta) \o episode) \o routes
    BY DEF StartBatch
  <2> HIDE DEF s
  <2>5. (s \o meta) \o episode = s \o e
    BY <2>1, CatAssociative
  <2>6. e \in Seq(Nat)
    BY <2>1
  <2> HIDE DEF e
  <2>7. (s \o e) \o routes = s \o (e \o routes) /\ s \o (e \o routes) \in Seq(Nat)
    <3>1. e \o routes \in Seq(Nat)
      BY <2>1, <2>6
    <3> QED BY <2>1, <2>6, <3>1, CatAssociative
  <2>8. (s \o (e \o routes)) \o <<>> = s \o (e \o routes)
    BY <2>7
  <2> QED BY <2>3, <2>4, <2>5, <2>7, <2>8
<1>7. Given(c)' = StartBatch
  <2>1. /\ got'[c] = <<>> /\ wire'[c] = <<>> /\ buf'[c] = <<>> /\ link'[c] = "up"
        /\ queue'[c] = <<StartBatch>>
    BY <1>2 DEF Accept, CInv, ConnsOK, SInv, StreamTyped, ConnTyped
  <2>2. StartBatch \in Seq(Nat)
    BY CatTyped DEF StartBatch, CInv, SInv, StreamTyped, SharedTyped
  <2>3. FlattenSeq(queue'[c]) = StartBatch
    BY <2>1, <2>2, FlattenOne
  <2>4. <<>> \o <<>> = <<>> /\ \A s \in Seq(Nat) : <<>> \o s = s
    OBVIOUS
  <2>5. Given(c)' = (<<>> \o <<>>) \o (<<>> \o StartBatch)
    BY <2>1, <2>3 DEF Given
  <2> QED BY <2>2, <2>4, <2>5
<1>8. IsPrefix(StartBatch, StartBatch)
  BY DEF IsPrefix
<1> QED BY <1>4, <1>6, <1>7, <1>8 DEF Whole

LEMMA WholeWriter ==
  ASSUME CInv, NEW c \in Conns, Whole(c), WriterStep(c)
  PROVE  Whole(c)'
<1>1. log' = log /\ since' = since /\ clients' = clients /\ got' = got
  BY DEF WriterStep, Recv, RecvEnds, TryRecv, TryRecvEmpty, Push, WriteFails, Flushed, simVars, sinkVars
<1>2. /\ queue \in [Conns -> Seq(Seq(Nat))] /\ buf \in [Conns -> Seq(Nat)] /\ wire \in [Conns -> Seq(Nat)]
      /\ got \in [Conns -> Seq(Nat)] /\ link \in [Conns -> {"none", "pending", "taken", "up", "fin", "cut"}]
  BY DEF CInv, SInv, StreamTyped, ConnTyped
<1> DEFINE b == buf[c]
           q == queue[c]
           w == wire[c]
           g == got[c]
<1>3. b \in Seq(Nat) /\ q \in Seq(Seq(Nat)) /\ w \in Seq(Nat) /\ g \in Seq(Nat)
  BY <1>2
<1>4. FlattenSeq(q) \in Seq(Nat)
  BY <1>3, FlattenTyped
<1>5. q # <<>> => /\ Head(q) \in Seq(Nat) /\ Tail(q) \in Seq(Seq(Nat))
                  /\ FlattenSeq(Tail(q)) \in Seq(Nat) /\ FlattenSeq(q) = Head(q) \o FlattenSeq(Tail(q))
  <2> SUFFICES ASSUME q # <<>> PROVE /\ Head(q) \in Seq(Nat) /\ Tail(q) \in Seq(Seq(Nat))
                  /\ FlattenSeq(Tail(q)) \in Seq(Nat) /\ FlattenSeq(q) = Head(q) \o FlattenSeq(Tail(q))
    OBVIOUS
  <2>1. Head(q) \in Seq(Nat) /\ Tail(q) \in Seq(Seq(Nat))
    BY <1>3
  <2> QED BY <1>3, <2>1, FlattenTyped, FlattenHead
<1>6. Given(c)' = Given(c) /\ (link'[c] = "up" => link[c] = "up")
  <2>1. CASE Recv(c)
    <3>1. buf'[c] = Head(q) /\ queue'[c] = Tail(q) /\ wire' = wire /\ link' = link /\ q # <<>> /\ b = <<>>
      BY <1>2, <2>1 DEF Recv, CInv, ConnsOK
    <3>2. <<>> \o FlattenSeq(q) = FlattenSeq(q)
      <4> DEFINE f == FlattenSeq(q)
      <4> HIDE DEF f
      <4>1. f \in Seq(Nat) => <<>> \o f = f
        OBVIOUS
      <4> QED BY <1>4, <4>1 DEF f
    <3> QED BY <1>1, <1>5, <3>1, <3>2 DEF Given
  <2>2. CASE RecvEnds(c)
    <3>1. /\ queue'[c] = <<>> /\ q = <<>> /\ wire' = wire /\ b = <<>> /\ link'[c] # "up"
      BY <1>2, <2>2 DEF RecvEnds, CInv, ConnsOK
    <3>2. <<>> \o FlattenSeq(<<>>) = <<>>
      BY FlattenNone
    <3> QED BY <1>1, <3>1, <3>2 DEF Given
  <2>3. CASE TryRecv(c)
    <3>1. buf'[c] = b \o Head(q) /\ queue'[c] = Tail(q) /\ wire' = wire /\ link' = link /\ q # <<>>
      BY <1>2, <2>3 DEF TryRecv
    <3>2. (b \o Head(q)) \o FlattenSeq(Tail(q)) = b \o (Head(q) \o FlattenSeq(Tail(q)))
      BY <1>3, <1>5, <3>1, CatAssociative
    <3> QED BY <1>1, <1>5, <3>1, <3>2 DEF Given
  <2>4. CASE TryRecvEmpty(c) \/ Flushed(c)
    BY <2>4 DEF TryRecvEmpty, Flushed, Given
  <2>5. CASE Push(c)
    <3>1. /\ buf'[c] = Tail(b) /\ wire'[c] = Append(w, Head(b)) /\ queue' = queue /\ link' = link
          /\ b # <<>> /\ link[c] = "up"
      BY <1>2, <2>5 DEF Push
    <3> DEFINE f == FlattenSeq(q)
               gw == g \o w
    <3>2. f \in Seq(Nat) /\ gw \in Seq(Nat) /\ Head(b) \in Nat /\ Tail(b) \in Seq(Nat)
      BY <1>3, <1>4, <3>1
    <3> HIDE DEF f
    <3>3. g \o Append(w, Head(b)) = Append(gw, Head(b))
      <4> DEFINE h == Head(b)
      <4>0. h \in Nat
        BY <3>2
      <4> HIDE DEF h
      <4>1. <<h>> \in Seq(Nat) /\ Append(w, h) = w \o <<h>>
        BY <1>3, <4>0
      <4>2. gw \o <<h>> = g \o (w \o <<h>>)
        BY <1>3, <4>1, CatAssociative
      <4>3. Append(gw, h) = gw \o <<h>>
        <5> HIDE DEF gw
        <5> QED BY <3>2, <4>0
      <4> QED BY <4>1, <4>2, <4>3 DEF h
    <3> HIDE DEF gw
    <3>4. Append(gw, Head(b)) \in Seq(Nat) /\ Append(gw, Head(b)) \o Tail(b) = gw \o b
      <4>1. Append(gw, Head(b)) \in Seq(Nat)
        BY <3>2
      <4> QED BY <1>3, <3>1, <3>2, <4>1, HeadMoves
    <3> DEFINE p == Append(gw, Head(b))
    <3> HIDE DEF p
    <3>5. p \in Seq(Nat) /\ p \o Tail(b) = gw \o b
      BY <3>4 DEF p
    <3>6. p \o (Tail(b) \o f) = (p \o Tail(b)) \o f
      BY <3>2, <3>5, CatAssociative
    <3>7. gw \o (b \o f) = (gw \o b) \o f
      BY <1>3, <3>2, CatAssociative
    <3>8. Given(c) = gw \o (b \o f)
      BY <3>1 DEF Given, gw, f
    <3>9. Given(c)' = (g \o Append(w, Head(b))) \o (Tail(b) \o f)
      BY <1>1, <3>1 DEF Given, f
    <3> QED BY <3>1, <3>3, <3>5, <3>6, <3>7, <3>8, <3>9 DEF p
  <2>6. CASE WriteFails(c)
    BY <2>6 DEF WriteFails, Given
  <2> QED BY <2>1, <2>2, <2>3, <2>4, <2>5, <2>6 DEF WriterStep
<1> QED BY <1>1, <1>6, WholeSame DEF CInv

(* Of what is lost, it is the end.                                         *)
LEMMA GivenLess ==
  ASSUME CInv, NEW c \in Conns, got' = got, wire'[c] = wire[c] \/ wire'[c] = <<>>, link'[c] # "up"
  PROVE  IsPrefix(Given(c)', Given(c))
<1> DEFINE g == got[c]
           w == wire[c]
           w2 == wire'[c]
           rest == IF link[c] = "up" THEN buf[c] \o FlattenSeq(queue[c]) ELSE <<>>
<1>1. g \in Seq(Nat) /\ w \in Seq(Nat) /\ w2 \in Seq(Nat) /\ (w2 = w \/ w2 = <<>>)
  <2>1. g \in Seq(Nat) /\ w \in Seq(Nat)
    BY DEF CInv, SInv, StreamTyped, ConnTyped
  <2>2. w2 = w \/ w2 = <<>>
    OBVIOUS
  <2> HIDE DEF g, w, w2
  <2>3. <<>> \in Seq(Nat)
    OBVIOUS
  <2>4. w2 \in Seq(Nat)
    BY <2>1, <2>2, <2>3
  <2> QED BY <2>1, <2>2, <2>4
<1>2. rest \in Seq(Nat)
  <2>1. buf[c] \in Seq(Nat) /\ queue[c] \in Seq(Seq(Nat))
    BY DEF CInv, SInv, StreamTyped, ConnTyped
  <2>2. FlattenSeq(queue[c]) \in Seq(Nat)
    BY <2>1, FlattenTyped
  <2> DEFINE f == FlattenSeq(queue[c])
  <2> HIDE DEF f
  <2>3. buf[c] \o f \in Seq(Nat) /\ <<>> \in Seq(Nat)
    BY <2>1, <2>2 DEF f
  <2> QED BY <2>3 DEF f
<1>3. Given(c) = (g \o w) \o rest /\ Given(c)' = (g \o w2) \o <<>>
  BY DEF Given
<1> HIDE DEF g, w, w2, rest
<1>4. g \o w \in Seq(Nat) /\ g \o w2 \in Seq(Nat) /\ (g \o w2) \o <<>> = g \o w2
  <2>1. g \o w \in Seq(Nat) /\ g \o w2 \in Seq(Nat)
    BY <1>1
  <2>2. \A s \in Seq(Nat) : s \o <<>> = s
    OBVIOUS
  <2> QED BY <2>1, <2>2
<1>5. IsPrefix(g \o w2, g \o w)
  <2>1. CASE w2 = w
    BY <2>1 DEF IsPrefix
  <2>2. CASE w2 = <<>>
    <3>1. g \o <<>> = g
      BY <1>1
    <3> QED BY <1>1, <2>2, <3>1, PrefixOfCat
  <2> QED BY <1>1, <2>1, <2>2
<1>6. IsPrefix(g \o w, (g \o w) \o rest) /\ (g \o w) \o rest \in Seq(Nat)
  <2>1. (g \o w) \o rest \in Seq(Nat)
    BY <1>2, <1>4
  <2> QED BY <1>2, <1>4, <2>1, PrefixOfCat
<1> QED BY <1>3, <1>4, <1>5, <1>6, PrefixTransitive

LEMMA WholeNetwork ==
  ASSUME CInv, CInv', NEW c \in Conns, Whole(c), AcceptReturns(c) \/ AcceptUnserved(c) \/ Connect(c) \/ Receive(c) \/ Break(c)
  PROVE  Whole(c)'
<1>1. log' = log /\ since' = since /\ clients' = clients
  BY DEF AcceptReturns, AcceptUnserved, Connect, Receive, Break, simVars, sinkVars
<1>2. /\ wire \in [Conns -> Seq(Nat)] /\ got \in [Conns -> Seq(Nat)]
      /\ link \in [Conns -> {"none", "pending", "taken", "up", "fin", "cut"}]
  BY DEF CInv, SInv, StreamTyped, ConnTyped
<1>3. CASE AcceptReturns(c) \/ AcceptUnserved(c) \/ Connect(c)
  <2>1. link'[c] # "up" /\ link[c] # "up" /\ got' = got /\ wire' = wire
    BY <1>2, <1>3 DEF AcceptReturns, AcceptUnserved, Connect
  <2>2. Given(c)' = Given(c)
    BY <2>1, GivenSame
  <2> QED BY <1>1, <2>1, <2>2, WholeSame DEF CInv
<1>4. CASE Receive(c)
  <2>1. /\ wire[c] \in Seq(Nat) /\ got[c] \in Seq(Nat) /\ wire[c] # <<>>
        /\ got'[c] = Append(got[c], Head(wire[c])) /\ wire'[c] = Tail(wire[c])
        /\ link' = link /\ buf' = buf /\ queue' = queue
    BY <1>2, <1>4 DEF Receive
  <2>2. Append(got[c], Head(wire[c])) \o Tail(wire[c]) = got[c] \o wire[c]
    BY <2>1, HeadMoves
  <2>3. Given(c)' = Given(c)
    BY <2>1, <2>2 DEF Given
  <2> QED BY <1>1, <2>1, <2>3, WholeSame DEF CInv
<1>5. CASE Break(c)
  <2>1. link'[c] = "cut" /\ got' = got /\ (wire'[c] = wire[c] \/ wire'[c] = <<>>)
    BY <1>2, <1>5 DEF Break
  <2>2. IsPrefix(Given(c)', Given(c))
    BY <2>1, GivenLess
  <2> QED BY <1>1, <2>1, <2>2, WholeLess DEF CInv
<1> QED BY <1>3, <1>4, <1>5

(* The steps of one connection leave the others as they are.               *)
LEMMA WholeOther ==
  ASSUME CInv, NEW c \in Conns, NEW d \in Conns, d # c, Whole(d),
         Accept(c) \/ AcceptReturns(c) \/ AcceptUnserved(c) \/ WriterStep(c) \/ Connect(c) \/ Receive(c) \/ Break(c)
  PROVE  Whole(d)'
<1>1. /\ queue \in [Conns -> Seq(Seq(Nat))] /\ buf \in [Conns -> Seq(Nat)] /\ wire \in [Conns -> Seq(Nat)]
      /\ got \in [Conns -> Seq(Nat)] /\ link \in [Conns -> {"none", "pending", "taken", "up", "fin", "cut"}]
      /\ since \in [Conns -> [run : Nat, at : Nat]]
  BY DEF CInv, SInv, StreamTyped, ConnTyped
<1>2. /\ log' = log /\ since'[d] = since[d] /\ link'[d] = link[d] /\ (d \in clients' => d \in clients)
      /\ got'[d] = got[d] /\ wire'[d] = wire[d] /\ buf'[d] = buf[d] /\ queue'[d] = queue[d]
  <2>1. CASE Accept(c)
    BY <1>1, <2>1 DEF Accept, simVars
  <2>2. CASE AcceptReturns(c) \/ AcceptUnserved(c) \/ Connect(c)
    BY <1>1, <2>2 DEF AcceptReturns, AcceptUnserved, Connect, simVars, sinkVars
  <2>3. CASE Receive(c) \/ Break(c)
    BY <1>1, <2>3 DEF Receive, Break, simVars, sinkVars
  <2>4. CASE WriterStep(c)
    BY <1>1, <2>4 DEF WriterStep, Recv, RecvEnds, TryRecv, TryRecvEmpty, Push, WriteFails, Flushed, simVars, sinkVars
  <2> QED BY <2>1, <2>2, <2>3, <2>4
<1>3. Given(d)' = Given(d)
  BY <1>2, GivenSame
<1> QED BY <1>2, <1>3, WholeSame DEF CInv

LEMMA WholeNext ==
  ASSUME CInv, CInv', [Next]_vars, \A c \in Conns : Whole(c)
  PROVE  \A c \in Conns : Whole(c)'
<1> SUFFICES ASSUME NEW d \in Conns PROVE Whole(d)'
  OBVIOUS
<1>1. Whole(d)
  OBVIOUS
<1>2. CASE UNCHANGED <<log, connVars>> /\ clients' \subseteq clients
  <2>1. /\ log' = log /\ since' = since /\ link' = link
        /\ got' = got /\ wire' = wire /\ buf' = buf /\ queue' = queue
    BY <1>2 DEF connVars
  <2>2. Given(d)' = Given(d)
    BY <2>1, GivenSame
  <2> QED BY <1>1, <1>2, <2>1, <2>2, WholeSame DEF CInv
<1>3. CASE UNCHANGED vars
  <2>1. UNCHANGED <<log, connVars>> /\ clients' \subseteq clients
    BY <1>3 DEF vars, sinkVars
  <2> QED BY <1>2, <2>1
<1>4. CASE SimStep
  <2>1. CASE SimWrites
    BY <1>1, <2>1, WholeWrites
  <2>2. CASE ~SimWrites
    <3>1. UNCHANGED <<log, connVars>> /\ clients' \subseteq clients
      BY <1>4, <2>2 DEF SimStep, Bind, Attach, Cleared, Close, Finish, Reset, Tick, sinkVars
    <3> QED BY <1>2, <3>1
  <2> QED BY <2>1, <2>2
<1>5. CASE Closes
  <2>1. /\ log' = log /\ since' = since /\ clients' = clients
        /\ got' = got /\ wire' = wire /\ buf' = buf /\ queue' = queue
    BY <1>5, ClosesIs
  <2>2. link'[d] = "up" <=> link[d] = "up"
    BY <1>5, ClosesIs
  <2>3. Given(d)' = Given(d)
    BY <2>1, <2>2, GivenSame
  <2> QED BY <1>1, <2>1, <2>2, <2>3, WholeSame DEF CInv
<1>6. ASSUME NEW c \in Conns,
             Accept(c) \/ AcceptReturns(c) \/ AcceptUnserved(c) \/ WriterStep(c) \/ Connect(c) \/ Receive(c) \/ Break(c)
      PROVE  Whole(d)'
  <2>1. CASE d # c
    BY <1>1, <1>6, <2>1, WholeOther
  <2>2. CASE d = c
    BY <1>1, <1>6, <2>2, WholeAccept, WholeWriter, WholeNetwork
  <2> QED BY <2>1, <2>2
<1>7. CASE \E next \in FreshWorlds, short \in SUBSET Conns : Exit(next, short)
  <2>1. log' = log /\ since' = since /\ clients' = {} /\ got' = got /\ wire' = wire /\ link'[d] # "up"
    BY <1>7 DEF Exit, ProcessEnds, Cleared
  <2>2. IsPrefix(Given(d)', Given(d))
    BY <2>1, GivenLess
  <2> QED BY <1>1, <2>1, <2>2, WholeLess DEF CInv
<1> QED BY <1>3, <1>4, <1>5, <1>6, <1>7 DEF Next, AcceptThread, Closes

LEMMA WholeInit == Init => \A c \in Conns : Whole(c)
  BY DEF Init, Whole

(* Each connection carries the start and then the live records in order,   *)
(* none missing and none twice; one the sink still writes to carries all   *)
(* there are (try_send, retain, the accept thread and send_loop).          *)
THEOREM StreamUnbroken == Spec => []Unbroken
<1> DEFINE I == CInv /\ \A c \in Conns : Whole(c)
<1>1. Init => I
  BY CInvInit, WholeInit
<1>2. I /\ [Next]_vars => I'
  BY CInvNext, WholeNext
<1>3. I => Unbroken
  BY DEF Whole, Unbroken
<1> QED BY <1>1, <1>2, <1>3, PTL DEF Spec
-----------------------------------------------------------------------------
(* What a reader can make of it                                            *)

(* The log is the recorder's, whatever the stream's threads do.            *)
LEMMA RecorderNext == ASSUME RecorderOK, [Next]_vars PROVE RecorderOK'
<1>1. CASE UNCHANGED <<simVars, log>>
  BY <1>1, LogSame
<1>2. CASE SimStep
  <2>1. CASE SimWrites
    <3>1. PICK r, k : Writes(r, k)
      BY <2>1 DEF SimWrites, AddChannel, WriteMeta, WriteEpisode, WriteRoute, WriteOther, Write
    <3> QED BY <3>1, LogWrites
  <2>2. CASE Bind
    BY <2>2, LogAttach DEF Bind
  <2>3. CASE Close
    BY <2>3, LogEnds DEF Close
  <2> QED BY <1>2, <2>1, <2>2, <2>3, LogReset, LogTick DEF SimStep
<1>3. CASE Closes
  <2>1. Finished \/ UNCHANGED <<simVars, log>>
    BY <1>3, ClosesIs DEF simVars
  <2> QED BY <1>1, <2>1, LogEnds
<1>4. ASSUME NEW c \in Conns, Accept(c) \/ AcceptReturns(c) \/ AcceptUnserved(c) \/ WriterStep(c) \/ Connect(c) \/ Receive(c) \/ Break(c)
      PROVE  UNCHANGED <<simVars, log>>
  BY <1>4 DEF Accept, AcceptReturns, AcceptUnserved, WriterStep, Recv, RecvEnds, TryRecv, TryRecvEmpty, Push, WriteFails, Flushed,
         Connect, Receive, Break
<1>5. CASE \E next \in FreshWorlds, short \in SUBSET Conns : Exit(next, short)
  BY <1>5, LogEnds DEF Exit
<1>6. UNCHANGED vars => UNCHANGED <<simVars, log>>
  BY DEF vars
<1> QED BY <1>1, <1>2, <1>3, <1>4, <1>5, <1>6 DEF Next, AcceptThread, Closes

(* What has been read is the beginning of what was promised.               *)
LEMMA GotIsPromised ==
  ASSUME CInv, NEW c \in Conns, Whole(c), since[c] # Absent
  PROVE  IsPrefix(got[c], Feed!Promise(c))
<1> DEFINE rest == IF link[c] = "up" THEN buf[c] \o FlattenSeq(queue[c]) ELSE <<>>
<1>1. got[c] \in Seq(Nat) /\ wire[c] \in Seq(Nat) /\ rest \in Seq(Nat)
  <2>1. queue[c] \in Seq(Seq(Nat)) /\ buf[c] \in Seq(Nat) /\ got[c] \in Seq(Nat) /\ wire[c] \in Seq(Nat)
    BY DEF CInv, SInv, StreamTyped, ConnTyped
  <2>2. FlattenSeq(queue[c]) \in Seq(Nat)
    BY <2>1, FlattenTyped
  <2> HIDE DEF FlattenSeq
  <2> QED BY <2>1, <2>2
<1>2. Given(c) = (got[c] \o wire[c]) \o rest
  BY DEF Given
<1> HIDE DEF rest
<1>3. wire[c] \o rest \in Seq(Nat) /\ Given(c) = got[c] \o (wire[c] \o rest)
  <2>1. wire[c] \o rest \in Seq(Nat)
    BY <1>1
  <2>2. (got[c] \o wire[c]) \o rest = got[c] \o (wire[c] \o rest)
    BY <1>1, CatAssociative
  <2> QED BY <1>2, <2>1, <2>2
<1>4. IsPrefix(got[c], Given(c))
  BY <1>1, <1>3, PrefixOfCat
<1>5. Given(c) \in Seq(Nat) /\ Feed!Promise(c) \in Seq(Nat) /\ IsPrefix(Given(c), Feed!Promise(c))
  BY GivenTyped, PromiseTyped DEF CInv, Whole
<1> QED BY <1>1, <1>4, <1>5, PrefixTransitive

(* The record that differs from k in nothing is k.                         *)
LEMMA SameRecord ==
  ASSUME NEW x \in Record, NEW r, x.op = "message", x.topic = "/episode", x.run = r.run, x.episode = r.episode
  PROVE  x = [x EXCEPT !.op = "message", !.topic = "/episode", !.run = r.run, !.episode = r.episode]
  BY DEF Record

(* The reader can make sense of what it reads as it comes: a channel       *)
(* before its messages, an episode's /episode before its routes and states *)
(* (the recorder's calls, the sink's caches and the accept thread).        *)
THEOREM ReaderUnderstandsAlways == Spec => []ReaderUnderstands
<1> DEFINE I == CInv /\ RecorderOK /\ \A c \in Conns : Whole(c)
<1>1. Init => I
  BY CInvInit, WholeInit, LogInit DEF Init
<1>2. I /\ [Next]_vars => I'
  BY CInvNext, WholeNext, RecorderNext
<1>3. I => ReaderUnderstands
  <2> SUFFICES ASSUME CInv, RecorderOK, NEW c \in Conns, Whole(c), NEW j \in DOMAIN got[c],
                      got[c][j] # 0, log[got[c][j]].op = "message"
               PROVE  /\ \E k \in {got[c][h] : h \in 1 .. (j - 1)} \ {0} :
                           /\ log[k].op = "channel"
                           /\ (log[k].topic = "/state") = (log[got[c][j]].topic = "/state")
                      /\ log[got[c][j]].topic \in {"/route", "/state"} =>
                           \E k \in {got[c][h] : h \in 1 .. (j - 1)} \ {0} :
                             /\ log[k] = [log[k] EXCEPT !.op = "message", !.topic = "/episode",
                                            !.run = log[got[c][j]].run, !.episode = log[got[c][j]].episode]
                             /\ \A h \in {got[c][i] : i \in 1 .. (j - 1)} \ {0} :
                                  log[h].topic = "/episode" => h <= k
    BY DEF ReaderUnderstands
  <2>1. PICK g, r, m, p : g = got[c] /\ r = since[c].run /\ m = since[c].at /\ p = Promised(log, r, m)
    OBVIOUS
  <2>2. g \in Seq(Nat) /\ since[c] # Absent
    BY <2>1 DEF CInv, SInv, StreamTyped, ConnTyped, ConnsOK
  <2>3. log \in Seq(Record) /\ Orderly(log) /\ m \in 0 .. Len(log)
    BY <2>1, <2>2 DEF RecorderOK, LogOK, RecorderTyped, CInv, SInv, StreamTyped, ConnTyped, ConnsOK
  <2>4. IsPrefix(g, p)
    BY <2>1, <2>2, GotIsPromised, PromiseIs
  <2>5. j \in DOMAIN g /\ Sent(log, g, j)
    BY <2>1 DEF Sent
  <2>6. PICK k \in ReadBefore(g, j) :
          log[k].op = "channel" /\ (log[k].topic = "/state" <=> log[g[j]].topic = "/state")
    BY <2>1, <2>2, <2>3, <2>4, <2>5, ChannelRead
  <2>7. ASSUME log[g[j]].topic \in {"/route", "/state"}
        PROVE  \E e \in ReadBefore(g, j) :
                 /\ log[e] = [log[e] EXCEPT !.op = "message", !.topic = "/episode",
                                !.run = log[g[j]].run, !.episode = log[g[j]].episode]
                 /\ \A h \in ReadBefore(g, j) : log[h].topic = "/episode" => h <= e
    <3>1. PICK e \in ReadBefore(g, j) :
            /\ IsOn(log, e, "/episode") /\ log[e].run = log[g[j]].run /\ log[e].episode = log[g[j]].episode
            /\ e \in DOMAIN log
            /\ \A h \in ReadBefore(g, j) : log[h].topic = "/episode" => h <= e
      BY <2>1, <2>2, <2>3, <2>4, <2>5, <2>7, EpisodeRead
    <3>2. log[e] \in Record
      BY <2>3, <3>1
    <3> QED BY <3>1, <3>2, SameRecord DEF IsOn
  <2>8. ReadBefore(g, j) = {got[c][h] : h \in 1 .. (j - 1)} \ {0} /\ g[j] = got[c][j]
    BY <2>1 DEF ReadBefore
  <2>9. (log[k].topic = "/state") = (log[g[j]].topic = "/state")
    BY <2>6
  <2> QED BY <2>6, <2>7, <2>8, <2>9, Zenon
<1> QED BY <1>1, <1>2, <1>3, PTL DEF Spec
-----------------------------------------------------------------------------
(* The stream is a broadcast                                               *)

Served == {c \in clients : link[c] = "up"}

LEMMA ServedKept ==
  ASSUME clients' = clients, \A c \in clients : link'[c] = "up" <=> link[c] = "up"
  PROVE  Served' = Served
  BY DEF Served

(* What the other end reads next is what it is promised next.              *)
LEMMA ReceiveDelivers ==
  ASSUME CInv, NEW c \in Conns, Whole(c), Receive(c)
  PROVE  /\ since[c] # Absent /\ Len(got[c]) < Len(Feed!Promise(c))
         /\ got' = [got EXCEPT ![c] = Append(got[c], Feed!Promise(c)[Len(got[c]) + 1])]
<1> DEFINE g == got[c]
           w == wire[c]
           rest == IF link[c] = "up" THEN buf[c] \o FlattenSeq(queue[c]) ELSE <<>>
           p == Feed!Promise(c)
<1>1. g \in Seq(Nat) /\ w \in Seq(Nat) /\ w # <<>> /\ p \in Seq(Nat)
  BY PromiseTyped DEF CInv, SInv, StreamTyped, ConnTyped, Receive
<1>2. since[c] # Absent
  BY <1>1 DEF CInv, ConnsOK
<1>3. rest \in Seq(Nat)
  <2>1. buf[c] \in Seq(Nat) /\ queue[c] \in Seq(Seq(Nat))
    BY DEF CInv, SInv, StreamTyped, ConnTyped
  <2>2. FlattenSeq(queue[c]) \in Seq(Nat)
    BY <2>1, FlattenTyped
  <2> DEFINE f == FlattenSeq(queue[c])
  <2> HIDE DEF f
  <2>3. buf[c] \o f \in Seq(Nat) /\ <<>> \in Seq(Nat)
    BY <2>1, <2>2 DEF f
  <2> QED BY <2>3 DEF f
<1>4. Given(c) = (g \o w) \o rest /\ IsPrefix(Given(c), p)
  BY <1>2 DEF Given, Whole
<1> HIDE DEF g, w, rest, p
<1>5. g \o w \in Seq(Nat) /\ Len(g \o w) = Len(g) + Len(w) /\ (g \o w)[Len(g) + 1] = Head(w) /\ Len(w) >= 1
  BY <1>1
<1> DEFINE gw == g \o w
<1> HIDE DEF gw
<1>6. Len(g) + 1 \in 1 .. Len(gw)
  BY <1>1, <1>5 DEF gw
<1>7. gw \o rest \in Seq(Nat) /\ (gw \o rest)[Len(g) + 1] = Head(w) /\ Len(g) + 1 <= Len(gw \o rest)
  BY <1>1, <1>3, <1>5, <1>6 DEF gw
<1> DEFINE s == gw \o rest
<1> HIDE DEF s
<1>8. s \in Seq(Nat) /\ s[Len(g) + 1] = Head(w) /\ Len(g) + 1 <= Len(s) /\ IsPrefix(s, p)
  BY <1>4, <1>7 DEF s, gw
<1>9. PICK u \in Seq(Nat) : p = s \o u
  BY <1>1, <1>8, PrefixSplits
<1>10. Len(g) < Len(p) /\ p[Len(g) + 1] = Head(w)
  BY <1>1, <1>8, <1>9
<1>11. got' = [got EXCEPT ![c] = Append(got[c], Head(wire[c]))]
  BY DEF Receive
<1> QED BY <1>2, <1>10, <1>11 DEF g, w, p

(* Every step of the stream is one of the broadcast's, or none.            *)
LEMMA FeedStep ==
  ASSUME CInv, CInv', \A c \in Conns : Whole(c), [Next]_vars
  PROVE  [Feed!Next]_<<log, run, since, Served, got>>
<1> USE DEF Feed!Next, Feed!Absent, Absent
<1>1. CASE UNCHANGED <<log, run, since, got, clients, link>>
  BY <1>1 DEF Served
<1>2. CASE SimWrites
  <2>1. PICK k \in Nat : Written(k)
    BY <1>2, WrittenTo DEF CInv
  <2>2. PICK x \in Record : log' = Append(log, x) /\ x.run = run
    BY <2>1 DEF Written
  <2>3. log \in Seq(Record)
    BY DEF CInv, SInv, StreamTyped, RecorderTyped
  <2>4. Len(log') = Len(log) + 1 /\ log'[Len(log')] = x
    BY <2>2, <2>3
  <2>5. Served' \subseteq Served
    BY <2>1 DEF Written, Served
  <2> QED BY <2>1, <2>2, <2>4, <2>5 DEF Written, Feed!Record
<1>3. CASE Bind
  <2>1. run' = run + 1 /\ Served' = {} /\ UNCHANGED <<log, since, got>>
    BY <1>3 DEF Bind, Attach, Cleared, connVars, Served
  <2> QED BY <2>1 DEF Feed!NewRun, Served
<1>4. CASE Close \/ \E next \in FreshWorlds, short \in SUBSET Conns : Exit(next, short)
  <2>1. Served' = {} /\ UNCHANGED <<log, run, since, got>>
    BY <1>4 DEF Close, Finish, Exit, ProcessEnds, Cleared, connVars, Served
  <2> QED BY <2>1 DEF Feed!DropAll, Served
<1>5. CASE (\E seed \in Seeds : Reset(seed) /\ UNCHANGED <<sinkVars, connVars>>)
           \/ (\E replaced, due \in BOOLEAN : Tick(replaced, due, clients # {}) /\ UNCHANGED <<sinkVars, connVars>>)
  BY <1>1, <1>5 DEF Reset, Tick, sinkVars, connVars
<1>6. CASE Closes
  <2>1. UNCHANGED <<log, run, since, got, clients>>
    BY <1>6, ClosesIs
  <2>2. \A c \in clients : link'[c] = "up" <=> link[c] = "up"
    BY <1>6, ClosesIs DEF CInv, SInv, StreamTyped, SharedTyped
  <2> QED BY <2>1, <2>2, ServedKept
<1>7. ASSUME NEW c \in Conns,
             Accept(c) \/ AcceptReturns(c) \/ AcceptUnserved(c) \/ WriterStep(c) \/ Connect(c) \/ Receive(c) \/ Break(c)
      PROVE  [Feed!Next]_<<log, run, since, Served, got>>
  <2>1. link \in [Conns -> {"none", "pending", "taken", "up", "fin", "cut"}] /\ clients \subseteq Conns
    BY DEF CInv, SInv, StreamTyped, ConnTyped, SharedTyped
  <2>2. CASE Accept(c)
    <3>1. since[c] = Absent
      BY <2>2 DEF Accept, CInv, ConnsOK
    <3>2. since' = [since EXCEPT ![c] = [run |-> run, at |-> Len(log)]] /\ UNCHANGED <<log, run, got>>
      BY <2>2 DEF Accept, simVars
    <3>3. Served' = Served \cup {c}
      BY <2>1, <2>2 DEF Accept, Served
    <3>4. Feed!Join(c)
      BY <3>1, <3>2, <3>3 DEF Feed!Join, Served
    <3> QED BY <3>4
  <2>3. CASE AcceptReturns(c) \/ AcceptUnserved(c) \/ Connect(c)
    <3>1. UNCHANGED <<log, run, since, got, clients>> /\ \A d \in clients : link'[d] = "up" <=> link[d] = "up"
      BY <2>1, <2>3 DEF AcceptReturns, AcceptUnserved, Connect, simVars, sinkVars
    <3> QED BY <3>1, ServedKept
  <2>4. CASE WriterStep(c)
    <3>1. UNCHANGED <<log, run, since, got, clients>> /\ \A d \in clients : link'[d] = "up" <=> link[d] = "up"
      BY <2>1, <2>4 DEF WriterStep, Recv, RecvEnds, TryRecv, TryRecvEmpty, Push, WriteFails, Flushed, Dropped,
             simVars, sinkVars
    <3> QED BY <3>1, ServedKept
  <2>5. CASE Receive(c)
    <3>1. /\ since[c] # Absent /\ Len(got[c]) < Len(Feed!Promise(c))
          /\ got' = [got EXCEPT ![c] = Append(got[c], Feed!Promise(c)[Len(got[c]) + 1])]
      BY <2>5, ReceiveDelivers
    <3>2. UNCHANGED <<log, run, since, clients, link>> /\ Served' = Served
      BY <2>5 DEF Receive, simVars, sinkVars, Served
    <3>3. Feed!Deliver(c)
      BY <3>1, <3>2 DEF Feed!Deliver, Served
    <3> QED BY <3>3
  <2>6. CASE Break(c)
    <3>1. UNCHANGED <<log, run, since, got, clients>> /\ Served' = Served \ {c}
      BY <2>1, <2>6 DEF Break, simVars, sinkVars, Served
    <3>2. Feed!Drop(c)
      BY <3>1 DEF Feed!Drop, Served
    <3> QED BY <3>2
  <2> QED BY <1>7, <2>2, <2>3, <2>4, <2>5, <2>6
<1>8. CASE UNCHANGED vars
  BY <1>1, <1>8 DEF vars, simVars, sinkVars, connVars
<1> QED BY <1>2, <1>3, <1>4, <1>5, <1>6, <1>7, <1>8 DEF Next, SimStep, AcceptThread, Closes

(* The stream does what a broadcast does: its viewers come, are given the  *)
(* promised records one by one and are let go, and nothing else happens    *)
(* (the safety part of IsFairFeed).                                        *)
THEOREM StreamIsFeed == Spec => Feed!Spec
<1> DEFINE I == CInv /\ \A c \in Conns : Whole(c)
<1>1. Init => I
  BY CInvInit, WholeInit
<1>2. I /\ [Next]_vars => I'
  BY CInvNext, WholeNext
<1>3. Init => Feed!Init
  BY DEF Init, InitRecorder, Feed!Init, Absent, Feed!Absent
<1>4. I /\ I' /\ [Next]_vars => [Feed!Next]_Feed!vars
  BY FeedStep DEF Served, Feed!vars
<1> QED BY <1>1, <1>2, <1>3, <1>4, PTL DEF Spec, Feed!Spec
=============================================================================
