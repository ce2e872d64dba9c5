----------------------------- MODULE LiveStream ------------------------------
(***************************************************************************)
(* Live telemetry (crates/sim/src/stream.rs): the simulation's thread      *)
(* writing under the sink's lock, the accept thread, one writer thread for *)
(* each connection with its bounded queue and its BufWriter, the TCP       *)
(* connections, and StreamReader's bytes at their other end.               *)
(*                                                                         *)
(* A record is its place in log; 0 is the magic and header.                *)
(***************************************************************************)
EXTENDS Recorder, FiniteSets, SequencesExt

CONSTANTS
  Conns,      \* TCP connections
  Queue,      \* batches a connection may lag behind (QUEUE, 8192 in the code)
  Buffer,     \* records in a BufWriter beyond which it writes through
  Window      \* records a connection holds in flight

ASSUME LiveStreamAssumption ==
  /\ IsFiniteSet(Conns)
  /\ {Queue, Buffer, Window} \subseteq Nat \ {0}

VARIABLES
  prefix, meta, episode, routes, clients,   \* Shared
  accept,     \* the accept thread: "none", it "runs" or it has "ended"
  own,        \* close's own connection: "none", "queued", "taken" or "failed"
  queue, buf, writer,                       \* each connection's send_loop
  link, wire,                               \* TCP; "taken" once accept returned
  got,        \* records the other end has read
  since       \* history: the run and the log's length when it was accepted

sinkVars == <<prefix, meta, episode, routes, clients, accept, own>>
connVars == <<queue, buf, writer, link, wire, got, since>>
vars == <<simVars, sinkVars, log, connVars>>

Absent == [run |-> 0, at |-> 0]

Init ==
  /\ InitRecorder
  /\ prefix = <<>> /\ meta = <<>> /\ episode = <<>> /\ routes = <<>>
  /\ clients = {}
  /\ accept = "none" /\ own = "none"
  /\ queue = [c \in Conns |-> <<>>]
  /\ buf = [c \in Conns |-> <<>>]
  /\ writer = [c \in Conns |-> "none"]
  /\ link = [c \in Conns |-> "none"]
  /\ wire = [c \in Conns |-> <<>>]
  /\ got = [c \in Conns |-> <<>>]
  /\ since = [c \in Conns |-> Absent]

(* A sink has nothing cached yet, or is gone.                              *)
Cleared ==
  /\ prefix' = <<>> /\ meta' = <<>> /\ episode' = <<>> /\ routes' = <<>>
  /\ clients' = {}

(* StreamSink::bind, for a recorder attached to the world.                 *)
Bind ==
  /\ Attach
  /\ Cleared
  /\ accept' = "runs" /\ own' = "none"
  /\ UNCHANGED connVars

-----------------------------------------------------------------------------
(* The sink, called by the recorder, with the lock held                    *)

(* try_send: a full queue, or a writer that is gone, loses the client.     *)
Takes(c) == writer[c] # "done" /\ Len(queue[c]) < Queue

(* Slip: a full queue loses the record and keeps the client.               *)
SendLossy(k) ==
  /\ clients' = {c \in clients : writer[c] # "done"}
  /\ queue' = [c \in Conns |-> IF c \in clients' /\ Takes(c) THEN Append(queue[c], <<k>>)
                               ELSE queue[c]]

(* Slip: send, which waits for room.                                       *)
SendWaiting(k) ==
  /\ \A c \in clients : Takes(c)
  /\ queue' = [c \in Conns |-> IF c \in clients THEN Append(queue[c], <<k>>) ELSE queue[c]]
  /\ UNCHANGED clients

Send(k) ==
  /\ clients' = {c \in clients : Takes(c)}
  /\ queue' = [c \in Conns |-> IF c \in clients' THEN Append(queue[c], <<k>>) ELSE queue[c]]

Write(r, k) ==
  /\ Writes(r, k)
  /\ Send(k)
  /\ UNCHANGED <<accept, own, buf, writer, link, wire, got, since>>

AddChannel(r, k) ==
  /\ Write(r, k)
  /\ r.op = "channel"
  /\ prefix' = Append(prefix, k)
  /\ UNCHANGED <<meta, episode, routes>>

WriteMeta(r, k) ==
  /\ Write(r, k)
  /\ r = Message("/meta")
  /\ meta' = <<k>> /\ episode' = <<>> /\ routes' = <<>>
  /\ UNCHANGED prefix

(* Slip: the routes of the episode before stay cached.                     *)
WriteEpisodeOnly(r, k) ==
  /\ Write(r, k)
  /\ r = Message("/episode")
  /\ episode' = <<k>>
  /\ UNCHANGED <<prefix, meta, routes>>

WriteEpisode(r, k) ==
  /\ Write(r, k)
  /\ r = Message("/episode")
  /\ episode' = <<k>> /\ routes' = <<>>
  /\ UNCHANGED <<prefix, meta>>

WriteRoute(r, k) ==
  /\ Write(r, k)
  /\ r = Message("/route")
  /\ routes' = Append(routes, k)
  /\ UNCHANGED <<prefix, meta, episode>>

(* Without clients nothing is built: the same, as there is none to send to.*)
WriteOther(r, k) ==
  /\ Write(r, k)
  /\ r = Message("/state")
  /\ UNCHANGED <<prefix, meta, episode, routes>>

(* close: closed is stored and the senders are dropped, with the lock held;*)
(* then the sink connects to itself, which may fail - for want of a file   *)
(* descriptor, or as the listener is gone - and waits for the accept       *)
(* thread.                                                                 *)
Close ==
  /\ Finish
  /\ clients' = {}
  /\ UNCHANGED <<prefix, meta, episode, routes, accept, own, connVars>>

CloseConnects ==
  /\ sink = "closing" /\ own = "none"
  /\ own' \in {"failed"} \cup (IF accept = "runs" THEN {"queued"} ELSE {})
  /\ UNCHANGED <<simVars, log, prefix, meta, episode, routes, clients, accept, connVars>>

CloseJoins ==
  /\ Finished
  /\ own # "none" /\ accept = "ended"
  /\ UNCHANGED <<sinkVars, connVars>>

-----------------------------------------------------------------------------
(* The accept thread                                                       *)

(* The other end connects; the listener's backlog takes it.                *)
Connect(c) ==
  /\ link[c] = "none"
  /\ accept = "runs"
  /\ link' = [link EXCEPT ![c] = "pending"]
  /\ UNCHANGED <<simVars, sinkVars, log, queue, buf, writer, wire, got, since>>

(* What accept has returned the thread holds until it has the lock.        *)
Holds == own = "taken" \/ \E c \in Conns : link[c] = "taken"

AcceptReturns(c) ==
  /\ accept = "runs" /\ ~Holds
  /\ link[c] = "pending"
  /\ link' = [link EXCEPT ![c] = "taken"]
  /\ UNCHANGED <<simVars, sinkVars, log, queue, buf, writer, wire, got, since>>

AcceptReturnsOwn ==
  /\ accept = "runs" /\ ~Holds
  /\ own = "queued"
  /\ own' = "taken"
  /\ UNCHANGED <<simVars, log, prefix, meta, episode, routes, clients, accept, connVars>>

(* Slip: the channels registered before the connection are not announced.  *)
StartBatchUnannounced == <<0>> \o meta \o episode \o routes

StartBatch == <<0>> \o prefix \o meta \o episode \o routes

Accept(c) ==
  /\ link[c] = "taken"
  /\ sink = "up"
  /\ link' = [link EXCEPT ![c] = "up"]
  /\ queue' = [queue EXCEPT ![c] = <<StartBatch>>]
  /\ writer' = [writer EXCEPT ![c] = "recv"]
  /\ clients' = clients \cup {c}
  /\ since' = [since EXCEPT ![c] = [run |-> run, at |-> Len(log)]]
  /\ UNCHANGED <<simVars, prefix, meta, episode, routes, accept, own, log, buf, wire, got>>

(* accept gives an error for it, or no thread can be spawned: the          *)
(* connection is closed.                                                   *)
AcceptUnserved(c) ==
  /\ link[c] = "taken"
  /\ sink = "up"
  /\ link' = [link EXCEPT ![c] = "fin"]
  /\ UNCHANGED <<simVars, sinkVars, log, queue, buf, writer, wire, got, since>>

(* Slip: only the sink's own connection ends the thread.                   *)
AcceptEndsForOwn ==
  /\ Holds /\ sink = "closing"
  /\ accept' = IF own = "taken" THEN "ended" ELSE "runs"
  /\ link' = [c \in Conns |-> IF link[c] = "taken" \/ (link[c] = "pending" /\ own = "taken")
                             THEN "cut" ELSE link[c]]
  /\ UNCHANGED <<simVars, log, prefix, meta, episode, routes, clients, own, queue, buf, writer,
                 wire, got, since>>

(* Whatever connection it holds, a closed sink ends the thread; with it    *)
(* goes the listener, and what waits in its backlog.                       *)
AcceptEnds ==
  /\ Holds /\ sink = "closing"
  /\ accept' = "ended"
  /\ link' = [c \in Conns |-> IF link[c] \in {"pending", "taken"} THEN "cut" ELSE link[c]]
  /\ UNCHANGED <<simVars, log, prefix, meta, episode, routes, clients, own, queue, buf, writer,
                 wire, got, since>>

AcceptThread ==
  \/ AcceptReturnsOwn \/ AcceptEnds
  \/ \E c \in Conns : AcceptReturns(c) \/ Accept(c) \/ AcceptUnserved(c)

-----------------------------------------------------------------------------
(* send_loop                                                               *)

Dropped(c) == c \notin clients

(* recv gives a batch.                                                     *)
Recv(c) ==
  /\ writer[c] = "recv"
  /\ queue[c] # <<>>
  /\ writer' = [writer EXCEPT ![c] = "write"]
  /\ buf' = [buf EXCEPT ![c] = Head(queue[c])]
  /\ queue' = [queue EXCEPT ![c] = Tail(@)]
  /\ UNCHANGED <<simVars, sinkVars, log, link, wire, got, since>>

(* recv ends: the sender is gone and the queue empty.                      *)
RecvEnds(c) ==
  /\ writer[c] = "recv"
  /\ queue[c] = <<>> /\ Dropped(c)
  /\ writer' = [writer EXCEPT ![c] = "done"]
  /\ link' = [link EXCEPT ![c] = IF @ = "up" THEN "fin" ELSE @]
  /\ UNCHANGED <<simVars, sinkVars, log, queue, buf, wire, got, since>>

(* try_recv gives another, if the buffer has room for it.                  *)
TryRecv(c) ==
  /\ writer[c] = "write"
  /\ queue[c] # <<>> /\ Len(buf[c]) < Buffer
  /\ buf' = [buf EXCEPT ![c] = @ \o Head(queue[c])]
  /\ queue' = [queue EXCEPT ![c] = Tail(@)]
  /\ UNCHANGED <<simVars, sinkVars, log, writer, link, wire, got, since>>

TryRecvEmpty(c) ==
  /\ writer[c] = "write"
  /\ queue[c] = <<>>
  /\ writer' = [writer EXCEPT ![c] = "flush"]
  /\ UNCHANGED <<simVars, sinkVars, log, queue, buf, link, wire, got, since>>

(* Bytes leave the buffer: it is over-full, or flushed.                    *)
Push(c) ==
  /\ writer[c] \in {"write", "flush"}
  /\ buf[c] # <<>> /\ link[c] = "up" /\ Len(wire[c]) < Window
  /\ wire' = [wire EXCEPT ![c] = Append(@, Head(buf[c]))]
  /\ buf' = [buf EXCEPT ![c] = Tail(@)]
  /\ UNCHANGED <<simVars, sinkVars, log, queue, writer, link, got, since>>

(* write_all or flush fails; the queue goes with its receiver.             *)
WriteFails(c) ==
  /\ writer[c] \in {"write", "flush"}
  /\ buf[c] # <<>> /\ link[c] # "up"
  /\ writer' = [writer EXCEPT ![c] = "done"]
  /\ buf' = [buf EXCEPT ![c] = <<>>]
  /\ queue' = [queue EXCEPT ![c] = <<>>]
  /\ UNCHANGED <<simVars, sinkVars, log, link, wire, got, since>>

Flushed(c) ==
  /\ writer[c] = "flush"
  /\ buf[c] = <<>>
  /\ writer' = [writer EXCEPT ![c] = "recv"]
  /\ UNCHANGED <<simVars, sinkVars, log, queue, buf, link, wire, got, since>>

WriterStep(c) ==
  \/ Recv(c) \/ RecvEnds(c) \/ TryRecv(c) \/ TryRecvEmpty(c)
  \/ Push(c) \/ WriteFails(c) \/ Flushed(c)

-----------------------------------------------------------------------------
(* The network, the other end and the process                              *)

Receive(c) ==
  /\ wire[c] # <<>>
  /\ got' = [got EXCEPT ![c] = Append(@, Head(wire[c]))]
  /\ wire' = [wire EXCEPT ![c] = Tail(@)]
  /\ UNCHANGED <<simVars, sinkVars, log, queue, buf, writer, link, since>>

(* The connection fails, or the other end closes it; what was in flight    *)
(* may be lost.  (One that fails in the backlog is accepted all the same.) *)
Break(c) ==
  /\ link[c] \in {"up", "fin"}
  /\ link' = [link EXCEPT ![c] = "cut"]
  /\ \/ wire' = [wire EXCEPT ![c] = <<>>]
     \/ UNCHANGED wire
  /\ UNCHANGED <<simVars, sinkVars, log, queue, buf, writer, got, since>>

(* With the simulation's process end the writer threads: close does not    *)
(* wait for them.  A record may be cut short.                              *)
Exit(next, short) ==
  /\ ProcessEnds(next)
  /\ Cleared
  /\ accept' = "none" /\ own' = "none"
  /\ writer' = [c \in Conns |-> IF writer[c] = "none" THEN "none" ELSE "done"]
  /\ queue' = [c \in Conns |-> <<>>]
  /\ buf' = [c \in Conns |-> <<>>]
  /\ link' = [c \in Conns |->
       IF link[c] \in {"pending", "taken", "up"} THEN IF c \in short THEN "cut" ELSE "fin"
       ELSE link[c]]
  /\ UNCHANGED <<wire, got, since>>

SimWrites == \E r \in {script[i] : i \in DOMAIN script} : LET k == Len(log) + 1 IN
  \/ AddChannel(r, k)
  \/ WriteMeta(r, k) \/ WriteEpisode(r, k) \/ WriteRoute(r, k) \/ WriteOther(r, k)

SimStep ==
  \/ SimWrites
  \/ Bind \/ Close
  \/ \E seed \in Seeds : Reset(seed) /\ UNCHANGED <<sinkVars, connVars>>
  \/ \E replaced, due \in BOOLEAN :
       Tick(replaced, due, clients # {}) /\ UNCHANGED <<sinkVars, connVars>>

Next ==
  \/ SimStep
  \/ CloseConnects \/ CloseJoins
  \/ AcceptThread
  \/ \E c \in Conns : WriterStep(c)
  \/ \E c \in Conns : Connect(c) \/ Receive(c) \/ Break(c)
  \/ \E next \in FreshWorlds, short \in SUBSET Conns : Exit(next, short)

Spec == Init /\ [][Next]_vars

(* The threads of the process run on, and the other ends read.             *)
FairSpec ==
  /\ Spec
  /\ WF_vars(SimWrites) /\ WF_vars(CloseConnects) /\ WF_vars(CloseJoins)
  /\ WF_vars(AcceptThread)
  /\ \A c \in Conns : WF_vars(WriterStep(c)) /\ WF_vars(Receive(c))

-----------------------------------------------------------------------------
(* Properties                                                              *)

Feed == INSTANCE Broadcast WITH
  Viewers <- Conns, served <- {c \in clients : link[c] = "up"}

(* All that is on its way to the other end of a connection, or there.      *)
Given(c) ==
  got[c] \o wire[c] \o
    (IF link[c] = "up" THEN buf[c] \o FlattenSeq(queue[c]) ELSE <<>>)

(* Each connection carries the start and then the live records in order,   *)
(* none missing and none twice; one the sink still writes to carries all   *)
(* there are (the module's doc; try_send, retain and the accept thread).   *)
Unbroken == \A c \in Conns : since[c] # Absent =>
  /\ IsPrefix(Given(c), Feed!Promise(c))
  /\ c \in clients /\ link[c] = "up" => Given(c) = Feed!Promise(c)

(* A viewer is given up for its own lag or failure, never for another's,   *)
(* until the stream ends (write's retain).                                 *)
DroppedForCause == [][\A c \in clients \ clients' :
  Len(queue[c]) = Queue \/ link[c] # "up" \/ sink' # "up"]_vars

(* The reader can make sense of what it reads as it comes: a channel       *)
(* before its messages, an episode's /episode before its routes and states.*)
(* (StreamReader's and Recording::push's errors do not occur.)             *)
ReaderUnderstands == \A c \in Conns : \A j \in DOMAIN got[c] :
  LET Before(i) == {got[c][h] : h \in 1 .. (i - 1)} \ {0}
      r == log[got[c][j]]
  IN got[c][j] # 0 /\ r.op = "message" =>
       /\ \E k \in Before(j) : /\ log[k].op = "channel"
                               /\ (log[k].topic = "/state") = (r.topic = "/state")
       /\ r.topic \in {"/route", "/state"} =>
            \E k \in Before(j) :
              /\ log[k] = [log[k] EXCEPT !.op = "message", !.topic = "/episode",
                                         !.run = r.run, !.episode = r.episode]
              /\ \A h \in Before(j) : log[h].topic = "/episode" => h <= k

(* The stream is the broadcast it promises to be: every step is one of its *)
(* steps or none; and who is held on to is given everything.               *)
IsFairFeed == Feed!FairSpec

(* The simulation never waits for a viewer: what a call of the recorder    *)
(* writes it finishes writing though no connection moves a byte.           *)
NeverWaits == script # <<>> => ENABLED SimWrites

(* finish returns unless its connection to itself fails; and then it does  *)
(* as soon as any viewer connects, whose connection may have been on its   *)
(* way, or in the thread's hands, when closed was stored (close and        *)
(* accept_loop).                                                           *)
CloseReturns ==
  /\ sink = "closing" ~> sink # "closing" \/ (own = "failed" /\ accept = "runs")
  /\ \A c \in Conns : sink = "closing" /\ link[c] = "pending" ~> sink # "closing"
=============================================================================
