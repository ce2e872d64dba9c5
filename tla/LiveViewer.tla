----------------------------- MODULE LiveViewer ------------------------------
(***************************************************************************)
(* A viewer attached to a running simulation (crates/viewer/src/attach.rs  *)
(* with Recording::push of crates/sim/src/record.rs): the thread that      *)
(* reads the stream and connects again, the feed it sends the viewer, and  *)
(* the recording the viewer makes of it.                                   *)
(*                                                                         *)
(* The stream between them is the one of Broadcast, which LiveStream is    *)
(* shown to implement: a connection delivers what is promised, in order,   *)
(* and may be given up at any time.                                        *)
(***************************************************************************)
EXTENDS Recorder, FiniteSets, SequencesExt

CONSTANTS
  Keep,       \* episodes kept for scrubbing back (KEEP, 50 in the code)
  MaxLosses,  \* bounds of the model: connections lost while the stream goes on,
  MaxFeed     \*   what the thread may have sent and the viewer not taken

ASSUME LiveViewerAssumption ==
  /\ Keep \in Nat \ {0}
  /\ {MaxLosses, MaxFeed} \subseteq Nat

VARIABLES
  losses,     \* connections lost, of MaxLosses
  line,       \* the thread's connection: "off", "pending", served or "given up"
  since, got, \* when it was accepted, and what was read of it
  lastError,
  feed,       \* sent by the thread and not yet taken
  phase,      \* the viewer is in "connect" or calls "poll"; or it gave up
  rec,        \* scenario of the Recording's meta: <<sc>>, or <<>> for none
  shown,      \* its episodes
  status, foreign, resumed, dropped

recorderVars == <<simVars, log>>
lineVars == <<losses, line, since, got>>
mainVars == <<phase, rec, shown, status, foreign, resumed, dropped>>
vars == <<recorderVars, lineVars, lastError, feed, mainVars>>

Stream == INSTANCE Broadcast WITH
  Viewers <- {1}, since <- <<since>>, got <- <<got>>,
  served <- IF line = "served" THEN {1} ELSE {}

Absent == [run |-> 0, at |-> 0]
Promise == Stream!Promise(1)

(* An episode of the recording, by records: its /episode, /route, /state.  *)
Shown(k) == [of |-> k, updates |-> <<>>, states |-> <<>>]

Connected(k) == [kind |-> "connected", record |-> k, error |-> ""]
Arrived(k) == [kind |-> "message", record |-> k, error |-> ""]
Disconnected(e) == [kind |-> "disconnected", record |-> 0, error |-> e]

Init ==
  /\ InitRecorder
  /\ losses = 0 /\ line = "off" /\ since = Absent /\ got = <<>>
  /\ lastError = "" /\ feed = <<>>
  /\ phase = "connect" /\ rec = <<>> /\ shown = <<>>
  /\ status = "none" /\ foreign = FALSE /\ resumed = FALSE /\ dropped = 0

-----------------------------------------------------------------------------
(* The simulation: the recorder, and what becomes of the viewer's line.    *)
(* There may be other viewers, so that live() may hold without this one.   *)

viewerVars == <<lastError, feed, mainVars>>

Simulates ==
  /\ \/ Attach
     \/ \E seed \in Seeds : Reset(seed)
     \/ \E replaced, due, others \in BOOLEAN : Tick(replaced, due, line = "served" \/ others)
  /\ UNCHANGED <<lineVars, viewerVars>>

RecorderWrites ==
  /\ \E r \in {script[i] : i \in DOMAIN script} : Writes(r, Len(log) + 1)
  /\ UNCHANGED <<lineVars, viewerVars>>

LineEnds(states) ==
  /\ line' = IF line \in states THEN "given up" ELSE line
  /\ UNCHANGED <<losses, since, got, viewerVars>>

(* The sink closes; when it has, what waited in the backlog goes too; or   *)
(* its process ends.                                                       *)
StreamEnds ==
  \/ Finish /\ LineEnds({"served"})
  \/ Finished /\ LineEnds({"pending"})
  \/ \E next \in FreshWorlds : ProcessEnds(next) /\ LineEnds({"pending", "served"})

Accepted ==
  /\ line = "pending" /\ sink = "up"
  /\ line' = "served"
  /\ since' = [run |-> run, at |-> Len(log)]
  /\ UNCHANGED <<recorderVars, losses, got, viewerVars>>

(* The queue is full, the connection fails, or it was never served.        *)
GiveUp ==
  /\ line \in {"pending", "served"}
  /\ line' = "given up"
  /\ losses < MaxLosses /\ losses' = losses + 1
  /\ UNCHANGED <<recorderVars, since, got, viewerVars>>

-----------------------------------------------------------------------------
(* The reader thread: spawn's loop and read                                *)

(* The error is reported unless it is the one reported last.               *)
Failed(e) ==
  /\ lastError' = e
  /\ feed' = IF e # lastError THEN Append(feed, Disconnected(e)) ELSE feed

Dial ==
  /\ line = "off"
  /\ sink \in {"up", "closing"}
  /\ line' = "pending"
  /\ UNCHANGED <<recorderVars, losses, since, got, viewerVars>>

(* No listener: a closing sink's is gone when its accept thread has ended. *)
Refused ==
  /\ line = "off"
  /\ sink # "up"
  /\ Failed("refused")
  /\ UNCHANGED <<recorderVars, lineVars, mainVars>>

FirstMessage == \A i \in DOMAIN got : got[i] = 0 \/ log[got[i]].op = "channel"

(* A record arrives; what is not a message StreamReader keeps to itself.   *)
(* The first message is /meta, which read checks: Promise begins with it.  *)
Read ==
  /\ line \in {"served", "given up"} /\ since # Absent
  /\ Len(got) < Len(Promise) /\ Len(feed) < MaxFeed
  /\ LET k == Promise[Len(got) + 1] IN
       /\ got' = Append(got, k)
       /\ feed' = IF k = 0 THEN feed
                  ELSE IF log[k].op = "channel" THEN feed
                  ELSE Append(feed, IF FirstMessage THEN Connected(k) ELSE Arrived(k))
  /\ UNCHANGED <<recorderVars, losses, line, since, lastError, mainVars>>

(* Slip: the thread ends at a failure that is not its first.               *)
ReadEndsForGood ==
  /\ line = "given up"
  /\ line' = IF lastError = "" THEN "off" ELSE "ended"
  /\ since' = Absent /\ got' = <<>>
  /\ \/ got # <<>> /\ Failed("ended")
     \/ Failed("cut")
  /\ UNCHANGED <<recorderVars, losses, mainVars>>

(* The input ends: between two records; or within one, before the magic or *)
(* with an error.  The thread connects again.                              *)
ReadEnds ==
  /\ line = "given up"
  /\ line' = "off" /\ since' = Absent /\ got' = <<>>
  /\ \/ got # <<>> /\ Failed("ended")
     \/ Failed("cut")
  /\ UNCHANGED <<recorderVars, losses, mainVars>>

-----------------------------------------------------------------------------
(* The viewer                                                              *)

(* Recording::push.                                                        *)
Pushed(k) ==
  LET n == Len(shown) IN
    CASE log[k].topic = "/episode" -> Append(shown, Shown(k))
      [] shown # <<>> /\ log[k].topic = "/route" -> [shown EXCEPT ![n].updates = Append(@, k)]
      [] shown # <<>> /\ log[k].topic = "/state" -> [shown EXCEPT ![n].states = Append(@, k)]
      [] OTHER -> shown

PushFails(k) == shown = <<>> /\ log[k].topic # "/episode"

Take(kind) ==
  /\ feed # <<>> /\ Head(feed).kind = kind
  /\ feed' = Tail(feed)
  /\ UNCHANGED <<recorderVars, lineVars, lastError>>

(* connect, until an episode has states.                                   *)
ConnectDisconnected ==
  /\ phase = "connect"
  /\ Take("disconnected")
  /\ rec' = <<>> /\ shown' = <<>>
  /\ UNCHANGED <<phase, status, foreign, resumed, dropped>>

ConnectConnected ==
  /\ phase = "connect"
  /\ Take("connected")
  /\ rec' = <<log[Head(feed).record].scenario>> /\ shown' = <<>>
  /\ UNCHANGED <<phase, status, foreign, resumed, dropped>>

ConnectMessage ==
  /\ phase = "connect"
  /\ Take("message")
  /\ LET k == Head(feed).record IN
       /\ shown' = IF rec # <<>> THEN Pushed(k) ELSE shown
       /\ phase' = IF rec # <<>> /\ PushFails(k) THEN "failed"
                   ELSE IF shown' # <<>> /\ shown'[Len(shown')].states # <<>> THEN "poll"
                   ELSE "connect"
  /\ UNCHANGED <<rec, status, foreign, resumed, dropped>>

(* KEEP episodes stay.                                                     *)
Kept(s) == IF Len(s) > Keep THEN SubSeq(s, Len(s) - Keep + 1, Len(s)) ELSE s

(* poll, taking one of the messages it finds, and its end.                 *)
Poll(kind, s) ==
  /\ phase = "poll"
  /\ Take(kind)
  /\ shown' = Kept(s)
  /\ dropped' = dropped + (Len(s) - Len(Kept(s)))
  /\ UNCHANGED <<phase, rec>>

(* Slip: the viewer gives up at the first loss.                            *)
PollDisconnectedStops ==
  /\ phase = "poll" /\ phase' = "failed"
  /\ Take("disconnected")
  /\ UNCHANGED <<rec, shown, status, foreign, resumed, dropped>>

PollDisconnected ==
  /\ Poll("disconnected", shown)
  /\ status' = "lost"
  /\ UNCHANGED <<foreign, resumed>>

PollConnected ==
  /\ Poll("connected", shown)
  /\ foreign' = (rec # <<log[Head(feed).record].scenario>>)
  /\ resumed' = TRUE
  /\ status' = IF foreign' THEN "another run" ELSE "none"

PollForeign ==
  /\ foreign
  /\ Poll("message", shown)
  /\ UNCHANGED <<status, foreign, resumed>>

(* An /episode's number and seed.                                          *)
EpisodeId(k) == <<log[k].episode, log[k].seed>>

(* Slip: the numbers are compared and the seeds are not.                   *)
GoesOnNumber(k) ==
  resumed /\ shown # <<>> /\ log[k].episode = log[shown[Len(shown)].of].episode

(* The episode shown when the connection was lost goes on.                 *)
GoesOn(k) == resumed /\ shown # <<>> /\ EpisodeId(k) = EpisodeId(shown[Len(shown)].of)

PollEpisode ==
  /\ ~foreign
  /\ LET k == Head(feed).record IN
       /\ Poll("message", IF GoesOn(k) THEN shown ELSE Pushed(k))
       /\ log[k].topic = "/episode"
  /\ resumed' = FALSE
  /\ UNCHANGED <<status, foreign>>

PollMessage ==
  /\ ~foreign
  /\ LET k == Head(feed).record IN
       /\ Poll("message", Pushed(k))
       /\ log[k].topic # "/episode"
       /\ status' = IF PushFails(k) THEN "error" ELSE status
  /\ UNCHANGED <<foreign, resumed>>

Reader == Dial \/ Refused \/ Read \/ ReadEnds

Viewer ==
  \/ ConnectDisconnected \/ ConnectConnected \/ ConnectMessage
  \/ PollDisconnected \/ PollConnected \/ PollForeign \/ PollEpisode \/ PollMessage

Next == Simulates \/ RecorderWrites \/ StreamEnds \/ Accepted \/ GiveUp \/ Reader \/ Viewer

Spec == Init /\ [][Next]_vars

(* The threads run on, and the viewer calls poll every frame.              *)
FairSpec ==
  /\ Spec
  /\ WF_vars(RecorderWrites)
  /\ WF_vars(Accepted) /\ WF_vars(Reader) /\ WF_vars(Viewer)

-----------------------------------------------------------------------------
(* Properties                                                              *)

Records(e) == {e.of} \cup Range(e.updates) \cup Range(e.states)

(* A recording mixes no scenarios, and its episodes no episodes: what is   *)
(* shown in one was recorded in one of its number and seed, whatever       *)
(* reconnections, resets and restarts came between (poll's foreign and     *)
(* resumed).                                                               *)
RightEpisode == \A i \in DOMAIN shown : \A k \in Records(shown[i]) :
  /\ rec = <<log[k].scenario>>
  /\ EpisodeId(k) = EpisodeId(shown[i].of)

(* Everything written has been shown, and the stream goes on.              *)
UpToDate ==
  /\ phase = "poll" /\ ~foreign /\ feed = <<>> /\ script = <<>>
  /\ line = "served" /\ got = Promise

LastShown == shown[Len(shown)]

(* Where partition_point may find the end of the updates before t: it      *)
(* takes them to be in time order.                                         *)
Points(updates, t) == {k \in 0 .. Len(updates) :
  /\ k > 0 => log[updates[k]].time <= t
  /\ k < Len(updates) => log[updates[k + 1]].time > t}

RouteAt(e, k) == log[IF k > 0 THEN e.updates[k] ELSE e.of].route

(* A viewer that has read everything shows the world's episode, and an     *)
(* agent on the route it has (route_at), reconnected or not, though the    *)
(* episode's cached /route updates are recorded again on each reconnection.*)
ShowsTheWorld == UpToDate =>
  /\ EpisodeId(LastShown.of) = <<episodes - 1, world.seed>>
  /\ \A k \in Points(LastShown.updates, world.time) : RouteAt(LastShown, k) = world.route

(* A viewer between two connections, told all the thread has to tell, says *)
(* why it does not follow the stream (Live::status).                       *)
LossIsSaid == phase = "poll" /\ line = "off" /\ feed = <<>> => status # "none"

(* What is written reaches the recording of a viewer that is not given up. *)
ReachesTheViewer ==
  (line = "served" /\ (got # Promise \/ feed # <<>>))
    ~> (line # "served" \/ (got = Promise /\ feed = <<>>))

(* However often the connection was lost or refused before, a viewer ends  *)
(* up following a stream that stays up, if its connections are lost only   *)
(* finitely often (MaxLosses): the thread never gives up (spawn's loop).   *)
Reconnects == <>[](sink = "up") => <>[](line = "served")
=============================================================================
