------------------------------ MODULE Broadcast ------------------------------
(***************************************************************************)
(* What a live stream promises its viewers (crates/sim/src/stream.rs, the  *)
(* module's doc): whoever connects is given a start - a header, the        *)
(* channels, the last /meta, the last /episode and the /route updates      *)
(* since - and from there every record in order, until it is cut off.      *)
(*                                                                         *)
(* Records are named by their place in log, the history of everything the  *)
(* recorders have handed to the stream; 0 is the magic and header.         *)
(***************************************************************************)
EXTENDS Listings

CONSTANT Viewers

VARIABLES
  log,     \* every record so far: what it is and the run it belongs to
  run,     \* number of the present run (each run has a stream of its own)
  since,   \* viewer -> [run, at]: its run, and what log held when it came
  served,  \* viewers the stream holds on to
  got      \* viewer -> records it has been given

vars == <<log, run, since, served, got>>

Header == 0
Absent == [run |-> 0, at |-> 0]

(* Records of run r among the first n of the log.                          *)
Of(r, n) == {i \in 1 .. n : log[i].run = r}
Messages(r, n, topic) == {i \in Of(r, n) : log[i].op = "message" /\ log[i].topic = topic}
Channels(r, n) == {i \in Of(r, n) : log[i].op = "channel"}

(* The latest of a set of records, if any.                                 *)
Latest(S) == {i \in S : \A j \in S : j <= i}
After(S, T) == {i \in S : \A j \in T : j < i}

Meta(r, n) == Latest(Messages(r, n, "/meta"))
Episode(r, n) == Latest(After(Messages(r, n, "/episode"), Meta(r, n)))
Routes(r, n) ==
  After(Messages(r, n, "/route"), Messages(r, n, "/meta") \cup Messages(r, n, "/episode"))

Ordered(S) == InOrder(S, Len(log))

(* What a viewer of run r is given that came when the log had n records.   *)
Start(r, n) ==
  <<Header>> \o Ordered(Channels(r, n))
             \o Ordered(Meta(r, n) \cup Episode(r, n) \cup Routes(r, n))

Promise(v) ==
  LET s == since[v] IN
    Start(s.run, s.at) \o Ordered(Of(s.run, Len(log)) \ (1 .. s.at))

Init ==
  /\ log = <<>>
  /\ run = 0
  /\ since = [v \in Viewers |-> Absent]
  /\ served = {}
  /\ got = [v \in Viewers |-> <<>>]

NewRun ==
  /\ run' = run + 1
  /\ served' = {}
  /\ UNCHANGED <<log, since, got>>

(* A record reaches the stream; viewers may be given up over it.           *)
Record ==
  /\ Len(log') = Len(log) + 1
  /\ log' = Append(log, log'[Len(log')])
  /\ log'[Len(log')].run = run
  /\ served' \subseteq served
  /\ UNCHANGED <<run, since, got>>

Join(v) ==
  /\ since[v] = Absent
  /\ since' = [since EXCEPT ![v] = [run |-> run, at |-> Len(log)]]
  /\ served' = served \cup {v}
  /\ UNCHANGED <<log, run, got>>

Drop(v) == served' = served \ {v} /\ UNCHANGED <<log, run, since, got>>
DropAll == served' = {} /\ UNCHANGED <<log, run, since, got>>

(* The next promised record, and none else.                                *)
Deliver(v) ==
  /\ since[v] # Absent
  /\ Len(got[v]) < Len(Promise(v))
  /\ got' = [got EXCEPT ![v] = Append(@, Promise(v)[Len(@) + 1])]
  /\ UNCHANGED <<log, run, since, served>>

Next ==
  \/ NewRun
  \/ Record
  \/ DropAll
  \/ \E v \in Viewers : Join(v) \/ Drop(v) \/ Deliver(v)

Spec == Init /\ [][Next]_vars

(* A viewer the stream holds on to is given everything.                    *)
FairSpec == Spec /\ \A v \in Viewers : WF_vars(v \in served /\ Deliver(v))
=============================================================================
