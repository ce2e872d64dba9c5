--------------------------- MODULE LiveViewerProofs ----------------------------
(***************************************************************************)
(* Proofs about LiveViewer, for any scenarios, seeds, bounds and number of *)
(* episodes kept: the viewer's recording mixes no episodes, and a viewer   *)
(* that has taken all there is shows the world as it is.                   *)
(*                                                                         *)
(* The recording is right because the feed is: of two items in turn the    *)
(* second, if a message, is of the first's run, and opens an episode or    *)
(* goes on with the first's (Follows).  Linked says so of the whole feed,  *)
(* after the item the viewer took last, x; Stands says what the viewer     *)
(* made of x; and Ends ties the feed's end to what the thread read last.   *)
(* What is shown is the world's because the log's latest /episode or       *)
(* /route says the world's route (WorldWritten), because nothing that says *)
(* one is passed over between two items (Between, in Follows), and because *)
(* a viewer's last update is the latest of its episode (OnRoute).          *)
(***************************************************************************)
EXTENDS LiveViewer, StreamLemmas

Item == [kind : {"connected", "message", "disconnected"}, record : Nat,
         error : {"", "refused", "ended", "cut"}]
EpisodeShown == [of : Nat, updates : Seq(Nat), states : Seq(Nat)]

Id(L, k) == <<L[k].episode, L[k].seed>>

(* What is shown in an episode is in the log, and of that episode, and in  *)
(* its place.                                                              *)
Placed(L, e) == L[e.of].topic = "/episode" /\ \A k \in Range(e.updates) : L[k].topic = "/route"
Right(L, c, s) == \A i \in DOMAIN s :
  /\ Placed(L, s[i])
  /\ \A k \in Records(s[i]) :
       k \in DOMAIN L /\ c = <<L[k].scenario>> /\ Id(L, k) = Id(L, s[i].of)

Known(L, y) == y.kind # "disconnected" => y.record \in DOMAIN L
Follows(L, x, y) == y.kind = "message" =>
  /\ x.kind # "disconnected" /\ L[x.record].run = L[y.record].run
  /\ \/ L[y.record].topic = "/episode"
     \/ x.kind = "message" /\ Id(L, x.record) = Id(L, y.record)
  /\ L[y.record].topic \notin {"/episode", "/route"} => Between(L, x.record, y.record)

Linked(L, x, q) == \A i \in DOMAIN q :
  Known(L, q[i]) /\ Follows(L, IF i = 1 THEN x ELSE q[i - 1], q[i])
LastOf(x, q) == IF q = <<>> THEN x ELSE q[Len(q)]

LastSent(L, g, i) == Sent(L, g, i) /\ \A j \in DOMAIN g : i < j => ~Sent(L, g, j)
Ends(L, g, y) == \A i \in DOMAIN g : LastSent(L, g, i) =>
  /\ y.kind # "disconnected" /\ y.record = g[i]
  /\ y.kind = "connected" => L[g[i]].topic = "/meta"

(* If the latest record up to k that says a route is a /route, it is the   *)
(* latest update of the episode shown.                                     *)
UpTo(L, k) == Earlier(L, k) \cup {k}
LatestRoute(L, k, j) ==
  /\ j \in UpTo(L, k) /\ L[j].topic = "/route"
  /\ \A h \in UpTo(L, k) : Routing(L, h) => h <= j
OnRoute(L, k, e) == \A j : LatestRoute(L, k, j) =>
  e.updates # <<>> /\ e.updates[Len(e.updates)] = j

Stands(x) ==
  /\ x.kind = "connected" /\ phase = "connect" => rec = <<log[x.record].scenario>> /\ shown = <<>>
  /\ x.kind = "connected" /\ phase = "poll" => resumed /\ foreign = (rec # <<log[x.record].scenario>>)
  /\ x.kind = "message" /\ (phase = "connect" \/ (phase = "poll" /\ ~foreign)) =>
       /\ rec = <<log[x.record].scenario>>
       /\ shown # <<>> /\ Id(log, x.record) = Id(log, shown[Len(shown)].of)
       /\ OnRoute(log, x.record, shown[Len(shown)])

Chain(x) ==
  Known(log, x) /\ Stands(x) /\ Linked(log, x, feed) /\ Ends(log, got, LastOf(x, feed))

(* g is the beginning of what the connection accepted at s is promised.    *)
GivenOf(L, s, g) ==
  /\ s \in [run : Nat, at : Nat] /\ s.at <= Len(L)
  /\ g \in Seq(Nat) /\ Len(g) <= Len(Promised(L, s.run, s.at))
  /\ \A i \in DOMAIN g : g[i] = Promised(L, s.run, s.at)[i]

VInv ==
  /\ RecorderOK
  /\ GivenOf(log, since, got) /\ (line \in {"off", "pending"} => got = <<>>)
  /\ feed \in Seq(Item)
  /\ shown \in Seq(EpisodeShown) /\ Right(log, rec, shown)
  /\ \E x \in Item : Chain(x)

-----------------------------------------------------------------------------
(* The feed                                                                *)

LEMMA LinkedTail ==
  ASSUME NEW L, NEW x, NEW q \in Seq(Item), q # <<>>, Linked(L, x, q), NEW y, y = Head(q), NEW t, t = Tail(q)
  PROVE  /\ y \in Item /\ t \in Seq(Item) /\ Known(L, y) /\ Follows(L, x, y)
         /\ Linked(L, y, t)
<1>1. PICK n \in Nat : n = Len(q) /\ DOMAIN q = 1 .. n /\ n # 0
  OBVIOUS
<1>2. /\ y = q[1] /\ y \in Item /\ t \in Seq(Item) /\ Len(t) = n - 1 /\ DOMAIN t = 1 .. (n - 1)
      /\ \A i \in 1 .. (n - 1) : t[i] = q[i + 1]
  BY <1>1
<1>3. 1 \in DOMAIN q
  BY <1>1
<1>4. Known(L, y) /\ Follows(L, x, y)
  BY <1>2, <1>3 DEF Linked
<1>5. Linked(L, y, t)
  <2> SUFFICES ASSUME NEW i \in DOMAIN t PROVE Known(L, t[i]) /\ Follows(L, IF i = 1 THEN y ELSE t[i - 1], t[i])
    BY DEF Linked
  <2>1. i + 1 \in DOMAIN q /\ i + 1 # 1 /\ (i + 1) - 1 = i /\ t[i] = q[i + 1]
    BY <1>1, <1>2
  <2>2. Known(L, q[i + 1]) /\ Follows(L, q[i], q[i + 1])
    BY <2>1 DEF Linked
  <2>3. (IF i = 1 THEN y ELSE t[i - 1]) = q[i]
    BY <1>1, <1>2
  <2> QED BY <2>1, <2>2, <2>3
<1> QED BY <1>2, <1>4, <1>5

LEMMA LastOfTail ==
  ASSUME NEW x, NEW q \in Seq(Item), q # <<>> PROVE LastOf(Head(q), Tail(q)) = LastOf(x, q)
<1>1. PICK n, t : n = Len(q) /\ t = Tail(q)
  OBVIOUS
<1>2. n \in Nat /\ n # 0 /\ t \in Seq(Item) /\ Len(t) = n - 1 /\ \A i \in 1 .. (n - 1) : t[i] = q[i + 1]
  BY <1>1
<1>3. CASE n = 1
  <2>1. t = <<>> /\ Head(q) = q[1]
    BY <1>2, <1>3
  <2> QED BY <1>1, <1>3, <2>1 DEF LastOf
<1>4. CASE n # 1
  <2>1. n - 1 \in 1 .. (n - 1) /\ (n - 1) + 1 = n
    BY <1>2, <1>4
  <2>2. t # <<>> /\ t[n - 1] = q[n]
    BY <1>2, <2>1
  <2> QED BY <1>1, <1>2, <2>2 DEF LastOf
<1> QED BY <1>3, <1>4

LEMMA LinkedAppend ==
  ASSUME NEW L, NEW x, NEW q \in Seq(Item), Linked(L, x, q), NEW y \in Item, Known(L, y), Follows(L, LastOf(x, q), y)
  PROVE  Append(q, y) \in Seq(Item) /\ Linked(L, x, Append(q, y)) /\ LastOf(x, Append(q, y)) = y
<1>1. PICK n, t : n = Len(q) /\ t = Append(q, y)
  OBVIOUS
<1>2. /\ n \in Nat /\ DOMAIN q = 1 .. n /\ t \in Seq(Item) /\ Len(t) = n + 1 /\ DOMAIN t = 1 .. (n + 1) /\ t[n + 1] = y /\ t # <<>>
      /\ \A i \in 1 .. n : t[i] = q[i]
  BY <1>1
<1>3. ASSUME NEW i \in DOMAIN t PROVE Known(L, t[i]) /\ Follows(L, IF i = 1 THEN x ELSE t[i - 1], t[i])
  <2>1. CASE i \in 1 .. n
    <3>1. (IF i = 1 THEN x ELSE t[i - 1]) = (IF i = 1 THEN x ELSE q[i - 1]) /\ t[i] = q[i]
      BY <1>2, <2>1
    <3> QED BY <1>2, <2>1, <3>1 DEF Linked
  <2>2. CASE i = n + 1
    <3>1. (IF i = 1 THEN x ELSE t[i - 1]) = LastOf(x, q)
      <4>1. CASE n = 0
        <5>1. q = <<>>
          <6>1. Len(q) = 0
            BY <1>1, <4>1
          <6> QED BY <6>1
        <5> QED BY <2>2, <4>1, <5>1 DEF LastOf
      <4>2. CASE n # 0
        BY <1>1, <1>2, <2>2, <4>2 DEF LastOf
      <4> QED BY <4>1, <4>2
    <3> QED BY <1>2, <2>2, <3>1
  <2> QED BY <1>2, <2>1, <2>2
<1>4. Linked(L, x, t)
  BY <1>3 DEF Linked
<1> QED BY <1>1, <1>2, <1>4 DEF LastOf

(* The log only grows, and what is said of records in it stays.            *)
Extends(L, M) == \A i \in DOMAIN L : i \in DOMAIN M /\ M[i] = L[i]

LEMMA AppendExtends == ASSUME NEW L \in Seq(Record), NEW x PROVE Extends(L, Append(L, x))
  BY DEF Extends

LEMMA RightStays ==
  ASSUME NEW L, NEW M, Extends(L, M), NEW c, NEW s, Right(L, c, s) PROVE Right(M, c, s)
<1>1. \A i \in DOMAIN s : s[i].of \in Records(s[i]) /\ Range(s[i].updates) \subseteq Records(s[i])
  BY DEF Records
<1>2. \A i \in DOMAIN s : \A k \in Records(s[i]) : k \in DOMAIN L /\ k \in DOMAIN M /\ M[k] = L[k]
  BY DEF Right, Extends
<1>3. ASSUME NEW i \in DOMAIN s PROVE Placed(M, s[i])
  BY <1>1, <1>2 DEF Right, Placed
<1>4. ASSUME NEW i \in DOMAIN s, NEW k \in Records(s[i])
      PROVE  k \in DOMAIN M /\ c = <<M[k].scenario>> /\ Id(M, k) = Id(M, s[i].of)
  BY <1>1, <1>2 DEF Right, Id
<1> QED BY <1>3, <1>4 DEF Right

LEMMA EarlierStays ==
  ASSUME NEW L \in Seq(Record), NEW M, Extends(L, M), NEW b \in DOMAIN L
  PROVE  Earlier(M, b) = Earlier(L, b) /\ M[b] = L[b] /\ \A i \in Earlier(L, b) : i \in DOMAIN L /\ M[i] = L[i]
<1>1. \A i \in 1 .. (b - 1) : i \in DOMAIN L
  OBVIOUS
<1>2. M[b] = L[b] /\ \A i \in 1 .. (b - 1) : M[i] = L[i]
  BY <1>1 DEF Extends
<1> QED BY <1>1, <1>2 DEF Earlier

LEMMA LinkedStays ==
  ASSUME NEW L \in Seq(Record), NEW M, Extends(L, M), NEW x, NEW q \in Seq(Item), Known(L, x), Linked(L, x, q)
  PROVE  Known(M, x) /\ Linked(M, x, q)
<1>1. \A y : Known(L, y) => Known(M, y)
  BY DEF Extends, Known
<1>2. ASSUME NEW y, NEW z, Known(L, y), Known(L, z), Follows(L, y, z) PROVE Follows(M, y, z)
  <2> SUFFICES ASSUME z.kind = "message" PROVE Follows(M, y, z)
    BY <1>2 DEF Follows
  <2>1. PICK a, b : a = y.record /\ b = z.record
    OBVIOUS
  <2>2. a \in DOMAIN L /\ b \in DOMAIN L
    BY <1>2, <2>1 DEF Known, Follows
  <2>3. M[a] = L[a] /\ M[b] = L[b] /\ Earlier(M, b) = Earlier(L, b) /\ \A i \in Earlier(L, b) : M[i] = L[i]
    BY <2>2, EarlierStays
  <2>4. Between(L, a, b) => Between(M, a, b)
    BY <2>3 DEF Between, Routing, IsOn
  <2> QED BY <1>2, <2>1, <2>3, <2>4 DEF Follows, Id
<1>3. ASSUME NEW i \in DOMAIN q PROVE Known(M, q[i]) /\ Follows(M, IF i = 1 THEN x ELSE q[i - 1], q[i])
  <2>1. Known(L, q[i]) /\ Follows(L, IF i = 1 THEN x ELSE q[i - 1], q[i])
    BY DEF Linked
  <2>2. i # 1 => i - 1 \in DOMAIN q
    OBVIOUS
  <2>3. Known(L, IF i = 1 THEN x ELSE q[i - 1])
    BY <2>2 DEF Linked
  <2> QED BY <1>1, <1>2, <2>1, <2>3
<1> QED BY <1>1, <1>3 DEF Linked

LEMMA EndsStays ==
  ASSUME NEW L, NEW M, Extends(L, M), NEW g, \A i \in DOMAIN g : g[i] # 0 => g[i] \in DOMAIN L, NEW y, Ends(L, g, y)
  PROVE  Ends(M, g, y)
<1>1. \A i \in DOMAIN g : Sent(M, g, i) = Sent(L, g, i) /\ (Sent(M, g, i) => M[g[i]] = L[g[i]])
  BY DEF Extends, Sent
<1>2. \A i \in DOMAIN g : LastSent(M, g, i) => LastSent(L, g, i) /\ M[g[i]] = L[g[i]]
  BY <1>1 DEF LastSent
<1> QED BY <1>2 DEF Ends

(* What is promised stays and grows.                                       *)
LEMMA GivenStays ==
  ASSUME NEW L \in Seq(Record), NEW x, NEW s, NEW g, GivenOf(L, s, g) PROVE GivenOf(Append(L, x), s, g)
<1>1. PICK r, m, p, n : r = s.run /\ m = s.at /\ p = Promised(L, r, m) /\ n = Len(L)
  OBVIOUS
<1>2. n \in Nat /\ m \in 0 .. Len(L) /\ Len(Append(L, x)) = n + 1
  BY <1>1 DEF GivenOf
<1>3. p \in Seq(Nat)
  BY <1>1, <1>2, PromisedOrder
<1>4. Promised(Append(L, x), r, m) = IF x.run = r THEN Append(p, n + 1) ELSE p
  <2>1. Promised(Append(L, x), r, m)
           = IF x.run = r THEN Append(Promised(L, r, m), Len(L) + 1) ELSE Promised(L, r, m)
    BY <1>2, PromisedGrows
  <2> QED BY <1>1, <2>1
<1>5. PICK q : q = Promised(Append(L, x), r, m)
  OBVIOUS
<1>6. Len(p) <= Len(q) /\ \A i \in DOMAIN p : q[i] = p[i]
  <2>1. q = p \/ q = Append(p, n + 1)
    BY <1>4, <1>5
  <2> QED BY <1>2, <1>3, <2>1
<1>7. g \in Seq(Nat) /\ Len(g) <= Len(p) /\ \A i \in DOMAIN g : g[i] = p[i]
  BY <1>1 DEF GivenOf
<1>8. \A i \in DOMAIN g : i \in DOMAIN p
  BY <1>3, <1>7
<1>9. Len(q) \in Nat
  BY <1>2, <1>3, <1>4, <1>5
<1>10. Len(g) <= Len(q) /\ \A i \in DOMAIN g : g[i] = q[i]
  BY <1>3, <1>6, <1>7, <1>8, <1>9
<1>11. s.at <= Len(Append(L, x))
  BY <1>1, <1>2
<1> QED BY <1>1, <1>5, <1>10, <1>11 DEF GivenOf

LEMMA GivenKnown ==
  ASSUME NEW L \in Seq(Record), NEW s, NEW g, GivenOf(L, s, g)
  PROVE  \A i \in DOMAIN g : g[i] # 0 => g[i] \in DOMAIN L
<1>1. PICK r, m, p : r = s.run /\ m = s.at /\ p = Promised(L, r, m)
  OBVIOUS
<1>2. m \in 0 .. Len(L)
  BY <1>1 DEF GivenOf
<1>3. p \in Seq(Nat) /\ \A j \in DOMAIN p : p[j] # 0 => p[j] \in OfRun(L, r, Len(L))
  BY <1>1, <1>2, PromisedOrder
<1>4. \A i \in DOMAIN g : i \in DOMAIN p /\ g[i] = p[i]
  BY <1>1, <1>3 DEF GivenOf
<1>5. OfRun(L, r, Len(L)) \subseteq DOMAIN L
  BY DEF OfRun
<1> QED BY <1>3, <1>4, <1>5

-----------------------------------------------------------------------------
(* The recording                                                           *)

LEMMA RangeAppend == ASSUME NEW u \in Seq(Nat), NEW k \in Nat PROVE Range(Append(u, k)) = Range(u) \cup {k}
<1>1. PICK n, v : n = Len(u) /\ v = Append(u, k)
  OBVIOUS
<1>2. n \in Nat /\ DOMAIN u = 1 .. n /\ DOMAIN v = 1 .. (n + 1) /\ v[n + 1] = k /\ \A i \in 1 .. n : v[i] = u[i]
  BY <1>1
<1>3. 1 .. (n + 1) = (1 .. n) \cup {n + 1}
  BY <1>2
<1> QED BY <1>1, <1>2, <1>3 DEF Range

(* A message of the episode last shown, or an /episode, is added.          *)
LEMMA PushedRight ==
  ASSUME shown \in Seq(EpisodeShown), Right(log, rec, shown), log \in Seq(Record),
         NEW k \in DOMAIN log, rec = <<log[k].scenario>>,
         log[k].topic = "/episode" \/ (shown # <<>> /\ Id(log, k) = Id(log, shown[Len(shown)].of)),
         NEW s, s = Pushed(k)
  PROVE  /\ s \in Seq(EpisodeShown) /\ Right(log, rec, s)
         /\ s # <<>> /\ Id(log, k) = Id(log, s[Len(s)].of)
<1>1. PICK n : n = Len(shown) /\ n \in Nat /\ DOMAIN shown = 1 .. n
  OBVIOUS
<1>2. k \in Nat
  OBVIOUS
<1>3. CASE log[k].topic = "/episode"
  <2>1. PICK e : e = Shown(k)
    OBVIOUS
  <2>2. e \in EpisodeShown /\ Records(e) = {k} /\ e.of = k /\ Range(e.updates) = {}
    <3>1. Range(<<>>) = {}
      BY DEF Range
    <3> QED BY <1>2, <2>1, <3>1 DEF Shown, EpisodeShown, Records
  <2>3. s = Append(shown, e)
    BY <1>3, <2>1 DEF Pushed
  <2>4. /\ s \in Seq(EpisodeShown) /\ Len(s) = n + 1 /\ DOMAIN s = 1 .. (n + 1) /\ s[n + 1] = e /\ s # <<>>
        /\ \A i \in 1 .. n : s[i] = shown[i]
    BY <1>1, <2>2, <2>3
  <2>5. Right(log, rec, s)
    <3> SUFFICES ASSUME NEW i \in DOMAIN s
                 PROVE  /\ Placed(log, s[i])
                        /\ \A h \in Records(s[i]) :
                             h \in DOMAIN log /\ rec = <<log[h].scenario>> /\ Id(log, h) = Id(log, s[i].of)
      BY DEF Right
    <3>1. CASE i \in 1 .. n
      BY <1>1, <2>4, <3>1 DEF Right
    <3>2. CASE i = n + 1
      <4>1. Placed(log, e)
        BY <1>3, <2>2 DEF Placed
      <4> QED BY <2>2, <2>4, <3>2, <4>1
    <3> QED BY <1>1, <2>4, <3>1, <3>2
  <2> QED BY <2>2, <2>4, <2>5
<1>4. CASE log[k].topic # "/episode" /\ shown # <<>> /\ Id(log, k) = Id(log, shown[n].of)
  <2>1. n \in 1 .. n /\ shown[n] \in EpisodeShown
    BY <1>1, <1>4
  <2>2. PICK o : o = shown[n]
    OBVIOUS
  <2>3. o.of \in Nat /\ o.updates \in Seq(Nat) /\ o.states \in Seq(Nat)
        /\ o = [of |-> o.of, updates |-> o.updates, states |-> o.states]
    BY <2>1, <2>2 DEF EpisodeShown
  <2>8. Placed(log, o)
    BY <1>1, <2>1, <2>2 DEF Right
  <2>4. \E e \in EpisodeShown : /\ s = [shown EXCEPT ![n] = e] /\ e.of = o.of /\ Records(e) \subseteq Records(o) \cup {k}
                               /\ Placed(log, e)
    <3>1. CASE log[k].topic = "/route"
      <4>1. PICK u : u = Append(o.updates, k)
        OBVIOUS
      <4>2. u \in Seq(Nat) /\ Range(u) = Range(o.updates) \cup {k}
        BY <1>2, <2>3, <4>1, RangeAppend
      <4>3. PICK e : e = [o EXCEPT !.updates = u]
        OBVIOUS
      <4>4. e \in EpisodeShown /\ e.of = o.of /\ e.updates = u /\ e.states = o.states
        BY <2>1, <2>2, <4>2, <4>3 DEF EpisodeShown
      <4>5. s = [shown EXCEPT ![n] = e]
        BY <1>1, <1>4, <2>2, <3>1, <4>1, <4>3 DEF Pushed
      <4>6. Placed(log, e)
        BY <2>8, <3>1, <4>2, <4>4 DEF Placed
      <4> QED BY <4>2, <4>4, <4>5, <4>6 DEF Records
    <3>2. CASE log[k].topic = "/state"
      <4>1. PICK u : u = Append(o.states, k)
        OBVIOUS
      <4>2. u \in Seq(Nat) /\ Range(u) = Range(o.states) \cup {k}
        BY <1>2, <2>3, <4>1, RangeAppend
      <4>3. PICK e : e = [o EXCEPT !.states = u]
        OBVIOUS
      <4>4. e \in EpisodeShown /\ e.of = o.of /\ e.updates = o.updates /\ e.states = u
        BY <2>1, <2>2, <4>2, <4>3 DEF EpisodeShown
      <4>5. s = [shown EXCEPT ![n] = e]
        BY <1>1, <1>4, <2>2, <3>2, <4>1, <4>3 DEF Pushed
      <4>6. Placed(log, e)
        BY <2>8, <4>4 DEF Placed
      <4> QED BY <4>2, <4>4, <4>5, <4>6 DEF Records
    <3>3. CASE log[k].topic \notin {"/route", "/state"}
      <4>1. s = shown
        BY <1>4, <3>3 DEF Pushed
      <4>2. shown = [shown EXCEPT ![n] = o]
        BY <1>1, <2>1, <2>2
      <4> QED BY <2>1, <2>2, <2>8, <4>1, <4>2
    <3> QED BY <3>1, <3>2, <3>3
  <2>5. PICK e \in EpisodeShown :
          /\ s = [shown EXCEPT ![n] = e] /\ e.of = o.of /\ Records(e) \subseteq Records(o) \cup {k}
          /\ Placed(log, e)
    BY <2>4
  <2>6. /\ s \in Seq(EpisodeShown) /\ Len(s) = n /\ DOMAIN s = 1 .. n /\ s[n] = e /\ s # <<>>
        /\ \A i \in 1 .. n : i # n => s[i] = shown[i]
    BY <1>1, <2>1, <2>5
  <2>7. Right(log, rec, s)
    <3> SUFFICES ASSUME NEW i \in DOMAIN s
                 PROVE  /\ Placed(log, s[i])
                        /\ \A h \in Records(s[i]) :
                             h \in DOMAIN log /\ rec = <<log[h].scenario>> /\ Id(log, h) = Id(log, s[i].of)
      BY DEF Right
    <3>1. CASE i # n
      BY <1>1, <2>6, <3>1 DEF Right
    <3>2. CASE i = n
      <4>1. ASSUME NEW h \in Records(o)
            PROVE  h \in DOMAIN log /\ rec = <<log[h].scenario>> /\ Id(log, h) = Id(log, o.of)
        BY <1>1, <2>1, <2>2 DEF Right
      <4>2. Id(log, k) = Id(log, o.of)
        BY <1>4, <2>2
      <4> QED BY <2>5, <2>6, <3>2, <4>1, <4>2
    <3> QED BY <3>1, <3>2
  <2> QED BY <1>4, <2>2, <2>5, <2>6, <2>7
<1> QED BY <1>1, <1>3, <1>4

(* A message on /route or /episode is the latest to say a route; another   *)
(* leaves the latest as it was.                                            *)
LEMMA LatestIsNew ==
  ASSUME log \in Seq(Record), Orderly(log), NEW k \in DOMAIN log, log[k].topic \in {"/episode", "/route"}
  PROVE  \A j : LatestRoute(log, k, j) => j = k /\ log[k].topic = "/route"
<1>1. Routing(log, k)
  <2>1. log[k].op \in {"channel", "message"} /\ WellPlaced(log, k)
    <3>1. log[k] \in Record
      OBVIOUS
    <3> QED BY <3>1 DEF Record, Orderly
  <2>2. log[k].op = "message"
    BY <2>1 DEF WellPlaced
  <2> QED BY <2>2 DEF Routing, IsOn
<1> SUFFICES ASSUME NEW j, LatestRoute(log, k, j) PROVE j = k /\ log[k].topic = "/route"
  OBVIOUS
<1>2. k <= j /\ j \in UpTo(log, k) /\ log[j].topic = "/route"
  BY <1>1 DEF LatestRoute, UpTo
<1>3. j = k
  BY <1>2 DEF UpTo, Earlier
<1> QED BY <1>2, <1>3

LEMMA LatestIsOld ==
  ASSUME log \in Seq(Record), Orderly(log), NEW k \in DOMAIN log, log[k].topic \notin {"/episode", "/route"},
         NEW a \in DOMAIN log, log[a].run = log[k].run, Between(log, a, k)
  PROVE  \A j : LatestRoute(log, k, j) => LatestRoute(log, a, j)
<1> SUFFICES ASSUME NEW j, LatestRoute(log, k, j) PROVE LatestRoute(log, a, j)
  OBVIOUS
<1>1. k \in Nat /\ a \in Nat /\ a < k /\ a # 0 /\ \A h \in Earlier(log, k) : Routing(log, h) => h <= a
  BY DEF Between
<1>2. j \in Earlier(log, k) /\ log[j].topic = "/route"
  BY DEF LatestRoute, UpTo
<1>3. j \in 1 .. (k - 1) /\ log[j].run = log[k].run /\ j \in DOMAIN log
  BY <1>1, <1>2 DEF Earlier
<1>4. Routing(log, j)
  <2>1. log[j].op \in {"channel", "message"} /\ WellPlaced(log, j)
    <3>1. log[j] \in Record
      BY <1>3
    <3> QED BY <1>3, <3>1 DEF Record, Orderly
  <2>2. log[j].op = "message"
    BY <1>2, <2>1 DEF WellPlaced
  <2> QED BY <1>2, <2>2 DEF Routing, IsOn
<1>5. j <= a
  BY <1>1, <1>2, <1>4
<1>6. j \in UpTo(log, a)
  BY <1>1, <1>3, <1>5 DEF UpTo, Earlier
<1>7. UpTo(log, a) \subseteq UpTo(log, k)
  BY <1>1 DEF UpTo, Earlier
<1> QED BY <1>2, <1>6, <1>7 DEF LatestRoute

(* What is pushed is the newest of the episode last shown.                 *)
LEMMA PushedOnRoute ==
  ASSUME shown \in Seq(EpisodeShown), log \in Seq(Record), Orderly(log), NEW k \in DOMAIN log,
         log[k].topic # "/episode" => shown # <<>>,
         log[k].topic \notin {"/episode", "/route"} =>
           \E a \in DOMAIN log : /\ log[a].run = log[k].run /\ Between(log, a, k)
                                /\ OnRoute(log, a, shown[Len(shown)]),
         NEW s, s = Pushed(k)
  PROVE  OnRoute(log, k, s[Len(s)])
<1>1. CASE log[k].topic = "/episode"
  <2>1. \A j : ~LatestRoute(log, k, j)
    BY <1>1, LatestIsNew
  <2> QED BY <2>1 DEF OnRoute
<1>2. CASE log[k].topic = "/route"
  <2>1. PICK n, o, u : n = Len(shown) /\ o = shown[n] /\ u = Append(o.updates, k)
    OBVIOUS
  <2>2. shown # <<>> /\ n \in DOMAIN shown /\ n \in Nat /\ o \in EpisodeShown /\ k \in Nat
    BY <1>2, <2>1
  <2>3. s = [shown EXCEPT ![n] = [o EXCEPT !.updates = u]]
    BY <1>2, <2>1, <2>2 DEF Pushed
  <2>4. Len(s) = n /\ s[n] = [o EXCEPT !.updates = u]
    BY <2>1, <2>2, <2>3 DEF EpisodeShown
  <2>5. o.updates \in Seq(Nat) /\ s[Len(s)].updates = u
    BY <2>2, <2>4 DEF EpisodeShown
  <2>6. u # <<>> /\ u[Len(u)] = k
    <3>1. PICK v, l : v = o.updates /\ l = Len(v)
      OBVIOUS
    <3>2. v \in Seq(Nat) /\ l \in Nat /\ u = Append(v, k)
      BY <2>1, <2>5, <3>1
    <3>3. Len(u) = l + 1 /\ u[l + 1] = k /\ u \in Seq(Nat)
      BY <2>2, <3>1, <3>2
    <3> QED BY <3>2, <3>3
  <2>7. \A j : LatestRoute(log, k, j) => j = k
    BY <1>2, LatestIsNew
  <2> QED BY <2>5, <2>6, <2>7 DEF OnRoute
<1>3. CASE log[k].topic \notin {"/episode", "/route"}
  <2>1. PICK a \in DOMAIN log : /\ log[a].run = log[k].run /\ Between(log, a, k)
                               /\ OnRoute(log, a, shown[Len(shown)])
    BY <1>3
  <2>2. s[Len(s)].updates = shown[Len(shown)].updates
    <3>1. PICK n, o, u : n = Len(shown) /\ o = shown[n] /\ u = Append(o.states, k)
      OBVIOUS
    <3>2. shown # <<>> /\ n \in DOMAIN shown /\ n \in Nat /\ o \in EpisodeShown
      BY <1>3, <3>1
    <3>3. CASE log[k].topic = "/state"
      <4>1. s = [shown EXCEPT ![n] = [o EXCEPT !.states = u]]
        BY <3>1, <3>2, <3>3 DEF Pushed
      <4>2. Len(s) = n /\ s[n] = [o EXCEPT !.states = u]
        BY <3>1, <3>2, <4>1 DEF EpisodeShown
      <4> QED BY <3>1, <3>2, <4>2 DEF EpisodeShown
    <3>4. CASE log[k].topic # "/state"
      BY <1>3, <3>4 DEF Pushed
    <3> QED BY <3>3, <3>4
  <2>3. \A j : LatestRoute(log, k, j) => LatestRoute(log, a, j)
    BY <1>3, <2>1, LatestIsOld
  <2> QED BY <2>1, <2>2, <2>3 DEF OnRoute
<1> QED BY <1>1, <1>2, <1>3

(* KEEP episodes stay: the last ones.                                      *)
LEMMA KeptRight ==
  ASSUME NEW s \in Seq(EpisodeShown), NEW L, NEW c, Right(L, c, s), NEW t, t = Kept(s)
  PROVE  t \in Seq(EpisodeShown) /\ Right(L, c, t) /\ (s # <<>> => t # <<>> /\ t[Len(t)] = s[Len(s)])
<1>1. PICK n : n = Len(s)
  OBVIOUS
<1>2. n \in Nat /\ DOMAIN s = 1 .. n /\ Keep \in Nat \ {0}
  BY <1>1, LiveViewerAssumption
<1>3. CASE n > Keep
  <2>1. t = SubSeq(s, n - Keep + 1, n)
    BY <1>1, <1>3 DEF Kept
  <2>2. n - Keep + 1 \in 1 .. n
    BY <1>2, <1>3
  <2>3. t \in Seq(EpisodeShown) /\ Len(t) = Keep
    BY <1>1, <1>2, <1>3, <2>1, <2>2
  <2>4. \A i \in 1 .. Keep : t[i] = s[n - Keep + i] /\ n - Keep + i \in 1 .. n
    BY <1>1, <1>2, <1>3, <2>1, <2>2
  <2>5. DOMAIN t = 1 .. Keep /\ Keep \in 1 .. Keep /\ n - Keep + Keep = n /\ t # <<>>
    BY <1>2, <2>3
  <2>6. Right(L, c, t)
    BY <1>2, <2>4, <2>5 DEF Right
  <2> QED BY <1>1, <2>3, <2>4, <2>5, <2>6
<1>4. CASE ~(n > Keep)
  BY <1>1, <1>4 DEF Kept
<1> QED BY <1>3, <1>4

-----------------------------------------------------------------------------
(* The simulation                                                          *)

LEMMA OnRouteStays ==
  ASSUME NEW L \in Seq(Record), NEW M, Extends(L, M), NEW b \in DOMAIN L, NEW e, OnRoute(L, b, e)
  PROVE  OnRoute(M, b, e)
<1>1. UpTo(M, b) = UpTo(L, b) /\ \A i \in UpTo(L, b) : M[i] = L[i]
  BY EarlierStays DEF UpTo
<1>2. \A j : LatestRoute(M, b, j) => LatestRoute(L, b, j)
  BY <1>1 DEF LatestRoute, Routing, IsOn
<1> QED BY <1>2 DEF OnRoute

LEMMA StandsStays ==
  ASSUME log \in Seq(Record), Right(log, rec, shown), Extends(log, log'), shown \in Seq(EpisodeShown),
         NEW x, Known(log, x), Stands(x), UNCHANGED mainVars
  PROVE  Stands(x)'
<1>1. x.kind \in {"connected", "message"} => x.record \in DOMAIN log
  BY DEF Known
<1>2. shown # <<>> => shown[Len(shown)].of \in DOMAIN log
  <2> SUFFICES ASSUME shown # <<>> PROVE shown[Len(shown)].of \in DOMAIN log
    OBVIOUS
  <2>1. Len(shown) \in DOMAIN shown
    OBVIOUS
  <2>2. shown[Len(shown)].of \in Records(shown[Len(shown)])
    BY DEF Records
  <2> QED BY <2>1, <2>2 DEF Right
<1>3. \A i \in DOMAIN log : log'[i] = log[i]
  BY DEF Extends
<1>4. shown' = shown /\ rec' = rec /\ phase' = phase /\ foreign' = foreign /\ resumed' = resumed
  BY DEF mainVars
<1>5. x.kind = "connected" \/ x.kind = "message" => log'[x.record] = log[x.record]
  BY <1>1, <1>3
<1>6. shown # <<>> => log'[shown[Len(shown)].of] = log[shown[Len(shown)].of]
  BY <1>2, <1>3
<1>7. x.kind = "message" => \A e : OnRoute(log, x.record, e) => OnRoute(log', x.record, e)
  BY <1>1, OnRouteStays
<1> QED BY <1>4, <1>5, <1>6, <1>7 DEF Stands, Id

(* Steps that leave the viewer, and what was read, as they are.            *)
LEMMA Elsewhere ==
  ASSUME VInv, RecorderOK', log' = log \/ (\E x : log' = Append(log, x)),
         got' = got, line' \in {"off", "pending"} => got' = <<>>, since' = since \/ GivenOf(log, since', got),
         UNCHANGED viewerVars
  PROVE  VInv'
<1>1. log \in Seq(Record) /\ shown' = shown /\ rec' = rec /\ feed' = feed /\ UNCHANGED mainVars
  BY DEF VInv, RecorderOK, RecorderTyped, viewerVars, mainVars
<1>2. Extends(log, log')
  BY <1>1, AppendExtends DEF Extends
<1>3. Right(log', rec, shown)
  BY <1>2, RightStays DEF VInv
<1>4. GivenOf(log, since', got)
  BY DEF VInv
<1>5. GivenOf(log', since', got)
  BY <1>1, <1>4, GivenStays
<1>6. PICK x \in Item : Chain(x)
  BY DEF VInv
<1>7. Known(log', x) /\ Linked(log', x, feed)
  BY <1>1, <1>2, <1>6, LinkedStays DEF VInv, Chain
<1>8. Ends(log', got, LastOf(x, feed))
  <2>1. \A i \in DOMAIN got : got[i] # 0 => got[i] \in DOMAIN log
    BY <1>1, GivenKnown DEF VInv
  <2> QED BY <1>2, <1>6, <2>1, EndsStays DEF Chain
<1>9. Stands(x)'
  BY <1>1, <1>2, <1>6, StandsStays DEF VInv, Chain
<1>10. Chain(x)'
  BY <1>1, <1>7, <1>8, <1>9 DEF Chain
<1>11. \E y \in Item : Chain(y)'
  BY <1>10
<1>12. (\E y \in Item : Chain(y))'
  BY <1>11
<1>13. GivenOf(log, since, got)' /\ Right(log, rec, shown)'
  BY <1>1, <1>3, <1>5
<1> QED BY <1>1, <1>12, <1>13 DEF VInv

LEMMA SimulatesOK == ASSUME VInv, Simulates \/ RecorderWrites \/ StreamEnds PROVE VInv'
<1>1. RecorderOK /\ log \in Seq(Record)
  BY DEF VInv, RecorderOK, RecorderTyped
<1>2. CASE Simulates
  <2>1. UNCHANGED <<lineVars, viewerVars>>
    BY <1>2 DEF Simulates
  <2>2. RecorderOK' /\ log' = log
    <3>1. CASE Attach
      BY <1>1, <3>1, LogAttach DEF Attach
    <3>2. CASE \E seed \in Seeds : Reset(seed)
      BY <1>1, <3>2, LogReset DEF Reset
    <3>3. CASE \E replaced, due, others \in BOOLEAN : Tick(replaced, due, line = "served" \/ others)
      BY <1>1, <3>3, LogTick DEF Tick
    <3> QED BY <1>2, <3>1, <3>2, <3>3 DEF Simulates
  <2> QED BY <2>1, <2>2, Elsewhere DEF lineVars, VInv
<1>3. CASE RecorderWrites
  <2>1. UNCHANGED <<lineVars, viewerVars>>
    BY <1>3 DEF RecorderWrites
  <2>2. RecorderOK' /\ \E x : log' = Append(log, x)
    BY <1>1, <1>3, LogWrites DEF RecorderWrites, Writes
  <2> QED BY <2>1, <2>2, Elsewhere DEF lineVars, VInv
<1>4. CASE StreamEnds
  <2>1. RecorderOK' /\ log' = log
    BY <1>1, <1>4, LogEnds DEF StreamEnds, Finish, Finished, ProcessEnds
  <2>2. UNCHANGED viewerVars /\ got' = got /\ since' = since /\ line' \in {line, "given up"}
    BY <1>4 DEF StreamEnds, LineEnds
  <2>3. line' \in {"off", "pending"} => got' = <<>>
    BY <2>2 DEF VInv
  <2> QED BY <2>1, <2>2, <2>3, Elsewhere
<1> QED BY <1>2, <1>3, <1>4

LEMMA RecorderSame == ASSUME VInv, UNCHANGED recorderVars PROVE RecorderOK' /\ log' = log
  BY LogSame DEF VInv, recorderVars

LEMMA GivenNothing ==
  ASSUME RecorderOK, NEW s \in [run : Nat, at : Nat], s.at <= Len(log) PROVE GivenOf(log, s, <<>>)
<1>1. log \in Seq(Record) /\ s.at \in 0 .. Len(log)
  BY DEF RecorderOK, RecorderTyped
<1>2. PICK p : p = Promised(log, s.run, s.at)
  OBVIOUS
<1>3. p \in Seq(Nat)
  BY <1>1, <1>2, PromisedOrder
<1>4. Len(<<>>) <= Len(p) /\ <<>> \in Seq(Nat) /\ DOMAIN <<>> = {}
  BY <1>3
<1> QED BY <1>2, <1>4 DEF GivenOf

LEMMA LineStepsOK == ASSUME VInv, Accepted \/ GiveUp \/ Dial PROVE VInv'
<1>1. RecorderOK' /\ log' = log /\ UNCHANGED viewerVars /\ got' = got
  BY RecorderSame DEF Accepted, GiveUp, Dial
<1>2. line' \in {"off", "pending"} => got' = <<>>
  BY DEF Accepted, GiveUp, Dial, VInv
<1>3. CASE Accepted
  <2>1. got = <<>> /\ since' = [run |-> run, at |-> Len(log)]
    BY <1>3 DEF Accepted, VInv
  <2>2. run \in Nat /\ Len(log) \in Nat /\ RecorderOK
    BY DEF VInv, RecorderOK, RecorderTyped
  <2>3. since' \in [run : Nat, at : Nat] /\ since'.at <= Len(log)
    BY <2>1, <2>2
  <2>4. GivenOf(log, since', got)
    BY <2>1, <2>2, <2>3, GivenNothing
  <2> QED BY <1>1, <1>2, <2>4, Elsewhere
<1>4. CASE GiveUp \/ Dial
  <2>1. since' = since
    BY <1>4 DEF GiveUp, Dial
  <2> QED BY <1>1, <1>2, <2>1, Elsewhere
<1> QED BY <1>3, <1>4

-----------------------------------------------------------------------------
(* The reader thread                                                       *)

LEMMA FailedOK ==
  ASSUME VInv, NEW e \in {"refused", "ended", "cut"}, Failed(e), got' = <<>>,
         since' = since \/ since' = Absent, UNCHANGED <<recorderVars, mainVars>>
  PROVE  VInv'
<1>1. RecorderOK' /\ log' = log /\ RecorderOK
  BY RecorderSame DEF VInv
<1>2. shown' = shown /\ rec' = rec /\ phase' = phase /\ foreign' = foreign /\ resumed' = resumed
  BY DEF mainVars
<1>3. since' \in [run : Nat, at : Nat] /\ since'.at <= Len(log)
  <2>1. Absent \in [run : Nat, at : Nat] /\ Absent.at <= Len(log)
    BY <1>1 DEF Absent, RecorderOK, RecorderTyped
  <2> QED BY <2>1 DEF VInv, GivenOf
<1>4. GivenOf(log', since', got')
  BY <1>1, <1>3, GivenNothing
<1>5. PICK x \in Item : Chain(x)
  BY DEF VInv
<1>6. PICK y : y = Disconnected(e)
  OBVIOUS
<1>7. y \in Item /\ Known(log, y) /\ Follows(log, LastOf(x, feed), y)
  BY <1>6 DEF Item, Disconnected, Known, Follows
<1>8. feed' \in Seq(Item) /\ Linked(log, x, feed')
  <2>1. feed \in Seq(Item) /\ Linked(log, x, feed)
    BY <1>5 DEF VInv, Chain
  <2>2. Append(feed, y) \in Seq(Item) /\ Linked(log, x, Append(feed, y))
    BY <1>7, <2>1, LinkedAppend
  <2> QED BY <1>6, <2>1, <2>2 DEF Failed
<1>9. Ends(log', got', LastOf(x, feed'))
  BY DEF Ends
<1>10. Stands(x)'
  BY <1>1, <1>2, <1>5 DEF Chain, Stands
<1>11. Chain(x)'
  BY <1>1, <1>5, <1>8, <1>9, <1>10 DEF Chain
<1>12. \E z \in Item : Chain(z)'
  BY <1>11
<1>13. (\E z \in Item : Chain(z))'
  BY <1>12
<1>14. shown' \in Seq(EpisodeShown) /\ Right(log, rec, shown)' /\ GivenOf(log, since, got)'
  BY <1>1, <1>2, <1>4 DEF VInv
<1> QED BY <1>1, <1>8, <1>13, <1>14 DEF VInv

LEMMA StreamInOrder == ASSUME NEW S, NEW n PROVE Stream!InOrder(S, n) = InOrder(S, n)
  BY DEF Stream!InOrder, InOrder

(* The abstract broadcast's promise is the one the lemmas are about.       *)
LEMMA PromiseIs == Promise = Promised(log, since.run, since.at)
<1>1. PICK r, m, n : r = since.run /\ m = since.at /\ n = Len(log)
  OBVIOUS
<1>2. <<since>>[1] = since
  OBVIOUS
<1>3. \A a, b : Stream!Of(a, b) = OfRun(log, a, b)
  BY DEF Stream!Of, OfRun
<1>4. \A a, b, t : Stream!Messages(a, b, t) = OnTopic(log, a, b, t)
  BY <1>3 DEF Stream!Messages, OnTopic, IsOn
<1>5. Stream!Channels(r, m) = ChannelsOf(log, r, m)
  BY <1>3 DEF Stream!Channels, ChannelsOf
<1>6. \A S, T : Stream!Latest(S) = Newest(S) /\ Stream!After(S, T) = Later(S, T)
  BY DEF Stream!Latest, Newest, Stream!After, Later
<1>7. Stream!Meta(r, m) \cup Stream!Episode(r, m) \cup Stream!Routes(r, m) = CachedOf(log, r, m)
  BY <1>4, <1>6 DEF Stream!Meta, Stream!Episode, Stream!Routes, CachedOf
<1>8. \A S : Stream!Ordered(S) = InOrder(S, n)
  BY <1>1, StreamInOrder DEF Stream!Ordered
<1>9. Stream!Start(r, m) = <<0>> \o InOrder(ChannelsOf(log, r, m), n) \o InOrder(CachedOf(log, r, m), n)
  BY <1>5, <1>7, <1>8 DEF Stream!Start, Stream!Header
<1>10. Stream!Promise(1) = Stream!Start(r, m) \o Stream!Ordered(Stream!Of(r, n) \ (1 .. m))
  BY <1>1, <1>2 DEF Stream!Promise
<1>11. Stream!Ordered(Stream!Of(r, n) \ (1 .. m)) = InOrder(LiveOf(log, r, m), n)
  BY <1>1, <1>3, <1>8 DEF LiveOf
<1> QED BY <1>1, <1>9, <1>10, <1>11 DEF Promise, Promised, Listed, Magic

LEMMA ReadOK == ASSUME VInv, Read PROVE VInv'
<1>1. RecorderOK' /\ log' = log /\ log \in Seq(Record) /\ Orderly(log) /\ \A i \in DOMAIN log : log[i] \in Record
  <2>1. RecorderOK' /\ log' = log
    BY RecorderSame DEF Read
  <2>2. log \in Seq(Record) /\ Orderly(log)
    BY DEF VInv, RecorderOK, RecorderTyped, LogOK
  <2>3. \A i \in DOMAIN log : log[i] \in Record
    BY <2>2
  <2> QED BY <2>1, <2>2, <2>3
<1>2. PICK r, m, p, n, k, y, F :
        /\ r = since.run /\ m = since.at /\ p = Promised(log, r, m) /\ n = Len(got) /\ k = p[n + 1]
        /\ y = (IF FirstMessage THEN Connected(k) ELSE Arrived(k)) /\ F = FirstMessage
  OBVIOUS
<1>3. /\ got' = Append(got, k)
      /\ feed' = IF k = 0 THEN feed ELSE IF log[k].op = "channel" THEN feed ELSE Append(feed, y)
      /\ n < Len(p) /\ since' = since /\ line' = line /\ line \notin {"off", "pending"} /\ UNCHANGED mainVars
  BY <1>2, PromiseIs DEF Read
<1>4. /\ m \in 0 .. Len(log) /\ got \in Seq(Nat) /\ GivenOf(log, since, got) /\ feed \in Seq(Item)
      /\ \A i \in DOMAIN got : got[i] = p[i]
  BY <1>2 DEF VInv, GivenOf
<1>5. p \in Seq(Nat) /\ \A j \in DOMAIN p : p[j] # 0 => p[j] \in OfRun(log, r, Len(log))
  BY <1>1, <1>2, <1>4, PromisedOrder
<1>6. /\ n \in Nat /\ DOMAIN got = 1 .. n /\ n + 1 \in DOMAIN p /\ (\A i \in 1 .. n : i \in DOMAIN p)
      /\ k \in Nat
  BY <1>2, <1>3, <1>4, <1>5
<1>7. PICK g : g = got'
  OBVIOUS
<1>8. /\ g \in Seq(Nat) /\ Len(g) = n + 1 /\ DOMAIN g = 1 .. (n + 1) /\ g[n + 1] = k
      /\ \A i \in 1 .. n : g[i] = got[i] /\ g[i] = p[i] /\ i # n + 1 /\ i < n + 1
  <2>1. got \in Seq(Nat) /\ n = Len(got) /\ n \in Nat /\ k \in Nat /\ g = Append(got, k)
    BY <1>2, <1>3, <1>4, <1>6, <1>7
  <2>2. /\ g \in Seq(Nat) /\ Len(g) = n + 1 /\ DOMAIN g = 1 .. (n + 1) /\ g[n + 1] = k
        /\ \A i \in 1 .. n : g[i] = got[i] /\ i # n + 1 /\ i < n + 1
    BY <2>1
  <2>3. \A i \in 1 .. n : got[i] = p[i]
    BY <1>4, <1>6
  <2> QED BY <2>2, <2>3
<1>9. GivenOf(log, since, g)
  <2>1. Len(p) \in Nat /\ \A i \in 1 .. (n + 1) : i \in 1 .. n \/ i = n + 1
    BY <1>5, <1>6
  <2>2. \A i \in DOMAIN g : g[i] = p[i]
    BY <1>2, <1>8, <2>1
  <2>3. Len(g) <= Len(p)
    BY <1>3, <1>6, <1>8, <2>1
  <2> QED BY <1>2, <1>4, <1>8, <2>2, <2>3 DEF GivenOf
<1>10. (\A i \in 1 .. n : Sent(log, g, i) = Sent(log, got, i) /\ Sent(log, g, i) = Sent(log, p, i))
       /\ Sent(log, g, n + 1) = Sent(log, p, n + 1)
  BY <1>2, <1>8 DEF Sent
<1>11. PICK x \in Item : Chain(x)
  BY DEF VInv
<1>12. PICK z : z = LastOf(x, feed)
  OBVIOUS
<1>13. z \in Item /\ Ends(log, got, z) /\ Linked(log, x, feed)
  BY <1>4, <1>11, <1>12 DEF LastOf, Chain
<1>14. feed' \in Seq(Item) /\ Linked(log, x, feed') /\ Ends(log, g, LastOf(x, feed'))
  <2>1. CASE ~Sent(log, p, n + 1)
    <3>1. feed' = feed
      <4>1. k # 0 => log[k].op \in {"channel", "message"}
        BY <1>1, <1>2, <1>5, <1>6 DEF OfRun, Record
      <4> QED BY <1>2, <1>3, <2>1, <4>1 DEF Sent
    <3>2. Ends(log, g, z)
      <4> SUFFICES ASSUME NEW i \in DOMAIN g, LastSent(log, g, i)
                   PROVE  /\ z.kind # "disconnected" /\ z.record = g[i]
                          /\ z.kind = "connected" => log[g[i]].topic = "/meta"
        BY DEF Ends
      <4>1. i # n + 1
        BY <1>10, <2>1 DEF LastSent
      <4>2. i \in 1 .. n
        BY <1>6, <1>8, <4>1
      <4>3. LastSent(log, got, i)
        BY <1>6, <1>8, <1>10, <4>2 DEF LastSent
      <4> QED BY <1>6, <1>8, <1>13, <4>2, <4>3 DEF Ends
    <3> QED BY <1>4, <1>12, <1>13, <3>1, <3>2
  <2>2. CASE Sent(log, p, n + 1)
    <3>1. k # 0 /\ log[k].op = "message" /\ k \in DOMAIN log /\ feed' = Append(feed, y)
      BY <1>1, <1>2, <1>3, <1>5, <1>6, <2>2 DEF Sent, OfRun
    <3>2. y \in Item /\ Known(log, y) /\ y.record = k /\ y.kind = IF F THEN "connected" ELSE "message"
      BY <1>2, <1>6, <3>1 DEF Item, Known, Connected, Arrived
    <3>3. F = \A i \in 1 .. n : ~Sent(log, got, i)
      <4>1. ASSUME NEW i \in 1 .. n PROVE (got[i] = 0 \/ log[got[i]].op = "channel") = ~Sent(log, got, i)
        <5>1. got[i] # 0 => log[got[i]].op \in {"channel", "message"}
          <6>1. i \in DOMAIN p /\ got[i] = p[i]
            BY <1>4, <1>6
          <6>2. got[i] # 0 => got[i] \in DOMAIN log
            BY <1>1, <1>5, <6>1 DEF OfRun
          <6> QED BY <1>1, <6>2 DEF Record
        <5> QED BY <5>1 DEF Sent
      <4> QED BY <1>2, <1>6, <4>1 DEF FirstMessage
    <3>4. ASSUME F PROVE log[k].topic = "/meta"
      <4>1. \A i \in DOMAIN p : i < n + 1 => ~Sent(log, p, i)
        <5> SUFFICES ASSUME NEW i \in DOMAIN p, i < n + 1 PROVE ~Sent(log, p, i)
          OBVIOUS
        <5>1. i \in 1 .. n
          BY <1>5, <1>6
        <5> QED BY <1>10, <3>3, <3>4, <5>1
      <4> QED BY <1>1, <1>2, <1>4, <1>6, <2>2, <4>1, FirstSent
    <3>5. Follows(log, z, y)
      <4>1. CASE F
        BY <3>2, <4>1 DEF Follows
      <4>2. CASE ~F
        <5> DEFINE S == {i \in 1 .. n : Sent(log, got, i)}
        <5>1. S \in SUBSET (1 .. n) /\ S # {}
          BY <3>3, <4>2
        <5>2. PICK i \in S : \A j \in S : j <= i
          BY <1>6, <5>1, HasLast
        <5>3. i \in 1 .. n /\ Sent(log, got, i) /\ \A j \in 1 .. n : i < j => ~Sent(log, got, j)
          BY <1>6, <5>2
        <5>4. z.kind # "disconnected" /\ z.record = got[i] /\ (z.kind = "connected" => log[got[i]].topic = "/meta")
          BY <1>6, <1>13, <5>3 DEF Ends, LastSent
        <5>5. i \in DOMAIN p /\ i < n + 1 /\ Sent(log, p, i) /\ got[i] = p[i]
          BY <1>4, <1>6, <1>8, <1>10, <5>3
        <5>6. \A h \in DOMAIN p : i < h /\ h < n + 1 => ~Sent(log, p, h)
          <6> SUFFICES ASSUME NEW h \in DOMAIN p, i < h, h < n + 1 PROVE ~Sent(log, p, h)
            OBVIOUS
          <6>1. h \in 1 .. n
            BY <1>5, <1>6
          <6> QED BY <1>10, <5>3, <6>1
        <5>7. /\ log[p[i]].run = log[p[n + 1]].run
              /\ log[p[n + 1]].topic = "/episode"
                   \/ (log[p[i]].topic # "/meta" /\ SameEpisode(log[p[i]], log[p[n + 1]]))
          <6>1. PICK j : j = n + 1
            OBVIOUS
          <6>2. j \in DOMAIN p /\ i < j /\ Sent(log, p, j) /\ \A h \in DOMAIN p : i < h /\ h < j => ~Sent(log, p, h)
            BY <1>6, <2>2, <5>5, <5>6, <6>1
          <6>3. /\ log[p[i]].run = log[p[j]].run
                /\ log[p[j]].topic = "/episode" \/ (log[p[i]].topic # "/meta" /\ SameEpisode(log[p[i]], log[p[j]]))
            <7>1. /\ log \in Seq(Record) /\ Orderly(log) /\ m \in 0 .. Len(log) /\ p = Promised(log, r, m)
                  /\ i \in DOMAIN p /\ Sent(log, p, i)
              BY <1>1, <1>2, <1>4, <5>5
            <7> QED BY <6>2, <7>1, NextSent
          <6> QED BY <6>1, <6>3
        <5>8. z.kind \in {"connected", "message", "disconnected"}
          BY <1>13 DEF Item
        <5>9. log[p[n + 1]].topic \notin {"/episode", "/route"} => Between(log, p[i], p[n + 1])
          <6>1. PICK j : j = n + 1
            OBVIOUS
          <6>2. j \in DOMAIN p /\ i < j /\ Sent(log, p, j) /\ \A h \in DOMAIN p : i < h /\ h < j => ~Sent(log, p, h)
            BY <1>6, <2>2, <5>5, <5>6, <6>1
          <6>3. /\ log \in Seq(Record) /\ Orderly(log) /\ m \in 0 .. Len(log) /\ p = Promised(log, r, m)
                /\ i \in DOMAIN p /\ Sent(log, p, i)
            BY <1>1, <1>2, <1>4, <5>5
          <6>4. log[p[j]].topic \notin {"/episode", "/route"} => Between(log, p[i], p[j])
            BY <6>2, <6>3, StateSent
          <6> QED BY <6>1, <6>4
        <5> QED BY <1>2, <3>2, <5>4, <5>5, <5>7, <5>8, <5>9 DEF Follows, SameEpisode, Id
      <4> QED BY <4>1, <4>2
    <3>6. feed' \in Seq(Item) /\ Linked(log, x, feed') /\ LastOf(x, feed') = y
      BY <1>4, <1>12, <1>13, <3>1, <3>2, <3>5, LinkedAppend
    <3>7. Ends(log, g, y)
      <4> SUFFICES ASSUME NEW i \in DOMAIN g, LastSent(log, g, i)
                   PROVE  /\ y.kind # "disconnected" /\ y.record = g[i]
                          /\ y.kind = "connected" => log[g[i]].topic = "/meta"
        BY DEF Ends
      <4>1. i = n + 1
        <5>1. n + 1 \in DOMAIN g /\ Sent(log, g, n + 1)
          BY <1>6, <1>8, <1>10, <2>2
        <5> QED BY <1>6, <1>8, <5>1 DEF LastSent
      <4>2. g[i] = k
        BY <1>8, <4>1
      <4> QED BY <3>2, <3>4, <4>2
    <3> QED BY <3>6, <3>7
  <2> QED BY <2>1, <2>2
<1>15. shown' = shown /\ rec' = rec /\ phase' = phase /\ foreign' = foreign /\ resumed' = resumed
  BY <1>3 DEF mainVars
<1>16. Stands(x)'
  BY <1>1, <1>11, <1>15 DEF Chain, Stands
<1>17. Chain(x)'
  BY <1>1, <1>7, <1>11, <1>14, <1>16 DEF Chain
<1>18. \E h \in Item : Chain(h)'
  BY <1>17
<1>19. (\E h \in Item : Chain(h))'
  BY <1>18
<1>20. shown' \in Seq(EpisodeShown) /\ Right(log, rec, shown)' /\ GivenOf(log, since, got)'
  BY <1>1, <1>3, <1>7, <1>9, <1>15 DEF VInv
<1> QED BY <1>1, <1>3, <1>14, <1>19, <1>20 DEF VInv

LEMMA ReaderOK == ASSUME VInv, Reader PROVE VInv'
<1>1. CASE Dial
  BY <1>1, LineStepsOK
<1>2. CASE Refused
  <2>1. got' = <<>> /\ since' = since /\ UNCHANGED <<recorderVars, mainVars>> /\ Failed("refused")
    BY <1>2 DEF Refused, VInv, lineVars
  <2> QED BY <2>1, FailedOK
<1>3. CASE Read
  BY <1>3, ReadOK
<1>4. CASE ReadEnds
  <2>1. got' = <<>> /\ since' = Absent /\ UNCHANGED <<recorderVars, mainVars>> /\ (Failed("ended") \/ Failed("cut"))
    BY <1>4 DEF ReadEnds
  <2> QED BY <2>1, FailedOK
<1> QED BY <1>1, <1>2, <1>3, <1>4 DEF Reader

-----------------------------------------------------------------------------
(* The viewer                                                              *)

LEMMA TakenOK ==
  ASSUME VInv, NEW x \in Item, Chain(x), feed # <<>>, NEW y, y = Head(feed), feed' = Tail(feed),
         UNCHANGED <<recorderVars, lineVars>>,
         shown' \in Seq(EpisodeShown), Right(log, rec', shown'), Stands(y)'
  PROVE  VInv'
<1>1. RecorderOK' /\ log' = log /\ got' = got /\ since' = since /\ line' = line
  BY RecorderSame DEF lineVars
<1>2. PICK t : t = Tail(feed)
  OBVIOUS
<1>3. feed \in Seq(Item) /\ Linked(log, x, feed) /\ Ends(log, got, LastOf(x, feed))
  BY DEF VInv, Chain
<1>4. y \in Item /\ t \in Seq(Item) /\ Known(log, y) /\ Linked(log, y, t) /\ LastOf(y, t) = LastOf(x, feed)
  <2>1. y \in Item /\ t \in Seq(Item) /\ Known(log, y) /\ Linked(log, y, t)
    BY <1>2, <1>3, LinkedTail
  <2>2. LastOf(Head(feed), Tail(feed)) = LastOf(x, feed)
    BY <1>3, LastOfTail
  <2> QED BY <1>2, <2>1, <2>2
<1>5. Chain(y)'
  BY <1>1, <1>2, <1>3, <1>4 DEF Chain
<1>6. \E z \in Item : Chain(z)'
  BY <1>4, <1>5
<1>7. (\E z \in Item : Chain(z))'
  BY <1>6
<1>8. feed' \in Seq(Item) /\ Right(log, rec, shown)' /\ GivenOf(log, since, got)'
  BY <1>1, <1>2, <1>4 DEF VInv
<1> QED BY <1>1, <1>7, <1>8 DEF VInv

(* What the viewer knows of the head of its feed.                          *)
LEMMA HeadKnown ==
  ASSUME VInv, feed # <<>>
  PROVE  \E x \in Item : /\ Chain(x) /\ Stands(x) /\ Known(log, x)
                         /\ Head(feed) \in Item /\ Known(log, Head(feed)) /\ Follows(log, x, Head(feed))
<1>1. PICK x \in Item : Chain(x)
  BY DEF VInv
<1>2. PICK y, t : y = Head(feed) /\ t = Tail(feed)
  OBVIOUS
<1>3. feed \in Seq(Item) /\ Linked(log, x, feed) /\ Stands(x) /\ Known(log, x)
  BY <1>1 DEF VInv, Chain
<1>4. y \in Item /\ Known(log, y) /\ Follows(log, x, y)
  BY <1>2, <1>3, LinkedTail
<1> QED BY <1>1, <1>2, <1>3, <1>4

LEMMA RightNothing == ASSUME NEW L, NEW c PROVE Right(L, c, <<>>) /\ <<>> \in Seq(EpisodeShown)
  BY DEF Right

LEMMA ConnectDisconnectedOK == ASSUME VInv, ConnectDisconnected PROVE VInv'
<1>1. PICK y : y = Head(feed)
  OBVIOUS
<1>2. /\ feed # <<>> /\ y.kind = "disconnected" /\ feed' = Tail(feed) /\ UNCHANGED <<recorderVars, lineVars>>
      /\ shown' = <<>>
  BY <1>1 DEF ConnectDisconnected, Take
<1>3. PICK x \in Item : Chain(x)
  BY <1>2, HeadKnown
<1>4. Stands(y)'
  BY <1>2 DEF Stands
<1>5. Right(log, rec', shown') /\ shown' \in Seq(EpisodeShown)
  BY <1>2, RightNothing
<1> QED BY <1>1, <1>2, <1>3, <1>4, <1>5, TakenOK

LEMMA ConnectConnectedOK == ASSUME VInv, ConnectConnected PROVE VInv'
<1>1. PICK y : y = Head(feed)
  OBVIOUS
<1>2. /\ feed # <<>> /\ y.kind = "connected" /\ feed' = Tail(feed) /\ UNCHANGED <<recorderVars, lineVars>>
      /\ shown' = <<>> /\ rec' = <<log[y.record].scenario>> /\ phase' = "connect" /\ log' = log
  BY <1>1 DEF ConnectConnected, Take, recorderVars
<1>3. PICK x \in Item : Chain(x)
  BY <1>2, HeadKnown
<1>4. Stands(y)'
  BY <1>2 DEF Stands
<1>5. Right(log, rec', shown') /\ shown' \in Seq(EpisodeShown)
  BY <1>2, RightNothing
<1> QED BY <1>1, <1>2, <1>3, <1>4, <1>5, TakenOK

(* A message that is of the scenario shown, and opens an episode or goes   *)
(* on with the one last shown.                                             *)
LEMMA MessageFits ==
  ASSUME VInv, NEW x \in Item, Stands(x), Known(log, x), NEW y, y \in Item, Known(log, y), Follows(log, x, y),
         y.kind = "message", phase = "connect" \/ (phase = "poll" /\ ~foreign)
  PROVE  /\ y.record \in DOMAIN log /\ rec = <<log[y.record].scenario>>
         /\ log[y.record].topic = "/episode"
              \/ (shown # <<>> /\ Id(log, y.record) = Id(log, shown[Len(shown)].of))
         /\ log[y.record].topic \notin {"/episode", "/route"} =>
              \E a \in DOMAIN log : /\ log[a].run = log[y.record].run /\ Between(log, a, y.record)
                                   /\ OnRoute(log, a, shown[Len(shown)])
<1>1. log \in Seq(Record) /\ Orderly(log)
  BY DEF VInv, RecorderOK, RecorderTyped, LogOK
<1>2. x.record \in DOMAIN log /\ y.record \in DOMAIN log /\ x.kind \in {"connected", "message"}
  BY DEF Known, Follows, Item
<1>3. log[x.record].scenario = log[y.record].scenario
  BY <1>1, <1>2, RunOfOneScenario DEF Follows
<1>4. CASE x.kind = "connected"
  BY <1>2, <1>3, <1>4 DEF Stands, Follows
<1>5. CASE x.kind = "message"
  BY <1>2, <1>3, <1>5 DEF Stands, Follows
<1> QED BY <1>2, <1>4, <1>5

LEMMA ConnectMessageOK == ASSUME VInv, ConnectMessage PROVE VInv'
<1>1. PICK y, k : y = Head(feed) /\ k = y.record
  OBVIOUS
<1>2. /\ feed # <<>> /\ y.kind = "message" /\ feed' = Tail(feed) /\ UNCHANGED <<recorderVars, lineVars>>
      /\ phase = "connect" /\ shown' = (IF rec # <<>> THEN Pushed(k) ELSE shown) /\ rec' = rec /\ log' = log
  BY <1>1 DEF ConnectMessage, Take, recorderVars
<1>3. PICK x \in Item : /\ Chain(x) /\ Stands(x) /\ Known(log, x)
                        /\ y \in Item /\ Known(log, y) /\ Follows(log, x, y)
  BY <1>1, <1>2, HeadKnown
<1>4. /\ k \in DOMAIN log /\ rec = <<log[k].scenario>>
      /\ log[k].topic = "/episode" \/ (shown # <<>> /\ Id(log, k) = Id(log, shown[Len(shown)].of))
      /\ log[k].topic \notin {"/episode", "/route"} =>
           \E a \in DOMAIN log : /\ log[a].run = log[k].run /\ Between(log, a, k)
                                /\ OnRoute(log, a, shown[Len(shown)])
  BY <1>1, <1>2, <1>3, MessageFits
<1>5. PICK s : s = Pushed(k)
  OBVIOUS
<1>6. log \in Seq(Record) /\ Orderly(log) /\ shown \in Seq(EpisodeShown) /\ Right(log, rec, shown)
  BY DEF VInv, RecorderOK, RecorderTyped, LogOK
<1>12. OnRoute(log, k, s[Len(s)])
  BY <1>4, <1>5, <1>6, PushedOnRoute
<1>7. /\ s \in Seq(EpisodeShown) /\ Right(log, rec, s)
      /\ s # <<>> /\ Id(log, k) = Id(log, s[Len(s)].of)
  BY <1>4, <1>5, <1>6, PushedRight
<1>8. rec # <<>>
  BY <1>4
<1>9. shown' = s
  BY <1>2, <1>5, <1>8
<1>10. Stands(y)'
  BY <1>1, <1>2, <1>4, <1>7, <1>9, <1>12 DEF Stands
<1>11. Right(log, rec', shown') /\ shown' \in Seq(EpisodeShown)
  BY <1>2, <1>7, <1>9
<1> QED BY <1>1, <1>2, <1>3, <1>10, <1>11, TakenOK

LEMMA PollKept ==
  ASSUME VInv, NEW kind, NEW s \in Seq(EpisodeShown), Right(log, rec, s), Poll(kind, s)
  PROVE  /\ shown' \in Seq(EpisodeShown) /\ Right(log, rec', shown')
         /\ s # <<>> => shown' # <<>> /\ shown'[Len(shown')] = s[Len(s)]
         /\ feed # <<>> /\ Head(feed).kind = kind /\ feed' = Tail(feed) /\ UNCHANGED <<recorderVars, lineVars>>
         /\ phase = "poll" /\ phase' = "poll" /\ rec' = rec /\ log' = log
<1>1. PICK t : t = Kept(s)
  OBVIOUS
<1>2. t \in Seq(EpisodeShown) /\ Right(log, rec, t) /\ (s # <<>> => t # <<>> /\ t[Len(t)] = s[Len(s)])
  BY <1>1, KeptRight
<1>3. shown' = t /\ rec' = rec /\ phase' = phase /\ phase = "poll" /\ Take(kind)
  BY <1>1 DEF Poll
<1>4. feed # <<>> /\ Head(feed).kind = kind /\ feed' = Tail(feed) /\ UNCHANGED <<recorderVars, lineVars>>
  BY <1>3 DEF Take
<1>5. log' = log
  BY <1>4 DEF recorderVars
<1> QED BY <1>2, <1>3, <1>4, <1>5

(* Nothing is shown of it.                                                 *)
LEMMA PollPlainOK == ASSUME VInv, PollDisconnected \/ PollConnected \/ PollForeign PROVE VInv'
<1>1. PICK y : y = Head(feed)
  OBVIOUS
<1>2. \E kind \in {"disconnected", "connected", "message"} : Poll(kind, shown)
  BY DEF PollDisconnected, PollConnected, PollForeign
<1>3. PICK kind \in {"disconnected", "connected", "message"} : Poll(kind, shown)
  BY <1>2
<1>4. shown \in Seq(EpisodeShown) /\ Right(log, rec, shown)
  BY DEF VInv
<1>5. /\ shown' \in Seq(EpisodeShown) /\ Right(log, rec', shown')
      /\ feed # <<>> /\ feed' = Tail(feed) /\ UNCHANGED <<recorderVars, lineVars>>
      /\ phase' = "poll" /\ rec' = rec /\ log' = log /\ y.kind = kind
  BY <1>1, <1>3, <1>4, PollKept
<1>6. PICK x \in Item : Chain(x)
  BY <1>5, HeadKnown
<1>7. Stands(y)'
  <2>1. CASE PollDisconnected
    <3>1. y.kind = "disconnected"
      BY <1>1, <2>1 DEF PollDisconnected, Poll, Take
    <3> QED BY <3>1 DEF Stands
  <2>2. CASE PollConnected
    <3>1. y.kind = "connected" /\ foreign' = (rec # <<log[y.record].scenario>>) /\ resumed' = TRUE
      BY <1>1, <2>2 DEF PollConnected, Poll, Take
    <3> QED BY <1>5, <3>1 DEF Stands
  <2>3. CASE PollForeign
    <3>1. y.kind = "message" /\ foreign' = foreign /\ foreign
      BY <1>1, <2>3 DEF PollForeign, Poll, Take
    <3> QED BY <1>5, <3>1 DEF Stands
  <2> QED BY <2>1, <2>2, <2>3
<1> QED BY <1>1, <1>5, <1>6, <1>7, TakenOK

LEMMA PollShownOK == ASSUME VInv, PollEpisode \/ PollMessage PROVE VInv'
<1>1. PICK y, k, p : y = Head(feed) /\ k = y.record /\ p = Pushed(k)
  OBVIOUS
<1>2. /\ ~foreign /\ foreign' = foreign
      /\ (Poll("message", p) \/ (log[k].topic = "/episode" /\ GoesOn(k) /\ Poll("message", shown)))
  BY <1>1 DEF PollEpisode, PollMessage
<1>3. /\ feed # <<>> /\ y.kind = "message" /\ phase = "poll"
  BY <1>1, <1>2 DEF Poll, Take
<1>4. PICK x \in Item : /\ Chain(x) /\ Stands(x) /\ Known(log, x)
                        /\ y \in Item /\ Known(log, y) /\ Follows(log, x, y)
  BY <1>1, <1>3, HeadKnown
<1>5. /\ k \in DOMAIN log /\ rec = <<log[k].scenario>>
      /\ log[k].topic = "/episode" \/ (shown # <<>> /\ Id(log, k) = Id(log, shown[Len(shown)].of))
      /\ log[k].topic \notin {"/episode", "/route"} =>
           \E a \in DOMAIN log : /\ log[a].run = log[k].run /\ Between(log, a, k)
                                /\ OnRoute(log, a, shown[Len(shown)])
  BY <1>1, <1>2, <1>3, <1>4, MessageFits
<1>6. log \in Seq(Record) /\ Orderly(log) /\ shown \in Seq(EpisodeShown) /\ Right(log, rec, shown)
  BY DEF VInv, RecorderOK, RecorderTyped, LogOK
<1>7. \E s \in Seq(EpisodeShown) : /\ Poll("message", s) /\ Right(log, rec, s)
                                   /\ s # <<>> /\ Id(log, k) = Id(log, s[Len(s)].of)
                                   /\ OnRoute(log, k, s[Len(s)])
  <2>1. CASE Poll("message", p)
    <3>1. p \in Seq(EpisodeShown) /\ Right(log, rec, p) /\ p # <<>> /\ Id(log, k) = Id(log, p[Len(p)].of)
      BY <1>1, <1>5, <1>6, PushedRight
    <3>2. OnRoute(log, k, p[Len(p)])
      BY <1>1, <1>5, <1>6, PushedOnRoute
    <3> QED BY <2>1, <3>1, <3>2
  <2>2. CASE log[k].topic = "/episode" /\ GoesOn(k) /\ Poll("message", shown)
    <3>1. \A j : ~LatestRoute(log, k, j)
      BY <1>5, <1>6, <2>2, LatestIsNew
    <3> QED BY <1>6, <2>2, <3>1 DEF GoesOn, EpisodeId, Id, OnRoute
  <2> QED BY <1>2, <2>1, <2>2
<1>8. PICK s \in Seq(EpisodeShown) : /\ Poll("message", s) /\ Right(log, rec, s)
                                     /\ s # <<>> /\ Id(log, k) = Id(log, s[Len(s)].of)
                                     /\ OnRoute(log, k, s[Len(s)])
  BY <1>7
<1>9. /\ shown' \in Seq(EpisodeShown) /\ Right(log, rec', shown')
      /\ shown' # <<>> /\ shown'[Len(shown')] = s[Len(s)]
      /\ feed' = Tail(feed) /\ UNCHANGED <<recorderVars, lineVars>>
      /\ phase' = "poll" /\ rec' = rec /\ log' = log
  BY <1>8, PollKept
<1>10. Stands(y)'
  BY <1>1, <1>3, <1>5, <1>8, <1>9 DEF Stands
<1> QED BY <1>1, <1>3, <1>4, <1>9, <1>10, TakenOK

-----------------------------------------------------------------------------
(* The theorem                                                             *)

LEMMA ViewerInitOK == Init => VInv
<1> SUFFICES ASSUME Init PROVE VInv
  OBVIOUS
<1>1. RecorderOK
  BY LogInit DEF Init
<1>2. /\ since = Absent /\ got = <<>> /\ feed = <<>> /\ shown = <<>>
  BY DEF Init
<1>3. Absent \in [run : Nat, at : Nat] /\ Absent.at <= Len(log)
  BY <1>1 DEF Absent, RecorderOK, RecorderTyped
<1>4. GivenOf(log, since, got)
  BY <1>1, <1>2, <1>3, GivenNothing
<1>5. feed \in Seq(Item) /\ shown \in Seq(EpisodeShown) /\ Right(log, rec, shown)
  BY <1>2, RightNothing
<1>6. PICK x : x = Disconnected("")
  OBVIOUS
<1>7. x \in Item /\ x.kind = "disconnected"
  BY <1>6 DEF Item, Disconnected
<1>8. Known(log, x) /\ Stands(x)
  BY <1>7 DEF Known, Stands
<1>9. Linked(log, x, feed) /\ Ends(log, got, LastOf(x, feed))
  BY <1>2 DEF Linked, Ends
<1>10. Chain(x)
  BY <1>8, <1>9 DEF Chain
<1> QED BY <1>1, <1>2, <1>4, <1>5, <1>7, <1>10 DEF VInv

LEMMA ViewerStepOK == VInv /\ [Next]_vars => VInv'
<1> SUFFICES ASSUME VInv, [Next]_vars PROVE VInv'
  OBVIOUS
<1>1. CASE Simulates \/ RecorderWrites \/ StreamEnds
  BY <1>1, SimulatesOK
<1>2. CASE Accepted \/ GiveUp
  BY <1>2, LineStepsOK
<1>3. CASE Reader
  BY <1>3, ReaderOK
<1>4. CASE Viewer
  BY <1>4, ConnectDisconnectedOK, ConnectConnectedOK, ConnectMessageOK, PollPlainOK, PollShownOK DEF Viewer
<1>5. CASE UNCHANGED vars
  <2>1. UNCHANGED viewerVars /\ UNCHANGED recorderVars /\ got' = got /\ since' = since /\ line' = line
    BY <1>5 DEF vars, viewerVars, lineVars
  <2>2. RecorderOK' /\ log' = log
    BY <2>1, RecorderSame
  <2>3. line' \in {"off", "pending"} => got' = <<>>
    BY <2>1 DEF VInv
  <2> QED BY <2>1, <2>2, <2>3, Elsewhere
<1> QED BY <1>1, <1>2, <1>3, <1>4, <1>5 DEF Next

(* poll and connect mix no episodes and no scenarios: every message shown  *)
(* in an episode of the recording was recorded in one of its number and    *)
(* seed, and of the scenario the recording is of, whatever losses,         *)
(* reconnections, resets and restarts of the simulation came between.      *)
THEOREM RightEpisodeAlways == Spec => []RightEpisode
<1>1. VInv => RightEpisode
  <2> SUFFICES ASSUME VInv, NEW i \in DOMAIN shown, NEW k \in Records(shown[i])
               PROVE  rec = <<log[k].scenario>> /\ EpisodeId(k) = EpisodeId(shown[i].of)
    BY DEF RightEpisode
  <2>1. Right(log, rec, shown)
    BY DEF VInv
  <2> QED BY <2>1 DEF Right, Id, EpisodeId
<1> QED BY ViewerInitOK, ViewerStepOK, <1>1, PTL DEF Spec

-----------------------------------------------------------------------------
(* What the log says of the world                                          *)

(* The present call of the recorder has its /episode, or its /route,       *)
(* behind it.                                                              *)
EpisodeWritten ==
  script \in {<<Message("/route"), Message("/state")>>, <<Message("/route")>>, <<Message("/state")>>, <<>>}
RouteWritten == script \in {<<Message("/state")>>, <<>>}

(* The present run's records are of the past; the present number stands on *)
(* one /episode, the latest; and the latest record that says a route says  *)
(* the one the agent has, if it is written yet.                            *)
WorldWritten == sink = "up" =>
  /\ \A i \in Present : /\ log[i].episode <= episodes - 1
                        /\ log[i].episode = episodes - 1 => log[i].time <= world.time
  /\ \A i \in Present : IsOn(log, i, "/episode") /\ log[i].episode = episodes - 1 =>
       EpisodeWritten /\ \A h \in Present : IsOn(log, h, "/episode") => h <= i
  /\ RouteWritten => \A j \in Present :
       Routing(log, j) /\ (\A h \in Present : Routing(log, h) => h <= j) => log[j].route = world.route

LEMMA ScriptsDiffer ==
  LET s == Message("/state") r == Message("/route") e == Message("/episode")
  IN  /\ <<e, s>> \notin {<<r, s>>, <<r>>, <<s>>, <<>>}
      /\ <<r, s>> \notin {<<s>>, <<>>} /\ <<r>> \notin {<<s>>, <<>>}
<1>1. Message("/route") # Message("/state") /\ Message("/route") # Message("/episode")
  BY DEF Message
<1>2. PICK s, r, e : s = Message("/state") /\ r = Message("/route") /\ e = Message("/episode")
  OBVIOUS
<1>3. r # s /\ r # e
  BY <1>1, <1>2
<1>4. <<e, s>> # <<r, s>> /\ <<e, s>> # <<r>> /\ <<e, s>> # <<s>> /\ <<e, s>> # <<>>
  BY <1>3
<1>5. <<r, s>> # <<s>> /\ <<r, s>> # <<>> /\ <<r>> # <<s>> /\ <<r>> # <<>>
  BY <1>3
<1> QED BY <1>2, <1>4, <1>5

LEMMA ScriptsShort ==
  ASSUME NEW t
  PROVE  /\ t \in {<<Message("/route"), Message("/state")>>, <<Message("/route")>>, <<Message("/state")>>, <<>>} => Len(t) <= 2
         /\ t \in {<<Message("/state")>>, <<>>} => Len(t) <= 1
<1>1. \A a, b : Len(<<a, b>>) = 2 /\ Len(<<a>>) = 1 /\ Len(<<>>) = 0
  OBVIOUS
<1> QED BY <1>1

(* How a call's script goes on when r is written.                          *)
LEMMA WritingGoesOn ==
  ASSUME Writing, NEW r, script # <<>>, r = Head(script), script' = Tail(script)
  PROVE  /\ EpisodeWritten => EpisodeWritten' /\ r # Message("/episode")
         /\ r = Message("/episode") => EpisodeWritten'
         /\ RouteWritten' /\ ~RouteWritten => r \in {Message("/route"), Message("/episode")}
<1>1. CASE script = <<Channel("/meta"), Channel("/state"), Message("/meta"), Message("/episode"), Message("/state")>>
  <2>1. /\ script' = <<Channel("/state"), Message("/meta"), Message("/episode"), Message("/state")>>
        /\ r = Channel("/meta") /\ Len(script) = 5 /\ Len(script') = 4
    BY <1>1
  <2>2. ~EpisodeWritten /\ ~RouteWritten'
    <3>1. ~(Len(script) <= 2) /\ ~(Len(script') <= 1)
      BY <2>1
    <3> QED BY <3>1, ScriptsShort, Zenon DEF EpisodeWritten, RouteWritten
  <2>3. r # Message("/episode")
    BY <2>1 DEF Channel, Message
  <2> QED BY <2>2, <2>3
<1>2. CASE script = <<Channel("/state"), Message("/meta"), Message("/episode"), Message("/state")>>
  <2>1. /\ script' = <<Message("/meta"), Message("/episode"), Message("/state")>>
        /\ r = Channel("/state") /\ Len(script) = 4 /\ Len(script') = 3
    BY <1>2
  <2>2. ~EpisodeWritten /\ ~RouteWritten'
    <3>1. ~(Len(script) <= 2) /\ ~(Len(script') <= 1)
      BY <2>1
    <3> QED BY <3>1, ScriptsShort, Zenon DEF EpisodeWritten, RouteWritten
  <2>3. r # Message("/episode")
    BY <2>1 DEF Channel, Message
  <2> QED BY <2>2, <2>3
<1>3. CASE script = <<Message("/meta"), Message("/episode"), Message("/state")>>
  <2>1. /\ script' = <<Message("/episode"), Message("/state")>>
        /\ r = Message("/meta") /\ Len(script) = 3 /\ Len(script') = 2
    BY <1>3
  <2>2. ~EpisodeWritten /\ ~RouteWritten'
    <3>1. ~(Len(script) <= 2) /\ ~(Len(script') <= 1)
      BY <2>1
    <3> QED BY <3>1, ScriptsShort, Zenon DEF EpisodeWritten, RouteWritten
  <2>3. r # Message("/episode")
    BY <2>1 DEF Message
  <2> QED BY <2>2, <2>3
<1>4. CASE script = EpisodeStart
  <2>1. script' = <<Message("/state")>> /\ r = Message("/episode")
    BY <1>4 DEF EpisodeStart
  <2>2. ~EpisodeWritten
    BY <1>4, ScriptsDiffer DEF EpisodeWritten, EpisodeStart
  <2> QED BY <2>1, <2>2 DEF EpisodeWritten
<1>5. CASE EpisodeWritten
  <2>1. r # Message("/episode") /\ EpisodeWritten'
    <3>1. CASE script = <<Message("/route"), Message("/state")>>
      <4>1. r = Message("/route") /\ script' = <<Message("/state")>>
        BY <3>1
      <4>2. r # Message("/episode")
        BY <4>1 DEF Message
      <4> QED BY <4>1, <4>2 DEF EpisodeWritten
    <3>2. CASE script = <<Message("/route")>>
      <4>1. r = Message("/route") /\ script' = <<>>
        BY <3>2
      <4> QED BY <4>1 DEF EpisodeWritten, Message
    <3>3. CASE script = <<Message("/state")>>
      <4>1. r = Message("/state") /\ script' = <<>>
        BY <3>3
      <4> QED BY <4>1 DEF EpisodeWritten, Message
    <3> QED BY <1>5, <3>1, <3>2, <3>3 DEF EpisodeWritten
  <2>2. ~RouteWritten => r = Message("/route")
    <3>1. CASE script = <<Message("/route"), Message("/state")>>
      BY <3>1
    <3>2. CASE script = <<Message("/route")>>
      BY <3>2
    <3> QED BY <1>5, <3>1, <3>2 DEF EpisodeWritten, RouteWritten
  <2> QED BY <2>1, <2>2
<1> QED BY <1>1, <1>2, <1>3, <1>4, <1>5 DEF Writing, EpisodeWritten

LEMMA WrittenWrites ==
  ASSUME RecorderOK, WorldWritten, NEW r, NEW k, Writes(r, k) PROVE WorldWritten'
<1>1. PICK x, n : x = Says(r) /\ n = Len(log)
  OBVIOUS
<1>2. /\ log \in Seq(Record) /\ log' = Append(log, x) /\ n \in Nat /\ run \in Nat
      /\ episodes \in Nat /\ world.time \in Nat
      /\ script # <<>> /\ r = Head(script) /\ script' = Tail(script)
      /\ world' = world /\ sink' = sink /\ run' = run /\ episodes' = episodes
  BY <1>1 DEF RecorderOK, RecorderTyped, Writes, World
<1>3. sink = "up" /\ Writing /\ r \in Call
  BY <1>2, WritesTyped DEF RecorderOK, LogOK
<1>4. /\ x.op = r.op /\ x.topic = r.topic /\ x.run = run
      /\ x.episode = episodes - 1 /\ x.time = world.time /\ x.route = world.route
  BY <1>1 DEF Says
<1>5. /\ log'[n + 1] = x /\ DOMAIN log = 1 .. n /\ DOMAIN log' = 1 .. (n + 1)
      /\ \A i \in 1 .. n : log'[i] = log[i] /\ i # n + 1 /\ i <= n + 1
  BY <1>1, <1>2
<1>6. Present' = Present \cup {n + 1} /\ \A i \in Present : log'[i] = log[i] /\ i # n + 1 /\ i <= n + 1 /\ i \in Nat
  <2>1. \A i : i \in 1 .. (n + 1) <=> i \in 1 .. n \/ i = n + 1
    BY <1>2
  <2> QED BY <1>2, <1>4, <1>5, <2>1 DEF Present
<1>7. /\ r = Message("/episode") <=> IsOn(log', n + 1, "/episode")
      /\ Routing(log', n + 1) <=> r \in {Message("/route"), Message("/episode")}
  <2>1. r = [op |-> r.op, topic |-> r.topic]
    BY <1>3 DEF Call
  <2> QED BY <1>4, <1>5, <2>1 DEF IsOn, Routing, Message
<1>8. /\ EpisodeWritten => EpisodeWritten' /\ r # Message("/episode")
      /\ r = Message("/episode") => EpisodeWritten'
      /\ RouteWritten' /\ ~RouteWritten => r \in {Message("/route"), Message("/episode")}
  BY <1>2, <1>3, WritingGoesOn
<1>9. \A i \in Present : \A t : IsOn(log', i, t) = IsOn(log, i, t)
  BY <1>6 DEF IsOn
<1>10. \A i \in Present : Routing(log', i) = Routing(log, i)
  BY <1>9 DEF Routing
<1>11. ASSUME NEW i \in Present'
       PROVE  log'[i].episode <= episodes - 1 /\ (log'[i].episode = episodes - 1 => log'[i].time <= world.time)
  <2>1. CASE i = n + 1
    BY <1>2, <1>4, <1>5, <2>1
  <2>2. CASE i \in Present
    <3>1. log[i].episode <= episodes - 1 /\ (log[i].episode = episodes - 1 => log[i].time <= world.time)
      BY <1>3, <2>2 DEF WorldWritten
    <3> QED BY <1>6, <2>2, <3>1
  <2> QED BY <1>6, <2>1, <2>2
<1>12. ASSUME NEW i \in Present', IsOn(log', i, "/episode"), log'[i].episode = episodes - 1
       PROVE  EpisodeWritten' /\ \A h \in Present' : IsOn(log', h, "/episode") => h <= i
  <2>1. CASE i = n + 1
    BY <1>2, <1>6, <1>7, <1>8, <1>12, <2>1
  <2>2. CASE i \in Present
    <3>1. EpisodeWritten /\ \A h \in Present : IsOn(log, h, "/episode") => h <= i
      BY <1>3, <1>6, <1>9, <1>12, <2>2 DEF WorldWritten
    <3>2. EpisodeWritten' /\ ~IsOn(log', n + 1, "/episode")
      BY <1>7, <1>8, <3>1
    <3> QED BY <1>6, <1>9, <3>1, <3>2
  <2> QED BY <1>6, <2>1, <2>2
<1>13. ASSUME RouteWritten', NEW j \in Present', Routing(log', j), \A h \in Present' : Routing(log', h) => h <= j
       PROVE  log'[j].route = world.route
  <2>1. CASE Routing(log', n + 1)
    <3>1. j = n + 1
      BY <1>2, <1>6, <1>13, <2>1
    <3> QED BY <1>4, <1>5, <3>1
  <2>2. CASE ~Routing(log', n + 1)
    <3>1. RouteWritten /\ j \in Present
      BY <1>6, <1>7, <1>8, <1>13, <2>2
    <3>2. Routing(log, j) /\ \A h \in Present : Routing(log, h) => h <= j
      BY <1>6, <1>10, <1>13, <3>1
    <3>3. log[j].route = world.route
      BY <1>3, <3>1, <3>2 DEF WorldWritten
    <3> QED BY <1>6, <3>1, <3>3
  <2> QED BY <2>1, <2>2
<1> QED BY <1>2, <1>11, <1>12, <1>13 DEF WorldWritten

LEMMA WrittenAttach == ASSUME RecorderOK, Attach PROVE WorldWritten'
<1>1. run \in Nat /\ (\A i \in DOMAIN log : log[i] \in Record /\ log[i].run <= run) /\ log' = log /\ run' = run + 1
  BY DEF RecorderOK, RecorderTyped, LogOK, Attach
<1>2. \A i \in DOMAIN log : log[i].run # run'
  BY <1>1 DEF Record
<1>3. Present' = {}
  BY <1>1, <1>2 DEF Present
<1> QED BY <1>3 DEF WorldWritten

LEMMA WrittenReset == ASSUME RecorderOK, WorldWritten, NEW seed \in Seeds, Reset(seed) PROVE WorldWritten'
<1>1. /\ sink = "up" /\ log' = log /\ run' = run /\ sink' = sink /\ episodes' = episodes + 1
      /\ script' = <<Message("/episode"), Message("/state")>>
  BY DEF Reset, Ready, ResetMessages
<1>2. Present' = Present /\ episodes \in Nat
  BY <1>1 DEF Present, RecorderOK, RecorderTyped
<1>3. \A i \in Present : log[i].episode <= episodes - 1 /\ log[i].episode \in Nat
  <2>1. \A i \in Present : log[i] \in Record
    BY DEF Present, RecorderOK, RecorderTyped
  <2> QED BY <1>1, <2>1 DEF WorldWritten, Record
<1>4. \A i \in Present : log[i].episode <= episodes' - 1 /\ log[i].episode # episodes' - 1
  BY <1>1, <1>2, <1>3
<1>5. ~RouteWritten'
  BY <1>1, ScriptsDiffer DEF RouteWritten
<1> QED BY <1>1, <1>2, <1>4, <1>5 DEF WorldWritten

LEMMA TickScript ==
  ASSUME NEW replaced \in BOOLEAN, NEW due \in BOOLEAN, NEW live, Tick(replaced, due, live), sink = "up"
  PROVE  EpisodeWritten' /\ (RouteWritten' => ~replaced)
<1>1. \A a \in Call : <<a>> \o <<>> = <<a>> /\ <<>> \o <<a>> = <<a>> /\ <<>> \o <<>> = <<>>
  OBVIOUS
<1>2. \A a, b \in Call : <<a>> \o <<b>> = <<a, b>>
  BY CatOfTwo, Zenon
<1>3. script' = (IF replaced THEN <<Message("/route")>> ELSE <<>>)
                  \o (IF due /\ live THEN <<Message("/state")>> ELSE <<>>)
  BY DEF Tick
<1>4. Message("/route") \in Call /\ Message("/state") \in Call
  BY MessagesTyped DEF Topics
<1>5. CASE replaced
  <2>1. script' \in {<<Message("/route"), Message("/state")>>, <<Message("/route")>>}
    BY <1>1, <1>2, <1>3, <1>4, <1>5, Zenon
  <2> QED BY <2>1, ScriptsDiffer DEF EpisodeWritten, RouteWritten
<1>6. CASE ~replaced
  <2>1. script' \in {<<Message("/state")>>, <<>>}
    BY <1>1, <1>3, <1>4, <1>6, Zenon
  <2> QED BY <1>6, <2>1 DEF EpisodeWritten
<1> QED BY <1>5, <1>6

LEMMA WrittenTick ==
  ASSUME RecorderOK, WorldWritten,
         NEW replaced \in BOOLEAN, NEW due \in BOOLEAN, NEW live, Tick(replaced, due, live)
  PROVE  WorldWritten'
<1> SUFFICES ASSUME sink' = "up" PROVE WorldWritten'
  BY DEF WorldWritten
<1>1. sink = "up" /\ script = <<>> /\ log' = log /\ run' = run /\ sink' = sink /\ episodes' = episodes
  BY DEF Tick, Ready
<1>2. Present' = Present /\ \A i \in Present : log[i] \in Record
  BY <1>1 DEF Present, RecorderOK, RecorderTyped
<1>3. world.time \in Nat /\ world'.time = world.time + 1 /\ (~replaced => world'.route = world.route)
  <2>1. world \in World
    BY DEF RecorderOK, RecorderTyped
  <2> QED BY <2>1 DEF Tick, World
<1>4. EpisodeWritten' /\ (RouteWritten' => ~replaced)
  BY <1>1, TickScript
<1>5. RouteWritten
  BY <1>1 DEF RouteWritten
<1>6. \A i \in Present : log[i].time <= world.time => log[i].time <= world'.time
  BY <1>2, <1>3 DEF Record
<1>7. ASSUME NEW i \in Present
      PROVE  log[i].episode <= episodes - 1 /\ (log[i].episode = episodes - 1 => log[i].time <= world'.time)
  BY <1>1, <1>6 DEF WorldWritten
<1>8. ASSUME NEW i \in Present, IsOn(log, i, "/episode"), log[i].episode = episodes - 1
      PROVE  EpisodeWritten' /\ \A h \in Present : IsOn(log, h, "/episode") => h <= i
  BY <1>1, <1>4, <1>8 DEF WorldWritten
<1>9. ASSUME RouteWritten', NEW j \in Present, Routing(log, j), \A h \in Present : Routing(log, h) => h <= j
      PROVE  log[j].route = world'.route
  BY <1>1, <1>3, <1>4, <1>5, <1>9 DEF WorldWritten
<1> QED BY <1>1, <1>2, <1>7, <1>8, <1>9 DEF WorldWritten

(* A connection that is served is the present run's.                       *)
ServedNow == line = "served" => sink = "up" /\ since.run = run

WorldShown == VInv /\ WorldWritten /\ ServedNow

LEMMA WrittenStep == ASSUME RecorderOK, WorldWritten, [Next]_vars PROVE WorldWritten'
<1>1. CASE UNCHANGED recorderVars
  <2>1. /\ log' = log /\ run' = run /\ script' = script /\ sink' = sink /\ episodes' = episodes /\ world' = world
    BY <1>1 DEF recorderVars, simVars
  <2>2. Present' = Present /\ EpisodeWritten' = EpisodeWritten /\ RouteWritten' = RouteWritten
    BY <2>1 DEF Present, EpisodeWritten, RouteWritten
  <2> QED BY <2>1, <2>2 DEF WorldWritten
<1>2. CASE Simulates
  <2>1. CASE Attach
    BY <2>1, WrittenAttach
  <2>2. CASE \E seed \in Seeds : Reset(seed)
    BY <2>2, WrittenReset
  <2>3. CASE \E replaced, due, others \in BOOLEAN : Tick(replaced, due, line = "served" \/ others)
    BY <2>3, WrittenTick
  <2> QED BY <1>2, <2>1, <2>2, <2>3 DEF Simulates
<1>3. CASE RecorderWrites
  BY <1>3, WrittenWrites DEF RecorderWrites
<1>4. CASE StreamEnds
  BY <1>4 DEF StreamEnds, Finish, Finished, ProcessEnds, WorldWritten
<1>5. CASE Accepted \/ GiveUp \/ Reader \/ Viewer
  <2>1. UNCHANGED recorderVars
    <3>1. CASE Accepted \/ GiveUp
      BY <3>1 DEF Accepted, GiveUp
    <3>2. CASE Reader
      BY <3>2 DEF Reader, Dial, Refused, Read, ReadEnds
    <3>3. CASE Viewer
      BY <3>3 DEF Viewer, ConnectDisconnected, ConnectConnected, ConnectMessage, PollDisconnected, PollConnected,
                  PollForeign, PollEpisode, PollMessage, Poll, Take
    <3> QED BY <1>5, <3>1, <3>2, <3>3
  <2> QED BY <1>1, <2>1
<1>6. CASE UNCHANGED vars
  BY <1>1, <1>6 DEF vars
<1> QED BY <1>2, <1>3, <1>4, <1>5, <1>6 DEF Next

LEMMA ServedStep == ASSUME ServedNow, [Next]_vars PROVE ServedNow'
<1>1. CASE Simulates
  BY <1>1 DEF Simulates, Attach, Reset, Tick, lineVars, ServedNow
<1>2. CASE RecorderWrites
  BY <1>2 DEF RecorderWrites, Writes, lineVars, ServedNow
<1>3. CASE StreamEnds
  BY <1>3 DEF StreamEnds, LineEnds, Finish, Finished, ProcessEnds, ServedNow
<1>4. CASE Accepted
  BY <1>4 DEF Accepted, recorderVars, simVars, ServedNow
<1>5. CASE GiveUp \/ Reader
  BY <1>5 DEF GiveUp, Reader, Dial, Refused, Read, ReadEnds, recorderVars, simVars, lineVars, ServedNow
<1>6. CASE Viewer
  BY <1>6 DEF Viewer, ConnectDisconnected, ConnectConnected, ConnectMessage, PollDisconnected, PollConnected,
              PollForeign, PollEpisode, PollMessage, Poll, Take, recorderVars, simVars, lineVars, ServedNow
<1>7. CASE UNCHANGED vars
  BY <1>7 DEF vars, recorderVars, simVars, lineVars, ServedNow
<1> QED BY <1>1, <1>2, <1>3, <1>4, <1>5, <1>6, <1>7 DEF Next

(* The /episode of the episode the world is in: the run's latest.          *)
Current(e) ==
  /\ e \in Present /\ IsOn(log, e, "/episode") /\ Id(log, e) = <<episodes - 1, world.seed>>
  /\ \A h \in Present : IsOn(log, h, "/episode") => h <= e

LEMMA OnTopicIs ==
  ASSUME log \in Seq(Record), Orderly(log), NEW k \in DOMAIN log, log[k].topic \in {"/episode", "/route"}
  PROVE  IsOn(log, k, log[k].topic)
<1>1. log[k] \in Record /\ WellPlaced(log, k)
  BY DEF Orderly
<1>2. log[k].op = "message"
  BY <1>1 DEF Record, WellPlaced
<1> QED BY <1>2 DEF IsOn

(* From the current /episode on, what says a route is promised to any      *)
(* connection: the stream caches it.                                       *)
LEMMA CurrentPromised ==
  ASSUME log \in Seq(Record), Orderly(log), NEW e, Current(e), NEW m \in 0 .. Len(log),
         NEW h \in Present, Routing(log, h), e <= h
  PROVE  h \in CachedOf(log, run, m) \cup LiveOf(log, run, m)
<1>1. PICK n : n \in Nat /\ n = Len(log) /\ DOMAIN log = 1 .. n /\ m \in Nat /\ m <= n
  OBVIOUS
<1>2. h \in 1 .. n /\ e \in 1 .. n /\ log[h].run = run /\ log[h].op = "message"
  BY <1>1 DEF Present, Current, Routing, IsOn
<1>3. ASSUME NEW g \in OnTopic(log, run, m, "/meta") PROVE g < h
  <2>1. g \in 1 .. n /\ log[g].run = run /\ IsOn(log, g, "/meta")
    BY <1>1 DEF OnTopic, OfRun
  <2>2. \A f \in Earlier(log, g) : log[f].op = "channel"
    BY <1>1, <2>1 DEF Orderly, WellPlaced, IsOn
  <2>3. h \notin Earlier(log, g) /\ h # g
    BY <1>2, <2>1, <2>2 DEF Routing, IsOn
  <2> QED BY <1>1, <1>2, <2>1, <2>3 DEF Earlier
<1>4. \A g \in OnTopic(log, run, m, "/episode") : g \in Present /\ IsOn(log, g, "/episode") /\ g <= e /\ g \in Nat
  <2>1. \A g \in OnTopic(log, run, m, "/episode") : g \in Present /\ IsOn(log, g, "/episode") /\ g \in Nat
    BY <1>1 DEF OnTopic, OfRun, Present
  <2> QED BY <2>1 DEF Current
<1>5. CASE h <= m
  <2>1. CASE IsOn(log, h, "/episode")
    <3>1. h = e
      BY <1>2, <2>1 DEF Current
    <3>2. h \in OnTopic(log, run, m, "/episode")
      BY <1>1, <1>2, <1>5, <2>1 DEF OnTopic, OfRun
    <3> QED BY <1>3, <1>4, <3>1, <3>2 DEF CachedOf, Newest, Later
  <2>2. CASE IsOn(log, h, "/route")
    <3>1. h \in OnTopic(log, run, m, "/route") /\ e < h
      BY <1>1, <1>2, <1>5, <2>2 DEF OnTopic, OfRun, Current, IsOn
    <3>2. ASSUME NEW g \in OnTopic(log, run, m, "/episode") PROVE g < h
      <4>1. g \in Nat /\ g <= e /\ e \in Nat /\ h \in Nat /\ e < h
        BY <1>1, <1>2, <1>4, <3>1, <3>2
      <4> QED BY <4>1
    <3> QED BY <1>3, <3>1, <3>2 DEF CachedOf, Later
  <2> QED BY <2>1, <2>2 DEF Routing
<1>6. CASE ~(h <= m)
  BY <1>1, <1>2, <1>6 DEF LiveOf, OfRun
<1> QED BY <1>5, <1>6

(* Where a viewer stands that is up to date.                               *)
Caught(x, e) ==
  /\ Chain(x) /\ x.kind = "message" /\ x.record \in Present
  /\ log[x.record].op = "message" /\ log[x.record].topic # "/meta"
  /\ Current(e) /\ e <= x.record
  /\ \A h \in Present : Routing(log, h) /\ e <= h => h <= x.record

LEMMA AllRead == ASSUME WorldShown, UpToDate PROVE \E x \in Item, e \in Present : Caught(x, e)
<1>1. /\ log \in Seq(Record) /\ Orderly(log) /\ (\A i \in DOMAIN log : log[i] \in Record)
      /\ sink = "up" /\ since.run = run /\ script = <<>> /\ feed = <<>>
  BY DEF WorldShown, VInv, RecorderOK, RecorderTyped, LogOK, ServedNow, UpToDate
<1>2. InEpisode
  BY <1>1 DEF WorldShown, VInv, RecorderOK, LogOK, Writing, EpisodeStart
<1>3. PICK e \in Present : Current(e)
  BY <1>2 DEF InEpisode, Current, Id
<1>4. PICK m, p, n : m = since.at /\ p = Promised(log, run, m) /\ n = Len(p)
  OBVIOUS
<1>5. m \in 0 .. Len(log) /\ got = p
  BY <1>1, <1>4, PromiseIs DEF UpToDate, WorldShown, VInv, GivenOf
<1>6. p \in Seq(Nat) /\ n \in Nat /\ DOMAIN p = 1 .. n
  BY <1>1, <1>4, <1>5, PromisedOrder
<1>7. ASSUME NEW h \in Present, Routing(log, h), e <= h PROVE \E j \in DOMAIN p : p[j] = h /\ Sent(log, p, j)
  <2>1. h \in CachedOf(log, run, m) \cup LiveOf(log, run, m)
    BY <1>1, <1>3, <1>5, <1>7, CurrentPromised
  <2>2. PICK j \in DOMAIN p : p[j] = h
    BY <1>1, <1>4, <1>5, <2>1, PromisedOrder
  <2>3. h # 0
    BY <1>1, <1>7 DEF Present
  <2>4. log[h].op = "message"
    BY <1>7 DEF Routing, IsOn
  <2> QED BY <2>2, <2>3, <2>4 DEF Sent
<1> DEFINE S == {j \in 1 .. n : Sent(log, p, j)}
<1>8. Routing(log, e) /\ e <= e
  <2>1. e \in Nat
    BY <1>1 DEF Present
  <2> QED BY <1>3, <2>1 DEF Current, Routing
<1>9. S \in SUBSET (1 .. n) /\ S # {}
  BY <1>3, <1>6, <1>7, <1>8
<1>10. PICK i \in S : \A j \in S : j <= i
  BY <1>6, <1>9, HasLast
<1>11. i \in DOMAIN p /\ Sent(log, p, i) /\ \A j \in DOMAIN p : Sent(log, p, j) => j <= i
  BY <1>6, <1>10
<1>12. LastSent(log, p, i)
  BY <1>6, <1>11 DEF LastSent
<1>13. p[i] \in Present /\ log[p[i]].op = "message"
  <2>1. p[i] # 0 /\ log[p[i]].op = "message"
    BY <1>11 DEF Sent
  <2>2. p[i] \in OfRun(log, run, Len(log))
    BY <1>1, <1>4, <1>5, <1>11, <2>1, PromisedOrder
  <2> QED BY <1>1, <2>1, <2>2 DEF OfRun, Present
<1>14. ASSUME NEW h \in Present, Routing(log, h), e <= h PROVE h <= p[i]
  <2>1. PICK j \in DOMAIN p : p[j] = h /\ Sent(log, p, j)
    BY <1>7, <1>14
  <2>2. CASE j = i
    BY <1>6, <2>1, <2>2
  <2>3. CASE j < i
    <3>1. p[j] # 0 /\ p[i] # 0 /\ log[p[j]].op = "message" /\ log[p[i]].op = "message"
      BY <1>11, <2>1 DEF Sent
    <3>2. p[j] < p[i]
      BY <1>1, <1>4, <1>5, <1>11, <2>3, <3>1, PromisedOrder
    <3> QED BY <1>6, <1>11, <2>1, <3>2
  <2> QED BY <1>6, <1>11, <2>1, <2>2, <2>3
<1>15. e <= p[i]
  BY <1>3, <1>8, <1>14
<1>16. log[p[i]].topic # "/meta"
  <2> SUFFICES ASSUME log[p[i]].topic = "/meta" PROVE FALSE
    OBVIOUS
  <2>1. WellPlaced(log, p[i]) /\ p[i] \in Nat /\ e \in Nat /\ e # 0 /\ log[e].run = log[p[i]].run
    BY <1>1, <1>3, <1>13 DEF Present, Orderly
  <2>2. e # p[i] /\ log[e].op = "message"
    BY <1>3 DEF Current, IsOn
  <2>3. e \in Earlier(log, p[i])
    BY <1>15, <2>1, <2>2 DEF Earlier
  <2> QED BY <2>1, <2>2, <2>3 DEF WellPlaced
<1>17. PICK x \in Item : Chain(x)
  BY DEF WorldShown, VInv
<1>18. Ends(log, p, x)
  BY <1>1, <1>5, <1>17 DEF Chain, LastOf
<1>19. x.kind # "disconnected" /\ x.record = p[i] /\ x.kind # "connected"
  BY <1>11, <1>12, <1>16, <1>18 DEF Ends
<1>20. x.kind = "message"
  BY <1>19 DEF Item
<1>21. Caught(x, e)
  BY <1>3, <1>13, <1>14, <1>15, <1>16, <1>17, <1>19, <1>20 DEF Caught
<1> QED BY <1>3, <1>21

(* It shows the episode the world is in ...                                *)
LEMMA ShowsTheEpisode ==
  ASSUME WorldShown, UpToDate, NEW x \in Item, NEW e \in Present, Caught(x, e)
  PROVE  /\ shown # <<>> /\ Id(log, LastShown.of) = <<episodes - 1, world.seed>>
         /\ OnRoute(log, x.record, LastShown)
<1>1. PICK k : k = x.record
  OBVIOUS
<1>2. /\ log \in Seq(Record) /\ Orderly(log) /\ k \in Present /\ k \in DOMAIN log /\ e \in DOMAIN log
      /\ k \in Nat /\ e \in Nat /\ e # 0 /\ e <= k /\ log[k].topic # "/meta" /\ log[k] \in Record
      /\ log[k].run = run /\ log[e].run = run
  BY <1>1 DEF WorldShown, VInv, RecorderOK, RecorderTyped, LogOK, Caught, Present
<1>3. /\ shown # <<>> /\ Id(log, k) = Id(log, LastShown.of) /\ OnRoute(log, k, LastShown)
  BY <1>1 DEF Caught, Chain, Stands, UpToDate, LastShown
<1>4. Current(e)
  BY DEF Caught
<1>5. Id(log, k) = Id(log, e)
  <2>1. CASE log[k].topic = "/episode"
    <3>1. IsOn(log, k, "/episode")
      BY <1>2, <2>1, OnTopicIs
    <3> QED BY <1>2, <1>4, <3>1 DEF Current
  <2>2. CASE log[k].topic # "/episode"
    <3>1. e # k /\ IsOn(log, e, "/episode")
      BY <1>4, <2>2 DEF Current, IsOn
    <3>2. e \in Earlier(log, k)
      BY <1>2, <3>1 DEF Earlier
    <3>3. log[k].op = "message"
      BY <1>1 DEF Caught
    <3>4. log[k].topic \in {"/route", "/state"}
      BY <1>2, <2>2 DEF Record, Topics
    <3>5. PICK f \in Earlier(log, k) : Opens(log, f, k)
      BY <1>2, <3>3, <3>4 DEF Orderly, WellPlaced
    <3>6. e <= f /\ f \in Present /\ IsOn(log, f, "/episode") /\ SameEpisode(log[f], log[k])
      BY <1>2, <3>1, <3>2, <3>5 DEF Opens, Earlier, Present
    <3>7. f = e
      <4>1. f <= e /\ f \in Nat
        BY <1>2, <1>4, <3>6 DEF Current, Present
      <4> QED BY <1>2, <3>6, <4>1
    <3> QED BY <3>6, <3>7 DEF SameEpisode, Id
  <2> QED BY <2>1, <2>2
<1> QED BY <1>1, <1>3, <1>4, <1>5 DEF Current

ShownOfThisRun == \A k \in Records(LastShown) : log[k].run = run

(* ... and, if that was recorded in the present run, the route its agent   *)
(* has.                                                                    *)
LEMMA ShowsTheRoute ==
  ASSUME WorldShown, UpToDate, ShownOfThisRun, NEW t \in Points(LastShown.updates, world.time)
  PROVE  RouteAt(LastShown, t) = world.route
<1>1. PICK x \in Item, e \in Present : Caught(x, e)
  BY AllRead
<1>2. PICK o, u, l, k, n : o = LastShown /\ u = o.updates /\ l = Len(u) /\ k = x.record /\ n = Len(log)
  OBVIOUS
<1>3. /\ shown # <<>> /\ Id(log, o.of) = <<episodes - 1, world.seed>> /\ OnRoute(log, k, o)
  BY <1>1, <1>2, ShowsTheEpisode
<1>4. /\ log \in Seq(Record) /\ Orderly(log) /\ n \in Nat /\ DOMAIN log = 1 .. n /\ sink = "up" /\ script = <<>>
      /\ Present \subseteq 1 .. n /\ episodes \in Nat /\ world.time \in Nat
  BY <1>2 DEF WorldShown, VInv, RecorderOK, RecorderTyped, LogOK, ServedNow, UpToDate, Present, World
<1>5. o \in EpisodeShown /\ u \in Seq(Nat) /\ l \in Nat /\ DOMAIN u = 1 .. l /\ Len(shown) \in DOMAIN shown
      /\ o = shown[Len(shown)]
  <2>1. shown \in Seq(EpisodeShown) /\ Len(shown) \in DOMAIN shown
    BY <1>3 DEF WorldShown, VInv
  <2>2. o \in EpisodeShown /\ o = shown[Len(shown)]
    BY <1>2, <2>1 DEF LastShown
  <2> QED BY <1>2, <2>1, <2>2 DEF EpisodeShown
<1>6. Placed(log, o) /\ \A h \in Records(o) : h \in Present /\ Id(log, h) = <<episodes - 1, world.seed>>
  <2>1. Placed(log, o) /\ \A h \in Records(o) : h \in DOMAIN log /\ Id(log, h) = Id(log, o.of)
    BY <1>5 DEF WorldShown, VInv, Right
  <2>2. \A h \in Records(o) : log[h].run = run
    BY <1>2 DEF ShownOfThisRun
  <2> QED BY <1>3, <2>1, <2>2 DEF Present
<1>7. Current(e) /\ e \in 1 .. n /\ e <= k /\ k \in Present
  BY <1>1, <1>2, <1>4 DEF Caught
(* One /episode has the present number.                                    *)
<1>8. ASSUME NEW f \in Present, IsOn(log, f, "/episode"), log[f].episode = episodes - 1 PROVE f = e
  <2>1. \A h \in Present : IsOn(log, h, "/episode") => h <= f
    BY <1>4, <1>8 DEF WorldShown, WorldWritten
  <2>2. e <= f /\ f <= e
    BY <1>7, <1>8, <2>1 DEF Current
  <2> QED BY <1>4, <1>7, <2>2
<1>9. o.of = e
  <2>1. o.of \in Present /\ log[o.of].episode = episodes - 1
    BY <1>6 DEF Records, Id
  <2>2. IsOn(log, o.of, "/episode")
    BY <1>4, <1>6, <2>1, OnTopicIs DEF Placed, Present
  <2> QED BY <1>8, <2>1, <2>2
(* The updates come after it, and none is of the future.                   *)
<1>10. ASSUME NEW i \in 1 .. l
       PROVE  u[i] \in Present /\ IsOn(log, u[i], "/route") /\ e < u[i] /\ log[u[i]].time <= world.time
  <2>1. PICK h : h = u[i]
    OBVIOUS
  <2>2. h \in Records(o) /\ h \in Range(u)
    BY <1>2, <1>5, <2>1 DEF Records, Range
  <2>3. h \in Present /\ log[h].episode = episodes - 1 /\ log[h].topic = "/route"
    BY <1>2, <1>6, <2>2 DEF Id, Placed
  <2>4. IsOn(log, h, "/route")
    BY <1>4, <2>3, OnTopicIs DEF Present
  <2>5. log[h].time <= world.time
    BY <1>4, <2>3 DEF WorldShown, WorldWritten
  <2>6. PICK f \in Earlier(log, h) : Opens(log, f, h)
    BY <1>4, <2>3, <2>4 DEF Orderly, WellPlaced, Present, IsOn
  <2>7. f \in Present /\ f < h /\ IsOn(log, f, "/episode") /\ log[f].episode = episodes - 1
    BY <1>4, <2>3, <2>6 DEF Earlier, Opens, SameEpisode, Present
  <2>8. f = e
    BY <1>8, <2>7
  <2> QED BY <2>1, <2>3, <2>4, <2>5, <2>7, <2>8
<1>11. t = l
  <2>1. t \in 0 .. l /\ (t < l => log[u[t + 1]].time > world.time)
    BY <1>2 DEF Points
  <2>2. t < l => t + 1 \in 1 .. l
    BY <1>5, <2>1
  <2>3. t < l => log[u[t + 1]].time <= world.time /\ log[u[t + 1]].time \in Nat
    <3> SUFFICES ASSUME t < l PROVE log[u[t + 1]].time <= world.time /\ log[u[t + 1]].time \in Nat
      OBVIOUS
    <3>1. u[t + 1] \in Present /\ log[u[t + 1]].time <= world.time
      BY <1>10, <2>2
    <3>2. log[u[t + 1]] \in Record
      <4>1. u[t + 1] \in DOMAIN log /\ log \in Seq(Record)
        BY <1>4, <3>1 DEF Present
      <4> QED BY <4>1
    <3> QED BY <3>1, <3>2 DEF Record
  <2>4. ~(t < l)
    BY <1>4, <2>1, <2>3
  <2> QED BY <1>5, <2>1, <2>4
(* The latest record that says a route.                                    *)
<1> DEFINE S == {h \in 1 .. n : h \in Present /\ Routing(log, h)}
<1>12. S \in SUBSET (1 .. n) /\ S # {}
  BY <1>4, <1>7 DEF Current, Routing
<1>13. PICK j \in S : \A h \in S : h <= j
  BY <1>4, <1>12, HasLast
<1>14. /\ j \in Present /\ Routing(log, j) /\ j \in 1 .. n /\ e <= j
       /\ \A h \in Present : Routing(log, h) => h <= j
  BY <1>4, <1>7, <1>13 DEF Current, Routing
<1>15. log[j].route = world.route
  BY <1>4, <1>14 DEF WorldShown, WorldWritten, RouteWritten
<1>16. j <= k
  BY <1>1, <1>2, <1>14 DEF Caught
<1>17. CASE IsOn(log, j, "/route")
  <2>1. LatestRoute(log, k, j)
    <3>1. k \in 1 .. n /\ log[k].run = run /\ log[j].run = run
      BY <1>4, <1>7, <1>14 DEF Present
    <3>2. j \in UpTo(log, k)
      BY <1>14, <1>16, <3>1 DEF UpTo, Earlier
    <3>3. UpTo(log, k) \subseteq Present
      BY <1>4, <3>1 DEF UpTo, Earlier, Present
    <3> QED BY <1>14, <1>17, <3>2, <3>3 DEF LatestRoute, IsOn
  <2>2. u # <<>> /\ u[l] = j
    BY <1>2, <1>3, <2>1 DEF OnRoute
  <2>3. l > 0
    BY <1>2, <1>5, <2>2
  <2> QED BY <1>2, <1>11, <1>15, <2>2, <2>3 DEF RouteAt
<1>18. CASE IsOn(log, j, "/episode")
  <2>1. j = e
    BY <1>4, <1>7, <1>14, <1>18 DEF Current
  <2>2. l = 0
    <3> SUFFICES ASSUME l # 0 PROVE FALSE
      OBVIOUS
    <3>1. l \in 1 .. l
      BY <1>5
    <3>2. u[l] \in Present /\ Routing(log, u[l]) /\ e < u[l]
      BY <1>10, <3>1 DEF Routing
    <3>3. u[l] <= j /\ u[l] \in 1 .. n
      BY <1>4, <1>14, <3>2
    <3> QED BY <1>7, <2>1, <3>2, <3>3
  <2> QED BY <1>2, <1>9, <1>11, <1>15, <2>1, <2>2 DEF RouteAt
<1> QED BY <1>14, <1>17, <1>18 DEF Routing

LEMMA WorldShownAlways == Spec => []WorldShown
<1>1. Init => WorldShown
  <2> SUFFICES ASSUME Init PROVE WorldShown
    OBVIOUS
  <2>1. sink = "none" /\ line = "off"
    BY DEF Init, InitRecorder
  <2> QED BY <2>1, ViewerInitOK DEF WorldShown, WorldWritten, ServedNow
<1>2. WorldShown /\ [Next]_vars => WorldShown'
  <2> SUFFICES ASSUME WorldShown, [Next]_vars PROVE WorldShown'
    OBVIOUS
  <2>1. VInv /\ WorldWritten /\ ServedNow /\ RecorderOK
    BY DEF WorldShown, VInv
  <2> QED BY <2>1, ViewerStepOK, WrittenStep, ServedStep DEF WorldShown
<1> QED BY <1>1, <1>2, PTL DEF Spec

(* A viewer that has taken all there is shows the world's episode; and an  *)
(* agent on the route it has (route_at), if no record of the episode shown *)
(* is of an earlier run: a process that was started again with the same    *)
(* scenario and seed goes on in an episode of the one before (poll's       *)
(* resumed), with that one's routes.                                       *)
THEOREM ShowsTheWorldOfTheRun ==
  Spec => [](/\ UpToDate => EpisodeId(LastShown.of) = <<episodes - 1, world.seed>>
             /\ ShownOfThisRun => ShowsTheWorld)
<1>1. ASSUME WorldShown
      PROVE  /\ UpToDate => EpisodeId(LastShown.of) = <<episodes - 1, world.seed>>
             /\ ShownOfThisRun => ShowsTheWorld
  <2>1. ASSUME UpToDate PROVE EpisodeId(LastShown.of) = <<episodes - 1, world.seed>>
    <3>1. PICK x \in Item, e \in Present : Caught(x, e)
      BY <1>1, <2>1, AllRead
    <3>2. Id(log, LastShown.of) = <<episodes - 1, world.seed>>
      BY <1>1, <2>1, <3>1, ShowsTheEpisode
    <3> QED BY <3>2 DEF Id, EpisodeId
  <2>2. ASSUME ShownOfThisRun, UpToDate, NEW t \in Points(LastShown.updates, world.time)
        PROVE  RouteAt(LastShown, t) = world.route
    BY <1>1, <2>2, ShowsTheRoute
  <2> QED BY <2>1, <2>2 DEF ShowsTheWorld
<1> QED BY <1>1, WorldShownAlways, PTL

(* With one run, whatever connections were lost and made again, a viewer   *)
(* that is up to date shows the world.                                     *)
THEOREM ShowsTheWorldAlways == ASSUME MaxRuns <= 1 PROVE Spec => []ShowsTheWorld
<1> DEFINE OneRun == run <= 1 /\ \A i \in DOMAIN log : log[i].run # 0
<1>1. Init => OneRun
  <2> SUFFICES ASSUME Init PROVE OneRun
    OBVIOUS
  <2>1. run = 0 /\ log = <<>>
    BY DEF Init, InitRecorder
  <2> QED BY <2>1
<1>2. WorldShown /\ OneRun /\ [Next]_vars => OneRun'
  <2> SUFFICES ASSUME WorldShown, OneRun, [Next]_vars PROVE OneRun'
    OBVIOUS
  <2>1. run \in Nat /\ MaxRuns \in Nat
    BY RecorderAssumption DEF WorldShown, VInv, RecorderOK, RecorderTyped
  <2>2. CASE Attach
    BY <2>1, <2>2 DEF Attach
  <2>3. CASE UNCHANGED <<run, log>>
    BY <2>3
  <2>4. CASE RecorderWrites
    <3>1. PICK r : Writes(r, Len(log) + 1)
      BY <2>4 DEF RecorderWrites
    <3>2. script # <<>> /\ log' = Append(log, Says(r)) /\ run' = run /\ log \in Seq(Record)
      BY <3>1 DEF Writes, WorldShown, VInv, RecorderOK, RecorderTyped
    <3>3. Says(r).run # 0
      BY <3>2 DEF Says, WorldShown, VInv, RecorderOK, LogOK
    <3> QED BY <3>2, <3>3
  <2>5. CASE Simulates \/ StreamEnds
    BY <2>2, <2>3, <2>5 DEF Simulates, StreamEnds, Reset, Tick, Finish, Finished, ProcessEnds
  <2>6. CASE Accepted \/ GiveUp \/ Reader \/ UNCHANGED vars
    BY <2>3, <2>6 DEF Accepted, GiveUp, Reader, Dial, Refused, Read, ReadEnds, vars, recorderVars, simVars
  <2>7. CASE Viewer
    BY <2>3, <2>7 DEF Viewer, ConnectDisconnected, ConnectConnected, ConnectMessage, PollDisconnected, PollConnected,
                PollForeign, PollEpisode, PollMessage, Poll, Take, recorderVars, simVars
  <2> QED BY <2>4, <2>5, <2>6, <2>7 DEF Next
<1>3. ASSUME WorldShown, OneRun PROVE UpToDate => ShownOfThisRun
  <2> SUFFICES ASSUME UpToDate, NEW k \in Records(LastShown) PROVE log[k].run = run
    BY DEF ShownOfThisRun
  <2>1. PICK x \in Item, e \in Present : Caught(x, e)
    BY <1>3, AllRead
  <2>2. shown # <<>>
    BY <1>3, <2>1, ShowsTheEpisode
  <2>3. shown \in Seq(EpisodeShown) /\ Right(log, rec, shown) /\ log \in Seq(Record) /\ run \in Nat
        /\ \A i \in DOMAIN log : log[i] \in Record /\ log[i].run <= run
    BY <1>3 DEF WorldShown, VInv, RecorderOK, RecorderTyped, LogOK
  <2>4. Len(shown) \in DOMAIN shown
    BY <2>2, <2>3
  <2>5. k \in DOMAIN log
    BY <2>3, <2>4 DEF LastShown, Right
  <2>6. log[k].run \in Nat /\ log[k].run # 0 /\ log[k].run <= run /\ run <= 1
    BY <1>3, <2>3, <2>5 DEF Record
  <2> QED BY <2>3, <2>6
<1>4. ShowsTheWorld \/ UpToDate
  BY DEF ShowsTheWorld
<1> HIDE DEF OneRun
<1> QED BY <1>1, <1>2, <1>3, <1>4, WorldShownAlways, ShowsTheWorldOfTheRun, PTL DEF Spec

=============================================================================
