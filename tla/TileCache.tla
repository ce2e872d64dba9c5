------------------------------ MODULE TileCache ------------------------------
(***************************************************************************)
(* The shared tile cache of a TiledMap (crates/world/src/tiles.rs): the    *)
(* RwLock'd map of entries, the OnceLock of each entry, the per-thread     *)
(* list of recent tiles, the prefetch queue and its background threads.    *)
(*                                                                         *)
(* Callers are the threads that step worlds; Workers the background        *)
(* threads.  A step is what the code does between two points where another *)
(* thread can come in: an atomic load or store, one hold of the read lock, *)
(* one iteration of the eviction loop under the write lock.                *)
(***************************************************************************)
EXTENDS Naturals, FiniteSets, Sequences, SequencesExt

CONSTANTS
  Callers,    \* threads calling tile() and prefetch()
  Workers,    \* background threads of prefetch_queue()
  Tiles,      \* tile indices (plus one, so that 0 is no tile)
  Capacity,   \* capacity given to TiledMap::new, which takes it as 1 at least
  Reserves,   \* arguments of reserve()
  Recent,     \* length of a thread's recent list (RECENT, 8 in the code)
  MaxCalls    \* bound of the model: calls of each caller

ASSUME TileCacheAssumption ==
  /\ Callers \cap Workers = {}
  /\ Tiles \subseteq Nat \ {0}
  /\ IsFiniteSet(Tiles)
  /\ Capacity \in Nat
  /\ Reserves \subseteq Nat
  /\ Recent \in Nat \ {0}
  /\ MaxCalls \in Nat

VARIABLES
  entries,    \* every Entry ever made, by number: the Arcs
  cache,      \* tile -> number of its entry in the shared map, or 0
  lock,       \* who holds the cache's write lock for an eviction
  clock,
  generated,
  capacity,
  queue,      \* entries of the jobs sent to the background threads
  recents,    \* caller -> entries of its RECENT_TILES, last used first
  pc,
  reg,        \* locals of the running call or job of each thread
  calls

vars == <<entries, cache, lock, clock, generated, capacity, queue, recents, pc,
          reg, calls>>

Threads == Callers \cup Workers
Free == "free"

Entry == [tile : Tiles, state : {"empty", "running", "done"}, used : Nat]

Locals(i, c, e, ins) == [tile |-> i, clock |-> c, entry |-> e, inserted |-> ins]
Idle == Locals(0, 0, 0, FALSE)

Cached == {i \in Tiles : cache[i] # 0}

(* The tile's cell is set: OnceLock::get is Some.                          *)
Ready(e) == entries[e].state = "done"

(* Entries whose inserter (a call, a prefetch or its job) has its          *)
(* eviction still to run.                                                  *)
Owed == {reg[t].entry : t \in {u \in Threads : reg[u].inserted}} \cup Range(queue)
OwedTiles == {entries[e].tile : e \in Owed}

InitWith(n) ==
  /\ entries = <<>>
  /\ cache = [i \in Tiles |-> 0]
  /\ lock = Free
  /\ clock = 0
  /\ generated = 0
  /\ capacity = n
  /\ queue = <<>>
  /\ recents = [t \in Callers |-> <<>>]
  /\ pc = [t \in Threads |-> "idle"]
  /\ reg = [t \in Threads |-> Idle]
  /\ calls = [t \in Callers |-> 0]

Init == InitWith(IF Capacity = 0 THEN 1 ELSE Capacity)

Goto(t, from, to) == pc[t] = from /\ pc' = [pc EXCEPT ![t] = to]

(* A call begins: one of MaxCalls.                                         *)
Begin(t) == calls[t] < MaxCalls /\ calls' = [calls EXCEPT ![t] = @ + 1]

(* A new entry for tile i enters the shared map.                           *)
NewEntry(i, used) ==
  /\ entries' = Append(entries, [tile |-> i, state |-> "empty", used |-> used])
  /\ cache' = [cache EXCEPT ![i] = Len(entries) + 1]

-----------------------------------------------------------------------------
(* TiledMap::tile                                                          *)

(* The clock is read before the thread's own list is searched.             *)
Tile(t, i) ==
  /\ Begin(t)
  /\ Goto(t, "idle", "recent")
  /\ reg' = [reg EXCEPT ![t] = Locals(i, clock, 0, FALSE)]
  /\ UNCHANGED <<entries, cache, lock, clock, generated, capacity, queue, recents>>

InRecents(t) ==
  {k \in DOMAIN recents[t] : entries[recents[t][k]].tile = reg[t].tile}

(* Slip: the entry is put in front and stays where it was.                 *)
RecentHitStays(t) == pc[t] = "recent" /\ \E k \in InRecents(t) :
  /\ \A j \in InRecents(t) : k <= j
  /\ Goto(t, "recent", "idle")
  /\ entries' = [entries EXCEPT ![recents[t][k]].used = reg[t].clock]
  /\ recents' = [recents EXCEPT ![t] = <<@[k]>> \o @]
  /\ reg' = [reg EXCEPT ![t] = Idle]
  /\ UNCHANGED <<cache, lock, clock, generated, capacity, queue, calls>>

RecentHit(t) == pc[t] = "recent" /\ \E k \in InRecents(t) :
  /\ \A j \in InRecents(t) : k <= j
  /\ Goto(t, "recent", "idle")
  /\ entries' = [entries EXCEPT ![recents[t][k]].used = reg[t].clock]
  /\ recents' = [recents EXCEPT ![t] = <<@[k]>> \o RemoveAt(@, k)]
  /\ reg' = [reg EXCEPT ![t] = Idle]
  /\ UNCHANGED <<cache, lock, clock, generated, capacity, queue, calls>>

RecentMiss(t) ==
  /\ Goto(t, "recent", "lookup")
  /\ InRecents(t) = {}
  /\ clock' = clock + 1
  /\ reg' = [reg EXCEPT ![t] = Locals(@.tile, clock + 1, 0, FALSE)]
  /\ UNCHANGED <<entries, cache, lock, generated, capacity, queue, recents, calls>>

(* Under the read lock.                                                    *)
Lookup(t) ==
  /\ lock = Free
  /\ LET e == cache[reg[t].tile] IN
       /\ Goto(t, "lookup", IF e = 0 THEN "insert" ELSE "touch")
       /\ reg' = [reg EXCEPT ![t] = Locals(@.tile, @.clock, e, FALSE)]
  /\ UNCHANGED <<entries, cache, lock, clock, generated, capacity, queue, recents, calls>>

(* Under the write lock: another thread may have been faster.              *)
Insert(t) ==
  /\ Goto(t, "insert", "touch")
  /\ lock = Free
  /\ LET e == cache[reg[t].tile] IN
       \/ /\ e # 0
          /\ reg' = [reg EXCEPT ![t] = Locals(@.tile, @.clock, e, FALSE)]
          /\ UNCHANGED <<entries, cache>>
       \/ /\ e = 0
          /\ NewEntry(reg[t].tile, reg[t].clock)
          /\ reg' = [reg EXCEPT ![t] = Locals(@.tile, @.clock, Len(entries) + 1, TRUE)]
  /\ UNCHANGED <<lock, clock, generated, capacity, queue, recents, calls>>

Touch(t) ==
  /\ Goto(t, "touch", "get")
  /\ entries' = [entries EXCEPT ![reg[t].entry].used = reg[t].clock]
  /\ UNCHANGED <<cache, lock, clock, generated, capacity, queue, recents, reg, calls>>

(* OnceLock::get_or_init: the first thread generates, the others wait for  *)
(* it; a set cell is read at once.                                         *)
(* Slip: a thread that finds its entry generated does not evict.           *)
GetReadyForgets(t) ==
  /\ Goto(t, "get", "got")
  /\ Ready(reg[t].entry)
  /\ reg' = [reg EXCEPT ![t] = Locals(@.tile, @.clock, @.entry, FALSE)]
  /\ UNCHANGED <<entries, cache, lock, clock, generated, capacity, queue, recents, calls>>

GetReady(t) ==
  /\ Goto(t, "get", "got")
  /\ Ready(reg[t].entry)
  /\ UNCHANGED <<entries, cache, lock, clock, generated, capacity, queue, recents, reg, calls>>

(* Slip: the cell is checked and set without a OnceLock.                   *)
StartGenerateUnlocked(t) ==
  /\ Goto(t, "get", "generate")
  /\ ~Ready(reg[t].entry)
  /\ entries' = [entries EXCEPT ![reg[t].entry].state = "running"]
  /\ generated' = generated + 1
  /\ UNCHANGED <<cache, lock, clock, capacity, queue, recents, reg, calls>>

StartGenerate(t) ==
  /\ Goto(t, "get", "generate")
  /\ entries[reg[t].entry].state = "empty"
  /\ entries' = [entries EXCEPT ![reg[t].entry].state = "running"]
  /\ generated' = generated + 1
  /\ UNCHANGED <<cache, lock, clock, capacity, queue, recents, reg, calls>>

Generate(t) ==
  /\ Goto(t, "generate", "got")
  /\ entries' = [entries EXCEPT ![reg[t].entry].state = "done"]
  /\ UNCHANGED <<cache, lock, clock, generated, capacity, queue, recents, reg, calls>>

(* The tile goes to the front of the thread's list and to the caller.      *)
Return(t) ==
  /\ Goto(t, "got", "idle")
  /\ ~reg[t].inserted
  /\ recents' = [recents EXCEPT
       ![t] = SubSeq(<<reg[t].entry>> \o @, 1, IF Len(@) < Recent THEN Len(@) + 1 ELSE Recent)]
  /\ reg' = [reg EXCEPT ![t] = Idle]
  /\ UNCHANGED <<entries, cache, lock, clock, generated, capacity, queue, calls>>

-----------------------------------------------------------------------------
(* TiledMap::evict: the loop runs under the write lock, but entries are    *)
(* generated and touched without it, so every round looks again.           *)

StartEvict(t) ==
  /\ lock = Free
  /\ lock' = t
  /\ \/ t \in Callers /\ reg[t].inserted /\ Goto(t, "got", "evict")
     \/ t \in Workers /\ Goto(t, "fresh", "evict")
  /\ UNCHANGED <<entries, cache, clock, generated, capacity, queue, recents, reg, calls>>

(* Slip: tiles under way are evicted too.                                  *)
EvictableAny(keep) == Cached \ {keep}

Evictable(keep) == {i \in Cached \ {keep} : Ready(cache[i])}

(* Less recently used; the lower index goes first of two used alike.       *)
Older(i, j) ==
  LET u == entries[cache[i]].used  v == entries[cache[j]].used IN
    u < v \/ (u = v /\ i <= j)

EvictOne(t) ==
  /\ pc[t] = "evict"
  /\ Cardinality(Cached) > capacity
  /\ \E i \in Evictable(reg[t].tile) :
       /\ \A j \in Evictable(reg[t].tile) : Older(i, j)
       /\ cache' = [cache EXCEPT ![i] = 0]
  /\ UNCHANGED <<entries, lock, clock, generated, capacity, queue, recents, pc, reg, calls>>

(* Slip: the loop has no way out when nothing can be evicted.              *)
EvictDoneAtCapacity(t) ==
  /\ Goto(t, "evict", IF t \in Callers THEN "got" ELSE "idle")
  /\ Cardinality(Cached) <= capacity
  /\ lock' = Free
  /\ reg' = [reg EXCEPT ![t] =
       IF t \in Callers THEN Locals(@.tile, @.clock, @.entry, FALSE) ELSE Idle]
  /\ UNCHANGED <<entries, cache, clock, generated, capacity, queue, recents, calls>>

(* Slip: a background thread ends with its first job.                      *)
EvictDoneOnce(t) ==
  /\ Goto(t, "evict", IF t \in Callers THEN "got" ELSE "ended")
  /\ Cardinality(Cached) <= capacity \/ Evictable(reg[t].tile) = {}
  /\ lock' = Free
  /\ reg' = [reg EXCEPT ![t] =
       IF t \in Callers THEN Locals(@.tile, @.clock, @.entry, FALSE) ELSE Idle]
  /\ UNCHANGED <<entries, cache, clock, generated, capacity, queue, recents, calls>>

EvictDone(t) ==
  /\ Goto(t, "evict", IF t \in Callers THEN "got" ELSE "idle")
  /\ Cardinality(Cached) <= capacity \/ Evictable(reg[t].tile) = {}
  /\ lock' = Free
  /\ reg' = [reg EXCEPT ![t] =
       IF t \in Callers THEN Locals(@.tile, @.clock, @.entry, FALSE) ELSE Idle]
  /\ UNCHANGED <<entries, cache, clock, generated, capacity, queue, recents, calls>>

-----------------------------------------------------------------------------
(* TiledMap::prefetch and the background threads                           *)

(* The check under the read lock is repeated under the write lock; a tile  *)
(* in the map ends the call.                                               *)
Prefetch(t, i) ==
  /\ lock = Free
  /\ cache[i] = 0
  /\ Begin(t)
  /\ Goto(t, "idle", "send")
  /\ clock' = clock + 1
  /\ NewEntry(i, clock + 1)
  /\ reg' = [reg EXCEPT ![t] = Locals(i, 0, Len(entries) + 1, TRUE)]
  /\ UNCHANGED <<lock, generated, capacity, queue, recents>>

Send(t) ==
  /\ Goto(t, "send", "idle")
  /\ queue' = Append(queue, reg[t].entry)
  /\ reg' = [reg EXCEPT ![t] = Idle]
  /\ UNCHANGED <<entries, cache, lock, clock, generated, capacity, recents, calls>>

Take(w) ==
  /\ Goto(w, "idle", "get")
  /\ queue # <<>>
  /\ queue' = Tail(queue)
  /\ reg' = [reg EXCEPT ![w] = Locals(entries[Head(queue)].tile, 0, Head(queue), TRUE)]
  /\ UNCHANGED <<entries, cache, lock, clock, generated, capacity, recents, calls>>

(* A job marks its tile fresh before it evicts others.                     *)
Freshen(w) ==
  /\ Goto(w, "got", "fresh")
  /\ clock' = clock + 1
  /\ entries' = [entries EXCEPT ![reg[w].entry].used = clock + 1]
  /\ UNCHANGED <<cache, lock, generated, capacity, queue, recents, reg, calls>>

Reserve(n) ==
  /\ n > capacity
  /\ capacity' = n
  /\ UNCHANGED <<entries, cache, lock, clock, generated, queue, recents, pc, reg, calls>>

-----------------------------------------------------------------------------
Own(t) == RecentHit(t) \/ RecentMiss(t) \/ Lookup(t) \/ Insert(t) \/ Touch(t) \/ Return(t) \/ Send(t)
Background(w) == Take(w) \/ Freshen(w)
Shared(t) == GetReady(t) \/ StartGenerate(t) \/ Generate(t) \/ StartEvict(t) \/ EvictOne(t) \/ EvictDone(t)

Next ==
  \/ \E t \in Callers, i \in Tiles : Tile(t, i) \/ Prefetch(t, i)
  \/ \E t \in Callers : Own(t)
  \/ \E w \in Workers : Background(w)
  \/ \E t \in Threads : Shared(t)
  \/ \E n \in Reserves : Reserve(n)

Spec == Init /\ [][Next]_vars

(* Threads are scheduled: a call or job under way goes on whenever it can. *)
(* Nobody has to call.                                                     *)
Fairness ==
  /\ \A t \in Callers : WF_vars(Own(t) \/ Shared(t))
  /\ \A w \in Workers : WF_vars(Background(w) \/ Shared(w))

FairSpec == Spec /\ Fairness

-----------------------------------------------------------------------------
TypeOK ==
  /\ entries \in Seq(Entry)
  /\ cache \in [Tiles -> 0..Len(entries)]
  /\ lock \in Threads \cup {Free}
  /\ clock \in Nat
  /\ generated \in Nat
  /\ capacity \in Nat \ {0}
  /\ queue \in Seq(1..Len(entries))
  /\ recents \in [Callers -> Seq(1..Len(entries))]
  /\ pc \in [Threads -> {"idle", "recent", "lookup", "insert", "touch", "get", "generate",
                         "got", "evict", "send", "fresh"}]
  /\ reg \in [Threads -> [tile : Tiles \cup {0}, clock : Nat,
                          entry : 0..Len(entries), inserted : BOOLEAN]]
  /\ calls \in [Callers -> 0..MaxCalls]

(* "A shared cache that keeps at most capacity tiles" (tiles.rs:18): the   *)
(* tiles beyond capacity are those whose inserter has its eviction still   *)
(* to run, so the cache is back at its capacity when no call or job is     *)
(* under way, whatever the order in which insertions, generation by        *)
(* another thread and evictions come.                                      *)
SizeBound == Cardinality(Cached \ OwedTiles) <= capacity

(* A tile being generated is never evicted, nor looked for in vain: until  *)
(* it is done, its entry is the one in the map, so no tile is generated by *)
(* two threads at once ("cached or under way", prefetch).                  *)
UnderWayIsCached ==
  \A e \in DOMAIN entries : ~Ready(e) => cache[entries[e].tile] = e

(* get_or_init runs the generator at most once for an entry: every         *)
(* generation counted belongs to another entry, and a running one has one  *)
(* thread.                                                                 *)
GeneratedOnce ==
  /\ generated = Cardinality({e \in DOMAIN entries : entries[e].state # "empty"})
  /\ \A e \in DOMAIN entries : entries[e].state = "running" =>
       Cardinality({t \in Threads : pc[t] = "generate" /\ reg[t].entry = e}) = 1

(* A call of tile() that found nothing in the thread's own list.           *)
Looking == {"lookup", "insert", "touch", "get", "generate", "got", "evict"}

(* Two copies of a tile may be in use, but not by one thread: however      *)
(* often the tile is evicted and generated again meanwhile, a thread that  *)
(* remembers it goes on with the copy it has, and one that looks for it    *)
(* remembers none.  So beside the cached copy there is at most one for     *)
(* each thread; and what a thread remembers is finished, as a hit answers  *)
(* without looking at the cell (tile's search of RECENT_TILES).            *)
OneCopyEach == \A t \in Callers :
  /\ Len(recents[t]) <= Recent
  /\ \A k \in DOMAIN recents[t] : Ready(recents[t][k])
  /\ \A j, k \in DOMAIN recents[t] :
       entries[recents[t][j]].tile = entries[recents[t][k]].tile => j = k
  /\ pc[t] \in Looking =>
       \A k \in DOMAIN recents[t] : entries[recents[t][k]].tile # reg[t].tile

(* Nobody waits forever: every call returns (the thread that generates     *)
(* the tile never waits for one of those waiting for it, and the eviction  *)
(* loop ends), and every prefetched tile is generated.                     *)
CallsReturn == \A t \in Callers : pc[t] # "idle" ~> pc[t] = "idle"
PrefetchRuns == \A e \in 1..(MaxCalls * Cardinality(Callers)) :
  e \in Range(queue) ~> e \in DOMAIN entries /\ Ready(e)
=============================================================================
