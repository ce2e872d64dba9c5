--------------------------- MODULE TileCacheProofs ---------------------------
(***************************************************************************)
(* TileCache for any number of threads and tiles, any capacity and any     *)
(* number of calls: the type invariant, that a tile under way stays in the *)
(* cache, and the bound on the cache's size.                               *)
(***************************************************************************)
EXTENDS TileCache, FiniteSetTheorems, SequenceTheorems, TLAPS

PCs == {"idle", "recent", "lookup", "insert", "touch", "get", "generate", "got",
        "evict", "send", "fresh"}
Regs(n) == [tile : Tiles \cup {0}, clock : Nat, entry : 0..n, inserted : BOOLEAN]

HasEntry == {"touch", "get", "generate", "got", "evict", "send", "fresh"}

(* What a thread's locals say at each point of a call or job.              *)
LocalsOK(t) ==
  /\ pc[t] = "idle" => reg[t] = Idle
  /\ pc[t] # "idle" => reg[t].tile \in Tiles
  /\ pc[t] \in HasEntry =>
       reg[t].entry \in 1..Len(entries) /\ entries[reg[t].entry].tile = reg[t].tile
  /\ pc[t] \in {"got", "evict", "fresh"} => Ready(reg[t].entry)
  /\ reg[t].inserted => pc[t] \in HasEntry
  /\ pc[t] \in {"evict", "send", "fresh"} => reg[t].inserted
  /\ t \in Workers /\ pc[t] # "idle" => reg[t].inserted

RegOK == \A t \in Threads : LocalsOK(t)

CacheOK == \A i \in Tiles : cache[i] # 0 => entries[cache[i]].tile = i

TInv == TypeOK /\ RegOK /\ CacheOK

(* TiledMap::new: an empty cache is of its kind.                           *)
LEMMA InitTInv == Init => TInv
<1> USE TileCacheAssumption
<1> SUFFICES ASSUME Init PROVE TInv
  OBVIOUS
<1>1. entries \in Seq(Entry) /\ Len(entries) = 0
  BY DEF Init, InitWith
<1>2. TypeOK
  BY <1>1 DEF Init, InitWith, TypeOK, Idle, Locals, Free
<1>3. RegOK /\ CacheOK
  BY DEF Init, InitWith, RegOK, LocalsOK, CacheOK, Idle, Locals, HasEntry
<1> QED
  BY <1>2, <1>3 DEF TInv

(* Entries are only ever added, touched and filled.                        *)
Kept ==
  /\ entries' \in Seq(Entry)
  /\ Len(entries') = Len(entries)
  /\ \A k \in 1..Len(entries) :
       entries'[k].tile = entries[k].tile /\ (Ready(k) => Ready(k)')

Grown ==
  /\ Len(entries') \in Nat /\ Len(entries') >= Len(entries)
  /\ \A k \in 1..Len(entries) :
       entries'[k].tile = entries[k].tile /\ (Ready(k) => Ready(k)')

(* Entries that are kept are as many as before.                            *)
LEMMA KeptGrown == TypeOK /\ Kept => Grown
BY LenProperties DEF TypeOK, Kept, Grown

(* A step of thread t leaves the others' locals right.                     *)
LEMMA OthersKeep ==
  ASSUME TInv, NEW t \in Threads, Grown, LocalsOK(t)',
         \A u \in Threads \ {t} : pc'[u] = pc[u] /\ reg'[u] = reg[u]
  PROVE  RegOK'
<1> SUFFICES ASSUME NEW u \in Threads, u # t PROVE LocalsOK(u)'
  BY DEF RegOK
<1>1. LocalsOK(u) /\ pc'[u] = pc[u] /\ reg'[u] = reg[u] /\ Len(entries) \in Nat
  BY LenProperties DEF TInv, TypeOK, RegOK
<1> QED
  BY <1>1 DEF LocalsOK, Grown, HasEntry, Ready

(* A tile marked as used is the same tile, as far generated as before.     *)
LEMMA TouchKeeps ==
  ASSUME entries \in Seq(Entry), NEW e \in 1..Len(entries), NEW u \in Nat,
         entries' = [entries EXCEPT ![e].used = u]
  PROVE  Kept
<1>1. entries[e] \in Entry
  BY ElementOfSeq
<1>2. [entries[e] EXCEPT !.used = u] \in Entry
  BY <1>1 DEF Entry
<1>3. [entries EXCEPT ![e] = [entries[e] EXCEPT !.used = u]] \in Seq(Entry)
  BY <1>2, ExceptSeq
<1>4. entries' \in Seq(Entry)
  BY <1>3, Zenon
<1> QED
  BY <1>1, <1>4 DEF Kept, Ready, Entry

(* A tile that is generated further is the same tile, and a finished one   *)
(* stays finished.                                                         *)
LEMMA FillKeeps ==
  ASSUME entries \in Seq(Entry), NEW e \in 1..Len(entries), NEW s \in {"running", "done"},
         entries' = [entries EXCEPT ![e].state = s], Ready(e) => s = "done"
  PROVE  Kept
<1>1. entries[e] \in Entry
  BY ElementOfSeq
<1>2. [entries[e] EXCEPT !.state = s] \in Entry
  BY <1>1 DEF Entry
<1>3. [entries EXCEPT ![e] = [entries[e] EXCEPT !.state = s]] \in Seq(Entry)
  BY <1>2, ExceptSeq
<1>4. entries' \in Seq(Entry)
  BY <1>3, Zenon
<1> QED
  BY <1>1, <1>4 DEF Kept, Ready, Entry

(* An inserted entry is the last one, and the map leads every index to an  *)
(* entry of its tile as before.                                            *)
LEMMA NewEntryKeeps ==
  ASSUME TypeOK, CacheOK, NEW i \in Tiles, NEW u \in Nat, NewEntry(i, u)
  PROVE  /\ entries' \in Seq(Entry)
         /\ Len(entries') = Len(entries) + 1
         /\ \A k \in 1..Len(entries) : entries'[k] = entries[k]
         /\ entries'[Len(entries')] = [tile |-> i, state |-> "empty", used |-> u]
         /\ cache' \in [Tiles -> 0..Len(entries')]
         /\ CacheOK'
<1>1. [tile |-> i, state |-> "empty", used |-> u] \in Entry
  BY DEF Entry
<1>2. /\ entries \in Seq(Entry) /\ Len(entries) \in Nat
      /\ entries' = Append(entries, [tile |-> i, state |-> "empty", used |-> u])
      /\ cache \in [Tiles -> 0..Len(entries)]
      /\ cache' = [cache EXCEPT ![i] = Len(entries) + 1]
  BY LenProperties DEF TypeOK, NewEntry
<1>3. /\ entries' \in Seq(Entry)
      /\ Len(entries') = Len(entries) + 1
      /\ \A k \in 1..Len(entries) : entries'[k] = entries[k]
      /\ entries'[Len(entries')] = [tile |-> i, state |-> "empty", used |-> u]
  BY <1>1, <1>2, AppendProperties
<1>4. cache' \in [Tiles -> 0..Len(entries')]
  BY <1>2, <1>3
<1>5. CacheOK'
  BY <1>2, <1>3 DEF CacheOK
<1> QED
  BY <1>3, <1>4, <1>5

(* A map left alone still leads to entries of its tiles.                   *)
LEMMA KeptCacheOK ==
  ASSUME TypeOK, CacheOK, Kept, cache' = cache
  PROVE  CacheOK'
<1> SUFFICES ASSUME NEW i \in Tiles, cache[i] # 0 PROVE entries'[cache[i]].tile = i
  BY DEF CacheOK
<1>1. cache[i] \in 1..Len(entries)
  <2>1. cache[i] \in 0..Len(entries) /\ Len(entries) \in Nat
    BY LenProperties DEF TypeOK
  <2> QED
    BY <2>1
<1>2. entries[cache[i]].tile = i
  BY DEF CacheOK
<1> QED
  BY <1>1, <1>2 DEF Kept

(* Numbers of entries stay valid as entries are added.                     *)
LEMMA GrowSeqs ==
  ASSUME NEW n \in Nat
  PROVE  /\ \A s \in Seq(1..n) : s \in Seq(1..(n + 1))
         /\ \A f \in [Callers -> Seq(1..n)] : f \in [Callers -> Seq(1..(n + 1))]
<1>1. 1..n \subseteq 1..(n + 1)
  OBVIOUS
<1> QED
  BY <1>1, SeqMonotonic

(* Every step keeps the types and what the threads' locals say.            *)
LEMMA StepTInv == TInv /\ [Next]_vars => TInv'
<1> USE TileCacheAssumption DEF Threads, Locals
<1> SUFFICES ASSUME TInv, [Next]_vars PROVE TInv'
  OBVIOUS
<1>0. /\ TypeOK /\ RegOK /\ CacheOK
      /\ Len(entries) \in Nat
      /\ \A k \in 1..Len(entries) : entries[k] \in Entry
  BY LenProperties, ElementOfSeq DEF TInv, TypeOK
<1>1. ASSUME NEW t \in Callers, NEW i \in Tiles, Tile(t, i) PROVE TInv'
  <2>1. reg' \in [Threads -> Regs(Len(entries'))]
    BY <1>0, <1>1 DEF Tile, Begin, Goto, TypeOK, Regs, RegOK, LocalsOK, HasEntry
  <2>2. pc' \in [Threads -> PCs]
    BY <1>0, <1>1 DEF Tile, Begin, Goto, TypeOK, PCs
  <2>3. calls' \in [Callers -> 0..MaxCalls]
    BY <1>0, <1>1 DEF Tile, Begin, Goto, TypeOK
  <2>4. TypeOK'
    BY <1>0, <1>1, <2>1, <2>2, <2>3 DEF Tile, Begin, Goto, TypeOK, PCs, Regs
  <2>5. RegOK'
    <3>1. pc' = [pc EXCEPT ![t] = "recent"] /\ reg' = [reg EXCEPT ![t] = Locals(i, clock, 0, FALSE)]
          /\ entries' = entries
      BY <1>1 DEF Tile, Goto
    <3>2. pc'[t] = "recent" /\ reg'[t] = Locals(i, clock, 0, FALSE)
      BY <1>0, <3>1 DEF TypeOK
    <3>3. LocalsOK(t)'
      BY <1>0, <3>2 DEF LocalsOK, HasEntry
    <3>4. Grown
      BY <1>0, <3>1 DEF Grown, Ready
    <3> QED
      BY <1>0, <3>1, <3>3, <3>4, OthersKeep DEF TInv, TypeOK
  <2>6. CacheOK'
    BY <1>0, <1>1, <2>1, <2>2, <2>3, <2>4 DEF Tile, Begin, Goto, TypeOK, CacheOK
  <2> QED
    BY <2>4, <2>5, <2>6 DEF TInv
<1>2. ASSUME NEW t \in Callers, NEW i \in Tiles, Prefetch(t, i) PROVE TInv'
  <2>1. /\ entries' \in Seq(Entry) /\ Len(entries') = Len(entries) + 1
        /\ \A k \in 1..Len(entries) : entries'[k] = entries[k]
        /\ entries'[Len(entries')] = [tile |-> i, state |-> "empty", used |-> clock + 1]
        /\ cache' \in [Tiles -> 0..Len(entries')] /\ CacheOK'
    BY <1>0, <1>2, NewEntryKeeps DEF Prefetch, Begin, Goto, TypeOK
  <2>2. reg' \in [Threads -> Regs(Len(entries'))]
    BY <1>0, <1>2, <2>1 DEF Prefetch, Begin, Goto, TypeOK, Regs, RegOK, LocalsOK, HasEntry
  <2>3. pc' \in [Threads -> PCs]
    BY <1>0, <1>2 DEF Prefetch, Begin, Goto, TypeOK, PCs
  <2>4. calls' \in [Callers -> 0..MaxCalls]
    BY <1>0, <1>2 DEF Prefetch, Begin, Goto, TypeOK
  <2>5. TypeOK'
    <3>1. queue \in Seq(1..Len(entries')) /\ recents \in [Callers -> Seq(1..Len(entries'))]
      <4>1. /\ \A s \in Seq(1..Len(entries)) : s \in Seq(1..(Len(entries) + 1))
            /\ \A f \in [Callers -> Seq(1..Len(entries))] :
                 f \in [Callers -> Seq(1..(Len(entries) + 1))]
        BY <1>0, GrowSeqs
      <4>2. queue \in Seq(1..Len(entries)) /\ recents \in [Callers -> Seq(1..Len(entries))]
        BY <1>0 DEF TypeOK
      <4>3. queue \in Seq(1..(Len(entries) + 1))
            /\ recents \in [Callers -> Seq(1..(Len(entries) + 1))]
        BY <4>1, <4>2, Zenon
      <4> QED
        BY <2>1, <4>3
    <3>2. /\ clock' = clock + 1
          /\ UNCHANGED <<lock, generated, capacity, queue, recents>>
      BY <1>2 DEF Prefetch
    <3>3. queue' \in Seq(1..Len(entries')) /\ recents' \in [Callers -> Seq(1..Len(entries'))]
      BY <3>1, <3>2
    <3>4. /\ lock' \in Threads \cup {Free} /\ clock' \in Nat
          /\ generated' \in Nat /\ capacity' \in Nat \ {0}
      BY <1>0, <3>2 DEF TypeOK
    <3> QED
      BY <2>1, <2>2, <2>3, <2>4, <3>3, <3>4 DEF TypeOK, PCs, Regs
  <2>6. RegOK'
    <3>1. pc[t] = "idle" /\ pc' = [pc EXCEPT ![t] = "send"]
          /\ reg' = [reg EXCEPT ![t] = Locals(i, 0, Len(entries'), TRUE)]
      BY <1>0, <1>2, <2>1 DEF Prefetch, Goto
    <3>2. pc'[t] = "send" /\ reg'[t] = Locals(i, 0, Len(entries'), TRUE)
      BY <1>0, <3>1 DEF TypeOK
    <3>3. LocalsOK(t)'
      BY <1>0, <2>1, <3>2 DEF LocalsOK, HasEntry
    <3>4. Grown
      BY <1>0, <2>1 DEF Grown, Ready
    <3> QED
      BY <1>0, <3>1, <3>3, <3>4, OthersKeep DEF TInv, TypeOK
  <2> QED
    BY <2>1, <2>5, <2>6 DEF TInv
<1>3. ASSUME NEW t \in Callers, RecentHit(t) PROVE TInv'
  <2>1. PICK k \in InRecents(t) :
         /\ entries' = [entries EXCEPT ![recents[t][k]].used = reg[t].clock]
         /\ recents' = [recents EXCEPT ![t] = <<recents[t][k]>> \o RemoveAt(recents[t], k)]
         /\ pc' = [pc EXCEPT ![t] = "idle"] /\ reg' = [reg EXCEPT ![t] = Idle]
         /\ UNCHANGED <<cache, lock, clock, generated, capacity, queue, calls>>
    BY <1>3 DEF RecentHit, Goto
  <2>2. k \in 1..Len(recents[t]) /\ recents[t] \in Seq(1..Len(entries))
    BY <1>0, LenProperties DEF InRecents, TypeOK
  <2>3. recents[t][k] \in 1..Len(entries)
    BY <2>2, ElementOfSeq
  <2>4. Kept
    BY <1>0, <2>1, <2>3, TouchKeeps DEF TypeOK
  <2>5. <<recents[t][k]>> \o RemoveAt(recents[t], k) \in Seq(1..Len(entries))
    BY <1>0, <2>2, <2>3 DEF RemoveAt
  <2>6. recents' \in [Callers -> Seq(1..Len(entries'))]
    BY <1>0, <2>1, <2>4, <2>5 DEF TypeOK, Kept
  <2>7. reg' \in [Threads -> Regs(Len(entries'))] /\ pc' \in [Threads -> PCs]
    <3>1. Idle \in Regs(Len(entries)) /\ "idle" \in PCs
      BY <1>0 DEF Idle, Regs, PCs
    <3>2. reg \in [Threads -> Regs(Len(entries))] /\ pc \in [Threads -> PCs]
      BY <1>0 DEF TypeOK, Regs, PCs
    <3>3. Len(entries') = Len(entries)
      BY <2>4 DEF Kept
    <3> QED
      BY <2>1, <3>1, <3>2, <3>3
  <2>8. TypeOK'
    <3>1. entries' \in Seq(Entry) /\ Len(entries') = Len(entries)
      BY <2>4 DEF Kept
    <3> QED
      BY <1>0, <2>1, <2>6, <2>7, <3>1 DEF TypeOK, Regs, PCs
  <2>9. RegOK'
    <3>1. pc'[t] = "idle" /\ reg'[t] = Idle
      BY <1>0, <2>1 DEF TypeOK
    <3>2. LocalsOK(t)' /\ Grown
      BY <1>0, <2>4, <3>1 DEF LocalsOK, HasEntry, Idle, Kept, Grown
    <3> QED
      BY <1>0, <2>1, <3>2, OthersKeep DEF TInv, TypeOK
  <2>10. CacheOK'
    BY <1>0, <2>1, <2>4, KeptCacheOK
  <2> QED
    BY <2>8, <2>9, <2>10 DEF TInv
<1>4. ASSUME NEW t \in Callers, RecentMiss(t) PROVE TInv'
  <2>1. reg' \in [Threads -> Regs(Len(entries'))]
    BY <1>0, <1>4 DEF RecentMiss, Goto, TypeOK, Regs, RegOK, LocalsOK, HasEntry
  <2>2. pc' \in [Threads -> PCs]
    BY <1>0, <1>4 DEF RecentMiss, Goto, TypeOK, PCs
  <2>3. TypeOK'
    BY <1>0, <1>4, <2>1, <2>2 DEF RecentMiss, Goto, TypeOK, PCs, Regs
  <2>4. RegOK'
    BY <1>0, <1>4, <2>1, <2>2, <2>3 DEF RecentMiss, Goto, TypeOK, RegOK, LocalsOK, CacheOK, HasEntry, Ready
  <2>5. CacheOK'
    BY <1>0, <1>4, <2>1, <2>2, <2>3 DEF RecentMiss, Goto, TypeOK, CacheOK
  <2> QED
    BY <2>3, <2>4, <2>5 DEF TInv
<1>5. ASSUME NEW t \in Callers, Lookup(t) PROVE TInv'
  <2>1. reg' \in [Threads -> Regs(Len(entries'))]
    BY <1>0, <1>5 DEF Lookup, Goto, TypeOK, Regs, RegOK, LocalsOK, HasEntry
  <2>2. pc' \in [Threads -> PCs]
    BY <1>0, <1>5 DEF Lookup, Goto, TypeOK, PCs
  <2>3. TypeOK'
    BY <1>0, <1>5, <2>1, <2>2 DEF Lookup, Goto, TypeOK, PCs, Regs
  <2>4. RegOK'
    <3> DEFINE e == cache[reg[t].tile]
    <3>1. reg[t].tile \in Tiles /\ pc[t] = "lookup"
          /\ pc' = [pc EXCEPT ![t] = IF e = 0 THEN "insert" ELSE "touch"]
          /\ reg' = [reg EXCEPT ![t] = Locals(reg[t].tile, reg[t].clock, e, FALSE)]
      BY <1>0, <1>5 DEF Lookup, Goto, TypeOK, RegOK, LocalsOK
    <3>2. pc'[t] = (IF e = 0 THEN "insert" ELSE "touch")
          /\ reg'[t] = Locals(reg[t].tile, reg[t].clock, e, FALSE)
      BY <1>0, <3>1 DEF TypeOK
    <3>3. e \in 0..Len(entries) /\ (e # 0 => entries[e].tile = reg[t].tile) /\ t \notin Workers
      BY <1>0, <3>1 DEF TypeOK, CacheOK, TileCacheAssumption
    <3>4. entries' = entries
      BY <1>5 DEF Lookup
    <3>5. LocalsOK(t)' /\ Grown
      BY <1>0, <3>1, <3>2, <3>3, <3>4 DEF LocalsOK, HasEntry, Grown, Ready
    <3> QED
      BY <1>0, <3>1, <3>5, OthersKeep DEF TInv, TypeOK
  <2>5. CacheOK'
    BY <1>0, <1>5 DEF Lookup, CacheOK
  <2> QED
    BY <2>3, <2>4, <2>5 DEF TInv
<1>6. ASSUME NEW t \in Callers, Insert(t) PROVE TInv'
  <2>1. /\ pc[t] = "insert" /\ pc' = [pc EXCEPT ![t] = "touch"]
        /\ UNCHANGED <<lock, clock, generated, capacity, queue, recents, calls>>
        /\ reg[t].tile \in Tiles /\ reg[t].clock \in Nat /\ t \notin Workers
    BY <1>0, <1>6 DEF Insert, Goto, TypeOK, RegOK, LocalsOK, Regs, TileCacheAssumption
  <2>2. PICK e \in 1..Len(entries'), b \in BOOLEAN :
          /\ reg' = [reg EXCEPT ![t] = Locals(reg[t].tile, reg[t].clock, e, b)]
          /\ Grown
          /\ entries' \in Seq(Entry) /\ Len(entries') \in Len(entries)..(Len(entries) + 1)
          /\ entries'[e].tile = reg[t].tile
          /\ cache' \in [Tiles -> 0..Len(entries')] /\ CacheOK'
    <3>1. CASE cache[reg[t].tile] # 0
      <4>1. UNCHANGED <<entries, cache>>
            /\ reg' = [reg EXCEPT ![t] = Locals(reg[t].tile, reg[t].clock, cache[reg[t].tile], FALSE)]
        BY <1>6, <3>1 DEF Insert
      <4>2. cache[reg[t].tile] \in 0..Len(entries)
        BY <1>0, <2>1 DEF TypeOK
      <4>4. entries[cache[reg[t].tile]].tile = reg[t].tile
        BY <1>0, <2>1, <3>1 DEF CacheOK
      <4>3. Grown /\ CacheOK' /\ entries' \in Seq(Entry) /\ cache' \in [Tiles -> 0..Len(entries')]
        BY <1>0, <4>1 DEF TypeOK, Grown, CacheOK, Ready
      <4>5. entries' = entries /\ cache[reg[t].tile] \in 1..Len(entries') /\ FALSE \in BOOLEAN
            /\ Len(entries') \in Len(entries)..(Len(entries) + 1)
        BY <1>0, <3>1, <4>1, <4>2
      <4> QED
        BY <4>1, <4>3, <4>4, <4>5
    <3>2. CASE cache[reg[t].tile] = 0
      <4>1. NewEntry(reg[t].tile, reg[t].clock)
            /\ reg' = [reg EXCEPT ![t] = Locals(reg[t].tile, reg[t].clock, Len(entries) + 1, TRUE)]
        BY <1>6, <3>2 DEF Insert
      <4> DEFINE new == [tile |-> reg[t].tile, state |-> "empty", used |-> reg[t].clock]
      <4>2. /\ entries' \in Seq(Entry) /\ Len(entries') = Len(entries) + 1
            /\ \A k \in 1..Len(entries) : entries'[k] = entries[k]
            /\ entries'[Len(entries')] = new
            /\ cache' \in [Tiles -> 0..Len(entries')]
            /\ CacheOK'
        BY <1>0, <2>1, <4>1, NewEntryKeeps
      <4>3. Grown /\ Len(entries) + 1 \in 1..Len(entries') /\ TRUE \in BOOLEAN
            /\ Len(entries') \in Len(entries)..(Len(entries) + 1)
            /\ entries'[Len(entries) + 1].tile = reg[t].tile
        BY <1>0, <4>2 DEF Grown, Ready
      <4> QED
        BY <4>1, <4>2, <4>3
    <3> QED
      BY <3>1, <3>2
  <2>3. reg' \in [Threads -> Regs(Len(entries'))] /\ pc' \in [Threads -> PCs]
    BY <1>0, <2>1, <2>2 DEF TypeOK, Regs, PCs
  <2>4. TypeOK'
    <3>1. queue' \in Seq(1..Len(entries')) /\ recents' \in [Callers -> Seq(1..Len(entries'))]
      <4>1. queue \in Seq(1..Len(entries)) /\ recents \in [Callers -> Seq(1..Len(entries))]
        BY <1>0 DEF TypeOK
      <4> QED
        BY <1>0, <2>1, <2>2, <4>1, GrowSeqs
    <3> QED
      BY <1>0, <2>1, <2>2, <2>3, <3>1 DEF TypeOK, Regs, PCs
  <2>5. RegOK'
    <3>1. pc'[t] = "touch" /\ reg'[t] = Locals(reg[t].tile, reg[t].clock, e, b)
      BY <1>0, <2>1, <2>2 DEF TypeOK
    <3>2. LocalsOK(t)'
      BY <1>0, <2>1, <2>2, <3>1 DEF LocalsOK, HasEntry
    <3> QED
      BY <1>0, <2>1, <2>2, <3>2, OthersKeep DEF TInv, TypeOK
  <2> QED
    BY <2>2, <2>4, <2>5 DEF TInv
<1>7. ASSUME NEW t \in Callers, Touch(t) PROVE TInv'
  <2>1. reg[t].entry \in 1..Len(entries) /\ reg[t].clock \in Nat
    BY <1>0, <1>7 DEF Touch, Goto, TypeOK, RegOK, LocalsOK, HasEntry
  <2>2. Kept
    BY <1>0, <1>7, <2>1, TouchKeeps DEF Touch, Goto, TypeOK
  <2>3. pc' \in [Threads -> PCs]
    BY <1>0, <1>7 DEF Touch, Goto, TypeOK, PCs
  <2>4. TypeOK'
    BY <1>0, <1>7, <2>1, <2>2, <2>3 DEF Touch, Goto, TypeOK, PCs, Regs, Kept
  <2>5. RegOK'
    <3>1. /\ pc' = [pc EXCEPT ![t] = "get"] /\ reg' = reg /\ t \in Threads
          /\ LocalsOK(t) /\ pc[t] # "idle" /\ pc[t] \in HasEntry
      BY <1>0, <1>7 DEF Touch, Goto, RegOK, HasEntry, Threads
    <3>2. pc'[t] = "get" /\ Grown
      BY <1>0, <2>2, <3>1, KeptGrown DEF TypeOK
    <3>3. LocalsOK(t)'
      BY <2>1, <2>2, <3>1, <3>2 DEF LocalsOK, Kept, HasEntry, Ready
    <3> QED
      BY <1>0, <3>1, <3>2, <3>3, OthersKeep DEF TInv, TypeOK
  <2>6. CacheOK'
    BY <1>0, <1>7, <2>1, <2>2, <2>3, <2>4 DEF Touch, Goto, TypeOK, CacheOK, Kept
  <2> QED
    BY <2>4, <2>5, <2>6 DEF TInv
<1>8. ASSUME NEW t \in Callers, Return(t) PROVE TInv'
  <2>1. reg[t].entry \in 1..Len(entries)
    BY <1>0, <1>8 DEF Return, Goto, Idle, RegOK, LocalsOK, HasEntry
  <2>2. recents' \in [Callers -> Seq(1..Len(entries'))]
    <3> DEFINE n == IF Len(recents[t]) < Recent THEN Len(recents[t]) + 1 ELSE Recent
               s == <<reg[t].entry>> \o recents[t]
    <3>1. recents[t] \in Seq(1..Len(entries)) /\ Recent \in Nat
      BY <1>0, TileCacheAssumption DEF TypeOK
    <3>2. s \in Seq(1..Len(entries)) /\ Len(s) = Len(recents[t]) + 1
      BY <2>1, <3>1
    <3>3. n \in Nat /\ n <= Len(s)
      BY <3>1, <3>2
    <3>4. SubSeq(s, 1, n) \in Seq(1..Len(entries))
      BY <3>2, <3>3
    <3>5. recents' = [recents EXCEPT ![t] = SubSeq(s, 1, n)] /\ entries' = entries
      BY <1>8 DEF Return
    <3> QED
      BY <1>0, <3>4, <3>5 DEF TypeOK
  <2>3. reg' \in [Threads -> Regs(Len(entries'))]
    BY <1>0, <1>8, <2>1, <2>2 DEF Return, Goto, Idle, TypeOK, Regs, RegOK, LocalsOK, HasEntry
  <2>4. pc' \in [Threads -> PCs]
    BY <1>0, <1>8 DEF Return, Goto, Idle, TypeOK, PCs
  <2>5. TypeOK'
    BY <1>0, <1>8, <2>1, <2>2, <2>3, <2>4 DEF Return, Goto, Idle, TypeOK, PCs, Regs
  <2>6. RegOK'
    BY <1>0, <1>8, <2>1, <2>2, <2>3, <2>4, <2>5 DEF Return, Goto, Idle, TypeOK, RegOK, LocalsOK, CacheOK, HasEntry, Ready
  <2>7. CacheOK'
    BY <1>0, <1>8, <2>1, <2>2, <2>3, <2>4, <2>5 DEF Return, Goto, Idle, TypeOK, CacheOK
  <2> QED
    BY <2>5, <2>6, <2>7 DEF TInv
<1>9. ASSUME NEW t \in Callers, Send(t) PROVE TInv'
  <2>1. queue' \in Seq(1..Len(entries'))
    BY <1>0, <1>9, AppendProperties DEF Send, Goto, Idle, TypeOK, RegOK, LocalsOK, HasEntry
  <2>2. reg' \in [Threads -> Regs(Len(entries'))]
    BY <1>0, <1>9, <2>1 DEF Send, Goto, Idle, TypeOK, Regs, RegOK, LocalsOK, HasEntry
  <2>3. pc' \in [Threads -> PCs]
    BY <1>0, <1>9 DEF Send, Goto, Idle, TypeOK, PCs
  <2>4. TypeOK'
    BY <1>0, <1>9, <2>1, <2>2, <2>3 DEF Send, Goto, Idle, TypeOK, PCs, Regs
  <2>5. RegOK'
    BY <1>0, <1>9, <2>1, <2>2, <2>3, <2>4 DEF Send, Goto, Idle, TypeOK, RegOK, LocalsOK, CacheOK, HasEntry, Ready
  <2>6. CacheOK'
    BY <1>0, <1>9, <2>1, <2>2, <2>3, <2>4 DEF Send, Goto, Idle, TypeOK, CacheOK
  <2> QED
    BY <2>4, <2>5, <2>6 DEF TInv
<1>10. ASSUME NEW t \in Workers, Take(t) PROVE TInv'
  <2>1. Head(queue) \in 1..Len(entries) /\ queue' \in Seq(1..Len(entries'))
    BY <1>0, <1>10, HeadTailProperties DEF Take, Goto, TypeOK
  <2>2. entries[Head(queue)].tile \in Tiles
    BY <1>0, <2>1 DEF Entry
  <2>3. reg' \in [Threads -> Regs(Len(entries'))]
    BY <1>0, <1>10, <2>1, <2>2 DEF Take, Goto, TypeOK, Regs, RegOK, LocalsOK, HasEntry
  <2>4. pc' \in [Threads -> PCs]
    BY <1>0, <1>10 DEF Take, Goto, TypeOK, PCs
  <2>5. TypeOK'
    BY <1>0, <1>10, <2>1, <2>2, <2>3, <2>4 DEF Take, Goto, TypeOK, PCs, Regs
  <2>6. RegOK'
    BY <1>0, <1>10, <2>1, <2>2, <2>3, <2>4, <2>5 DEF Take, Goto, TypeOK, RegOK, LocalsOK, CacheOK, HasEntry, Ready
  <2>7. CacheOK'
    BY <1>0, <1>10, <2>1, <2>2, <2>3, <2>4, <2>5 DEF Take, Goto, TypeOK, CacheOK
  <2> QED
    BY <2>5, <2>6, <2>7 DEF TInv
<1>11. ASSUME NEW t \in Workers, Freshen(t) PROVE TInv'
  <2>1. reg[t].entry \in 1..Len(entries) /\ clock + 1 \in Nat
    BY <1>0, <1>11 DEF Freshen, Goto, TypeOK, RegOK, LocalsOK, HasEntry
  <2>2. Kept
    BY <1>0, <1>11, <2>1, TouchKeeps DEF Freshen, Goto, TypeOK
  <2>3. pc' \in [Threads -> PCs]
    BY <1>0, <1>11 DEF Freshen, Goto, TypeOK, PCs
  <2>4. TypeOK'
    BY <1>0, <1>11, <2>1, <2>2, <2>3 DEF Freshen, Goto, TypeOK, PCs, Regs, Kept
  <2>5. RegOK'
    <3>1. /\ pc' = [pc EXCEPT ![t] = "fresh"] /\ reg' = reg /\ t \in Threads
          /\ LocalsOK(t) /\ pc[t] = "got"
      BY <1>0, <1>11 DEF Freshen, Goto, RegOK, Threads
    <3>2. pc'[t] = "fresh" /\ Grown
      BY <1>0, <2>2, <3>1, KeptGrown DEF TypeOK
    <3>3. /\ reg[t].tile \in Tiles /\ reg[t].inserted /\ Ready(reg[t].entry)
          /\ entries[reg[t].entry].tile = reg[t].tile
      BY <3>1 DEF LocalsOK, HasEntry
    <3>4. Ready(reg[t].entry)' /\ entries'[reg[t].entry].tile = reg[t].tile
          /\ reg[t].entry \in 1..Len(entries')
      BY <2>1, <2>2, <3>1, <3>3 DEF Kept, Ready
    <3>5. LocalsOK(t)'
      BY <3>1, <3>2, <3>3, <3>4 DEF LocalsOK, HasEntry
    <3> QED
      BY <1>0, <3>1, <3>2, <3>5, OthersKeep DEF TInv, TypeOK
  <2>6. CacheOK'
    BY <1>0, <1>11, <2>1, <2>2, <2>3, <2>4 DEF Freshen, Goto, TypeOK, CacheOK, Kept
  <2> QED
    BY <2>4, <2>5, <2>6 DEF TInv
<1>12. ASSUME NEW t \in Threads, GetReady(t) PROVE TInv'
  <2>1. pc' \in [Threads -> PCs]
    BY <1>0, <1>12 DEF GetReady, Goto, TypeOK, PCs
  <2>2. TypeOK'
    BY <1>0, <1>12, <2>1 DEF GetReady, Goto, TypeOK, PCs, Regs
  <2>3. RegOK'
    BY <1>0, <1>12, <2>1, <2>2 DEF GetReady, Goto, TypeOK, RegOK, LocalsOK, CacheOK, HasEntry, Ready
  <2>4. CacheOK'
    BY <1>0, <1>12, <2>1, <2>2 DEF GetReady, Goto, TypeOK, CacheOK
  <2> QED
    BY <2>2, <2>3, <2>4 DEF TInv
<1>13. ASSUME NEW t \in Threads, StartGenerate(t) PROVE TInv'
  <2>1. reg[t].entry \in 1..Len(entries) /\ ~Ready(reg[t].entry)
    BY <1>0, <1>13 DEF StartGenerate, Goto, RegOK, LocalsOK, HasEntry, Ready
  <2>2. Kept
    BY <1>0, <1>13, <2>1, FillKeeps DEF StartGenerate, Goto, TypeOK
  <2>3. pc' \in [Threads -> PCs]
    BY <1>0, <1>13 DEF StartGenerate, Goto, TypeOK, PCs
  <2>4. TypeOK'
    <3>1. entries' \in Seq(Entry) /\ Len(entries') = Len(entries)
      BY <2>2 DEF Kept
    <3>2. generated' \in Nat
      BY <1>0, <1>13 DEF StartGenerate, TypeOK
    <3>3. UNCHANGED <<cache, lock, clock, capacity, queue, recents, reg, calls>>
      BY <1>13 DEF StartGenerate
    <3> QED
      BY <1>0, <2>3, <3>1, <3>2, <3>3 DEF TypeOK, PCs
  <2>5. RegOK'
    <3>1. /\ pc' = [pc EXCEPT ![t] = "generate"] /\ reg' = reg /\ t \in Threads
          /\ LocalsOK(t) /\ pc[t] # "idle" /\ pc[t] \in HasEntry
      BY <1>0, <1>13 DEF StartGenerate, Goto, RegOK, HasEntry, Threads
    <3>2. pc'[t] = "generate" /\ Grown
      BY <1>0, <2>2, <3>1, KeptGrown DEF TypeOK
    <3>3. LocalsOK(t)'
      BY <2>1, <2>2, <3>1, <3>2 DEF LocalsOK, Kept, HasEntry, Ready
    <3> QED
      BY <1>0, <3>1, <3>2, <3>3, OthersKeep DEF TInv, TypeOK
  <2>6. CacheOK'
    BY <1>0, <1>13, <2>1, <2>2, <2>3, <2>4 DEF StartGenerate, Goto, TypeOK, CacheOK, Kept
  <2> QED
    BY <2>4, <2>5, <2>6 DEF TInv
<1>14. ASSUME NEW t \in Threads, Generate(t) PROVE TInv'
  <2>1. reg[t].entry \in 1..Len(entries)
    BY <1>0, <1>14 DEF Generate, Goto, RegOK, LocalsOK, HasEntry, Ready
  <2>2. Kept
    BY <1>0, <1>14, <2>1, FillKeeps DEF Generate, Goto, TypeOK
  <2>3. pc' \in [Threads -> PCs]
    BY <1>0, <1>14 DEF Generate, Goto, TypeOK, PCs
  <2>4. TypeOK'
    BY <1>0, <1>14, <2>1, <2>2, <2>3 DEF Generate, Goto, TypeOK, PCs, Regs, Kept
  <2>5. RegOK'
    <3>1. /\ pc' = [pc EXCEPT ![t] = "got"] /\ reg' = reg /\ t \in Threads
          /\ LocalsOK(t) /\ pc[t] = "generate"
      BY <1>0, <1>14 DEF Generate, Goto, RegOK
    <3>2. pc'[t] = "got" /\ Grown
      BY <1>0, <2>2, <3>1, KeptGrown DEF TypeOK
    <3>3. entries[reg[t].entry] \in Entry
      BY <1>0, <2>1 DEF TypeOK
    <3>4. Ready(reg[t].entry)'
      BY <1>0, <1>14, <2>1, <3>1, <3>3 DEF Generate, Ready, TypeOK, Entry
    <3>5. /\ reg[t].tile \in Tiles /\ entries[reg[t].entry].tile = reg[t].tile
          /\ t \in Workers => reg[t].inserted
      BY <3>1 DEF LocalsOK, HasEntry
    <3>6. entries'[reg[t].entry].tile = reg[t].tile /\ reg[t].entry \in 1..Len(entries')
      BY <2>1, <2>2, <3>5 DEF Kept
    <3>7. LocalsOK(t)'
      BY <3>1, <3>2, <3>4, <3>5, <3>6 DEF LocalsOK, HasEntry
    <3> QED
      BY <1>0, <3>1, <3>2, <3>7, OthersKeep DEF TInv, TypeOK
  <2>6. CacheOK'
    BY <1>0, <1>14, <2>1, <2>2, <2>3, <2>4 DEF Generate, Goto, TypeOK, CacheOK, Kept
  <2> QED
    BY <2>4, <2>5, <2>6 DEF TInv
<1>15. ASSUME NEW t \in Threads, StartEvict(t) PROVE TInv'
  <2>1. pc' \in [Threads -> PCs]
    BY <1>0, <1>15 DEF StartEvict, Goto, TypeOK, PCs
  <2>2. TypeOK'
    BY <1>0, <1>15, <2>1 DEF StartEvict, Goto, TypeOK, PCs, Regs
  <2>3. RegOK'
    BY <1>0, <1>15, <2>1, <2>2 DEF StartEvict, Goto, TypeOK, RegOK, LocalsOK, CacheOK, HasEntry, Ready
  <2>4. CacheOK'
    BY <1>0, <1>15, <2>1, <2>2 DEF StartEvict, Goto, TypeOK, CacheOK
  <2> QED
    BY <2>2, <2>3, <2>4 DEF TInv
<1>16. ASSUME NEW t \in Threads, EvictOne(t) PROVE TInv'
  <2>1. cache' \in [Tiles -> 0..Len(entries')]
    BY <1>0, <1>16 DEF EvictOne, Evictable, Cached, TypeOK
  <2>2. TypeOK'
    BY <1>0, <1>16, <2>1 DEF EvictOne, Evictable, Cached, TypeOK, PCs, Regs
  <2>3. RegOK'
    BY <1>0, <1>16, <2>1, <2>2 DEF EvictOne, Evictable, Cached, TypeOK, RegOK, LocalsOK, CacheOK, HasEntry, Ready
  <2>4. CacheOK'
    BY <1>0, <1>16, <2>1, <2>2 DEF EvictOne, Evictable, Cached, TypeOK, CacheOK
  <2> QED
    BY <2>2, <2>3, <2>4 DEF TInv
<1>17. ASSUME NEW t \in Threads, EvictDone(t) PROVE TInv'
  <2>1. reg' \in [Threads -> Regs(Len(entries'))]
    BY <1>0, <1>17 DEF EvictDone, Goto, Idle, TypeOK, Regs, RegOK, LocalsOK, HasEntry
  <2>2. pc' \in [Threads -> PCs]
    BY <1>0, <1>17 DEF EvictDone, Goto, Idle, TypeOK, PCs
  <2>3. TypeOK'
    BY <1>0, <1>17, <2>1, <2>2 DEF EvictDone, Goto, Idle, TypeOK, PCs, Regs
  <2>4. RegOK'
    BY <1>0, <1>17, <2>1, <2>2, <2>3 DEF EvictDone, Goto, Idle, TypeOK, RegOK, LocalsOK, CacheOK, HasEntry, Ready
  <2>5. CacheOK'
    BY <1>0, <1>17, <2>1, <2>2, <2>3 DEF EvictDone, Goto, Idle, TypeOK, CacheOK
  <2> QED
    BY <2>3, <2>4, <2>5 DEF TInv
<1>18. ASSUME NEW n \in Reserves, Reserve(n) PROVE TInv'
  <2>1. TypeOK'
    BY <1>0, <1>18 DEF Reserve, TypeOK, PCs, Regs
  <2>2. RegOK'
    BY <1>0, <1>18, <2>1 DEF Reserve, TypeOK, RegOK, LocalsOK, CacheOK, HasEntry, Ready
  <2>3. CacheOK'
    BY <1>0, <1>18, <2>1 DEF Reserve, TypeOK, CacheOK
  <2> QED
    BY <2>1, <2>2, <2>3 DEF TInv
<1>19. CASE UNCHANGED vars
  BY <1>0, <1>19 DEF vars, TInv, TypeOK, RegOK, LocalsOK, CacheOK, Ready
<1> QED
  BY <1>1, <1>2, <1>3, <1>4, <1>5, <1>6, <1>7, <1>8, <1>9, <1>10, <1>11, <1>12, <1>13, <1>14, <1>15, <1>16, <1>17, <1>18, <1>19 DEF Next, Own, Background, Shared

(* Whatever the number of threads, tiles and calls, every variable keeps   *)
(* to its kind: the map leads to entries there are, the queue and the      *)
(* threads' own lists hold entries there are, and a thread is at one of    *)
(* the points of tile() or of a job.                                       *)
THEOREM TypeCorrect == Spec => []TypeOK
<1>1. Spec => []TInv
  BY InitTInv, StepTInv, PTL DEF Spec
<1>2. TInv => TypeOK
  BY DEF TInv
<1> QED
  BY <1>1, <1>2, PTL

-----------------------------------------------------------------------------
UnderWayIsOwed == \A e \in DOMAIN entries : ~Ready(e) => e \in Owed

IInv == TInv /\ UnderWayIsCached /\ UnderWayIsOwed /\ SizeBound

(* What is owed, in the words of the threads and the queue.                *)
LEMMA OwedDef ==
  ASSUME TypeOK
  PROVE  /\ \A e : e \in Owed <=> \/ \E t \in Threads : reg[t].inserted /\ reg[t].entry = e
                                  \/ \E k \in 1..Len(queue) : queue[k] = e
         /\ DOMAIN entries = 1..Len(entries) /\ Len(entries) \in Nat
<1>1. DOMAIN queue = 1..Len(queue) /\ DOMAIN entries = 1..Len(entries) /\ Len(entries) \in Nat
  BY LenProperties DEF TypeOK
<1> QED
  BY <1>1 DEF Owed, Range

(* Whoever owes an eviction is inside the cache's entries.                 *)
LEMMA OwedEntries ==
  ASSUME TInv
  PROVE  Owed \subseteq 1..Len(entries)
<1> SUFFICES ASSUME NEW e \in Owed PROVE e \in 1..Len(entries)
  OBVIOUS
<1>1. CASE \E t \in Threads : reg[t].inserted /\ reg[t].entry = e
  BY <1>1 DEF TInv, RegOK, LocalsOK
<1>2. CASE \E k \in 1..Len(queue) : queue[k] = e
  BY <1>2, ElementOfSeq DEF TInv, TypeOK
<1> QED
  BY <1>1, <1>2, OwedDef DEF TInv

(* Only the end of its eviction relieves an inserter.                      *)
LEMMA StepOwed ==
  ASSUME TInv, TInv', [Next]_vars, NEW e \in Owed
  PROVE  e \in Owed' \/ \E t \in Threads : EvictDone(t) /\ reg[t].entry = e
<1> USE DEF Threads
<1>0. /\ TypeOK /\ RegOK /\ reg \in [Threads -> Regs(Len(entries))]
      /\ queue \in Seq(1..Len(entries))
  BY DEF TInv, TypeOK, Regs
<1>1. \/ \E t \in Threads : reg[t].inserted /\ reg[t].entry = e
      \/ \E k \in 1..Len(queue) : queue[k] = e
  BY OwedDef, <1>0
<1>2. ASSUME \/ \E t \in Threads : reg'[t].inserted /\ reg'[t].entry = e
             \/ \E k \in 1..Len(queue') : queue'[k] = e
      PROVE  e \in Owed'
  <2>1. TypeOK'
    BY DEF TInv
  <2>2. DOMAIN queue' = 1..Len(queue')
    BY <2>1, LenProperties DEF TypeOK
  <2> QED
    BY <1>2, <2>2 DEF Owed, Range
<1>3. ASSUME NEW t \in Threads, queue' = queue, ~reg[t].inserted,
             \A u \in Threads \ {t} : reg'[u] = reg[u]
      PROVE  e \in Owed'
  BY <1>1, <1>2, <1>3
<1>4. ASSUME queue' = queue, reg' = reg PROVE e \in Owed'
  BY <1>1, <1>2, <1>4
<1>5. ASSUME NEW t \in Callers, NEW i \in Tiles, Tile(t, i) PROVE e \in Owed'
  BY <1>0, <1>3, <1>5 DEF Tile, Goto, RegOK, LocalsOK, Idle, Locals
<1>6. ASSUME NEW t \in Callers, NEW i \in Tiles, Prefetch(t, i) PROVE e \in Owed'
  BY <1>0, <1>3, <1>6 DEF Prefetch, Goto, RegOK, LocalsOK, Idle, Locals
<1>7. ASSUME NEW t \in Callers, RecentHit(t) PROVE e \in Owed'
  BY <1>0, <1>3, <1>7 DEF RecentHit, Goto, RegOK, LocalsOK, HasEntry
<1>8. ASSUME NEW t \in Callers, RecentMiss(t) \/ Lookup(t) PROVE e \in Owed'
  BY <1>0, <1>3, <1>8 DEF RecentMiss, Lookup, Goto, RegOK, LocalsOK, HasEntry
<1>9. ASSUME NEW t \in Callers, Insert(t) PROVE e \in Owed'
  <2>1. ~reg[t].inserted /\ queue' = queue
    BY <1>0, <1>9 DEF Insert, Goto, RegOK, LocalsOK, HasEntry
  <2>2. \A u \in Threads \ {t} : reg'[u] = reg[u]
    BY <1>0, <1>9 DEF Insert
  <2> QED
    BY <1>3, <2>1, <2>2
<1>10. ASSUME NEW t \in Callers, Return(t) PROVE e \in Owed'
  BY <1>0, <1>3, <1>10 DEF Return
<1>11. ASSUME NEW t \in Callers, Send(t) PROVE e \in Owed'
  <2>1. /\ queue' = Append(queue, reg[t].entry) /\ reg' = [reg EXCEPT ![t] = Idle]
        /\ reg[t].entry \in 1..Len(entries)
    BY <1>0, <1>11 DEF Send, Goto, RegOK, LocalsOK, HasEntry
  <2>2. /\ Len(queue) \in Nat /\ Len(queue') = Len(queue) + 1
        /\ \A k \in 1..Len(queue) : queue'[k] = queue[k]
        /\ queue'[Len(queue) + 1] = reg[t].entry
    BY <1>0, <2>1, AppendProperties, LenProperties
  <2>3. \A u \in Threads \ {t} : reg'[u] = reg[u]
    BY <1>0, <2>1
  <2>4. CASE \E k \in 1..Len(queue) : queue[k] = e
    BY <1>2, <2>2, <2>4
  <2>5. CASE \E u \in Threads \ {t} : reg[u].inserted /\ reg[u].entry = e
    BY <1>2, <2>3, <2>5
  <2>6. CASE reg[t].entry = e
    <3>1. Len(queue) + 1 \in 1..Len(queue')
      BY <2>2
    <3> QED
      BY <1>2, <2>2, <2>6, <3>1
  <2> QED
    BY <1>1, <2>4, <2>5, <2>6
<1>12. ASSUME NEW t \in Workers, Take(t) PROVE e \in Owed'
  <2>1. /\ queue # <<>> /\ queue' = Tail(queue) /\ pc[t] = "idle"
        /\ reg' = [reg EXCEPT ![t] = Locals(entries[Head(queue)].tile, 0, Head(queue), TRUE)]
    BY <1>12 DEF Take, Goto
  <2>2. /\ Len(queue) \in Nat /\ Len(queue') = Len(queue) - 1
        /\ \A k \in 1..Len(queue') : queue'[k] = queue[k + 1]
        /\ Head(queue) = queue[1]
    BY <1>0, <2>1, HeadTailProperties, LenProperties
  <2>3. reg'[t].inserted /\ reg'[t].entry = queue[1] /\ ~reg[t].inserted
        /\ \A u \in Threads \ {t} : reg'[u] = reg[u]
    BY <1>0, <2>1, <2>2 DEF Locals, RegOK, LocalsOK, HasEntry
  <2>4. CASE \E k \in 1..Len(queue) : queue[k] = e
    <3>1. PICK k \in 1..Len(queue) : queue[k] = e
      BY <2>4
    <3>2. CASE k = 1
      BY <1>2, <2>3, <3>1, <3>2
    <3>3. CASE k # 1
      <4>1. k - 1 \in 1..Len(queue') /\ queue'[k - 1] = queue[k]
        BY <2>2, <3>3
      <4> QED
        BY <1>2, <3>1, <4>1
    <3> QED
      BY <3>2, <3>3
  <2>5. CASE \E u \in Threads : reg[u].inserted /\ reg[u].entry = e
    BY <1>2, <2>3, <2>5
  <2> QED
    BY <1>1, <2>4, <2>5
<1>13. ASSUME NEW t \in Threads, EvictDone(t) PROVE e \in Owed' \/ reg[t].entry = e
  BY <1>0, <1>1, <1>2, <1>13 DEF EvictDone
<1>14. ASSUME NEW t \in Threads,
              \/ Touch(t) \/ Freshen(t) \/ GetReady(t) \/ StartGenerate(t) \/ Generate(t)
              \/ StartEvict(t) \/ EvictOne(t)
       PROVE  e \in Owed'
  BY <1>4, <1>14 DEF Touch, Freshen, GetReady, StartGenerate, Generate, StartEvict, EvictOne
<1>15. ASSUME NEW n \in Reserves, Reserve(n) PROVE e \in Owed'
  BY <1>4, <1>15 DEF Reserve
<1>16. CASE UNCHANGED vars
  BY <1>4, <1>16 DEF vars
<1> QED
  BY <1>5, <1>6, <1>7, <1>8, <1>9, <1>10, <1>11, <1>12, <1>13, <1>14, <1>15, <1>16
  DEF Next, Own, Background, Shared

(* What a step does to the entries and the cache: nothing but what its     *)
(* eviction or its insertion says.                                         *)
LEMMA StepCache ==
  ASSUME TInv, [Next]_vars
  PROVE  \/ Kept /\ cache' = cache
         \/ Kept /\ \E t \in Threads : EvictOne(t)
         \/ \E t \in Threads, i \in Tiles, u \in Nat :
              /\ cache[i] = 0 /\ NewEntry(i, u)
              /\ reg'[t].inserted /\ reg'[t].entry = Len(entries')
<1> USE DEF Threads
<1>0. /\ TypeOK /\ RegOK /\ CacheOK /\ reg \in [Threads -> Regs(Len(entries))]
      /\ recents \in [Callers -> Seq(1..Len(entries))] /\ clock \in Nat
      /\ entries \in Seq(Entry)
  BY DEF TInv, TypeOK, Regs
<1>1. ASSUME entries' = entries PROVE Kept
  BY <1>0, <1>1, LenProperties DEF Kept, Ready
<1>2. ASSUME NEW t \in Callers, NEW i \in Tiles, Prefetch(t, i)
      PROVE  /\ cache[i] = 0 /\ NewEntry(i, clock + 1)
             /\ reg'[t].inserted /\ reg'[t].entry = Len(entries')
  <2>1. cache[i] = 0 /\ NewEntry(i, clock + 1)
    BY <1>2 DEF Prefetch
  <2>2. clock + 1 \in Nat
    BY <1>0
  <2>3. Len(entries') = Len(entries) + 1
    BY <1>0, <2>1, <2>2, NewEntryKeeps
  <2> QED
    BY <2>3, <1>0, <1>2, <2>1, <2>2 DEF Prefetch, Locals
<1>3. ASSUME NEW t \in Callers, Insert(t)
      PROVE  \/ entries' = entries /\ cache' = cache
             \/ /\ reg[t].tile \in Tiles /\ reg[t].clock \in Nat /\ cache[reg[t].tile] = 0
                /\ NewEntry(reg[t].tile, reg[t].clock)
                /\ reg'[t].inserted /\ reg'[t].entry = Len(entries')
  <2>1. reg[t].tile \in Tiles /\ reg[t].clock \in Nat
    BY <1>0, <1>3 DEF Insert, Goto, RegOK, LocalsOK, Regs
  <2>2. CASE cache[reg[t].tile] # 0
    BY <1>3, <2>2 DEF Insert
  <2>3. CASE cache[reg[t].tile] = 0
    <3>1. NewEntry(reg[t].tile, reg[t].clock)
          /\ reg' = [reg EXCEPT ![t] = Locals(reg[t].tile, reg[t].clock, Len(entries) + 1, TRUE)]
      BY <1>3, <2>3 DEF Insert
    <3>2. Len(entries') = Len(entries) + 1
      BY <1>0, <2>1, <3>1, NewEntryKeeps
    <3> QED
      BY <1>0, <2>1, <2>3, <3>1, <3>2 DEF Locals
  <2> QED
    BY <2>2, <2>3
<1>4. ASSUME NEW t \in Callers, RecentHit(t) PROVE Kept /\ cache' = cache
  <2>1. PICK k \in InRecents(t) :
          entries' = [entries EXCEPT ![recents[t][k]].used = reg[t].clock] /\ cache' = cache
    BY <1>4 DEF RecentHit
  <2>2. recents[t][k] \in 1..Len(entries) /\ reg[t].clock \in Nat
    BY <1>0, LenProperties, ElementOfSeq DEF InRecents, Regs
  <2> QED
    BY <1>0, <2>1, <2>2, TouchKeeps
<1>5. ASSUME NEW t \in Threads, Touch(t) \/ Freshen(t) PROVE Kept /\ cache' = cache
  <2>1. PICK u \in Nat : entries' = [entries EXCEPT ![reg[t].entry].used = u]
    <3>1. reg[t].clock \in Nat /\ clock + 1 \in Nat
      BY <1>0 DEF Regs
    <3> QED
      BY <1>5, <3>1 DEF Touch, Freshen
  <2>2. reg[t].entry \in 1..Len(entries) /\ cache' = cache
    BY <1>0, <1>5 DEF Touch, Freshen, Goto, RegOK, LocalsOK, HasEntry
  <2> QED
    BY <1>0, <2>1, <2>2, TouchKeeps
<1>6. ASSUME NEW t \in Threads, StartGenerate(t) \/ Generate(t) PROVE Kept /\ cache' = cache
  <2>1. PICK x \in {"running", "done"} :
          entries' = [entries EXCEPT ![reg[t].entry].state = x]
          /\ (Ready(reg[t].entry) => x = "done")
    BY <1>6 DEF StartGenerate, Generate, Ready
  <2>2. reg[t].entry \in 1..Len(entries) /\ cache' = cache
    BY <1>0, <1>6 DEF StartGenerate, Generate, Goto, RegOK, LocalsOK, HasEntry
  <2> QED
    BY <1>0, <2>1, <2>2, FillKeeps
<1>7. ASSUME NEW t \in Threads, EvictOne(t) PROVE Kept
  BY <1>1, <1>7 DEF EvictOne
<1>8. ASSUME NEW t \in Threads,
             \/ RecentMiss(t) \/ Lookup(t) \/ Return(t) \/ Send(t) \/ Take(t)
             \/ GetReady(t) \/ StartEvict(t) \/ EvictDone(t)
      PROVE  Kept /\ cache' = cache
  BY <1>1, <1>8 DEF RecentMiss, Lookup, Return, Send, Take, GetReady, StartEvict, EvictDone
<1>10. ASSUME NEW t \in Callers, NEW i \in Tiles, Tile(t, i) PROVE Kept /\ cache' = cache
  BY <1>1, <1>10 DEF Tile
<1>11. ASSUME NEW n \in Reserves, Reserve(n) PROVE Kept /\ cache' = cache
  BY <1>1, <1>11 DEF Reserve
<1>9. CASE UNCHANGED vars
  BY <1>1, <1>9 DEF vars
<1>12. clock + 1 \in Nat
  BY <1>0
<1> QED
  BY <1>1, <1>2, <1>3, <1>4, <1>5, <1>6, <1>7, <1>8, <1>9, <1>10, <1>11, <1>12
  DEF Next, Own, Background, Shared

(* A tile under way is in the map, and its inserter's eviction is to come. *)
LEMMA StepUnderWay ==
  ASSUME TInv, TInv', UnderWayIsCached, UnderWayIsOwed, [Next]_vars
  PROVE  UnderWayIsCached' /\ UnderWayIsOwed'
<1>0. /\ TypeOK /\ CacheOK /\ RegOK /\ DOMAIN entries = 1..Len(entries) /\ Len(entries) \in Nat
      /\ DOMAIN entries' = 1..Len(entries') /\ Len(entries') \in Nat
      /\ \A k \in 1..Len(entries) : entries[k].tile \in Tiles
  <2>1. entries \in Seq(Entry) /\ entries' \in Seq(Entry) /\ TypeOK /\ CacheOK /\ RegOK
    BY DEF TInv, TypeOK
  <2>2. \A k \in 1..Len(entries) : entries[k] \in Entry
    BY <2>1, ElementOfSeq
  <2> QED
    BY <2>1, <2>2, LenProperties DEF Entry
<1>1. ASSUME NEW e \in 1..Len(entries), ~Ready(e) PROVE cache[entries[e].tile] = e
  BY <1>0, <1>1 DEF UnderWayIsCached
<1>2. ASSUME NEW e \in 1..Len(entries), ~Ready(e) PROVE e \in Owed'
  <2>1. ~ \E t \in Threads : EvictDone(t) /\ reg[t].entry = e
    <3> SUFFICES ASSUME NEW t \in Threads, EvictDone(t), reg[t].entry = e PROVE FALSE
      OBVIOUS
    <3>1. pc[t] = "evict"
      BY DEF EvictDone, Goto
    <3>2. LocalsOK(t)
      BY <1>0 DEF RegOK
    <3> QED
      BY <1>2, <3>1, <3>2 DEF LocalsOK
  <2> QED
    BY <1>0, <1>2, <2>1, StepOwed DEF UnderWayIsOwed
<1>3. CASE Kept /\ cache' = cache
  BY <1>0, <1>1, <1>2, <1>3 DEF Kept, UnderWayIsCached, UnderWayIsOwed
<1>4. CASE Kept /\ \E t \in Threads : EvictOne(t)
  <2>1. PICK t \in Threads : \E i \in Evictable(reg[t].tile) : cache' = [cache EXCEPT ![i] = 0]
    BY <1>4 DEF EvictOne
  <2> PICK i \in Evictable(reg[t].tile) : cache' = [cache EXCEPT ![i] = 0]
    BY <2>1
  <2>2. i \in Tiles /\ Ready(cache[i])
    BY DEF Evictable, Cached
  <2>3. ASSUME NEW e \in 1..Len(entries'), ~Ready(e)'
        PROVE  cache'[entries'[e].tile] = e /\ e \in Owed'
    <3>1. e \in 1..Len(entries) /\ ~Ready(e) /\ entries'[e].tile = entries[e].tile
      BY <1>4, <2>3 DEF Kept
    <3>2. entries[e].tile # i /\ cache[entries[e].tile] = e /\ e \in Owed'
      BY <1>1, <1>2, <2>2, <3>1
    <3> QED
      BY <1>0, <2>1, <2>2, <3>1, <3>2 DEF TypeOK
  <2> QED
    BY <1>0, <2>3 DEF UnderWayIsCached, UnderWayIsOwed
<1>5. ASSUME NEW t \in Threads, NEW i \in Tiles, NEW u \in Nat, cache[i] = 0, NewEntry(i, u),
             reg'[t].inserted, reg'[t].entry = Len(entries')
      PROVE  UnderWayIsCached' /\ UnderWayIsOwed'
  <2>1. /\ Len(entries') = Len(entries) + 1
        /\ \A k \in 1..Len(entries) : entries'[k] = entries[k]
        /\ entries'[Len(entries')] = [tile |-> i, state |-> "empty", used |-> u]
    BY <1>0, <1>5, NewEntryKeeps
  <2>2. cache' = [cache EXCEPT ![i] = Len(entries')] /\ cache \in [Tiles -> 0..Len(entries)]
    BY <1>0, <1>5, <2>1 DEF NewEntry, TypeOK
  <2>3. Len(entries') \in Owed'
    BY <1>5 DEF Owed
  <2>4. ASSUME NEW e \in 1..Len(entries), ~Ready(e)'
        PROVE  cache'[entries'[e].tile] = e /\ e \in Owed'
    <3>1. entries'[e] = entries[e] /\ ~Ready(e)
      BY <2>1, <2>4 DEF Ready
    <3>2. cache[entries[e].tile] = e /\ e \in Owed' /\ e # 0 /\ entries[e].tile \in Tiles
      BY <1>0, <1>1, <1>2, <3>1
    <3> QED
      BY <1>5, <2>2, <3>1, <3>2
  <2>5. cache'[entries'[Len(entries')].tile] = Len(entries')
    BY <2>1, <2>2
  <2> QED
    BY <1>0, <2>1, <2>3, <2>4, <2>5 DEF UnderWayIsCached, UnderWayIsOwed
<1> QED
  BY <1>3, <1>4, <1>5, StepCache

(* The size bound.  Insertions and the start of an eviction leave the set  *)
(* of tiles nobody owes an eviction for as it is or smaller; when an       *)
(* eviction ends for lack of tiles to evict, all that is left is its own   *)
(* tile and tiles under way, whose inserters still owe theirs.             *)
LEMMA StepSize ==
  ASSUME IInv, TInv', [Next]_vars
  PROVE  SizeBound'
<1> USE TileCacheAssumption
<1>0. /\ TypeOK /\ CacheOK /\ RegOK /\ Len(entries) \in Nat /\ TInv
      /\ cache \in [Tiles -> 0..Len(entries)]
      /\ capacity \in Nat \ {0} /\ Cardinality(Cached \ OwedTiles) <= capacity
  BY LenProperties DEF IInv, TInv, TypeOK, SizeBound
<1>1. capacity' \in Nat /\ capacity' >= capacity
  <2>1. capacity' \in Nat
    BY DEF TInv, TypeOK
  <2>2. capacity' = capacity \/ \E n \in Reserves : n > capacity /\ capacity' = n
    BY DEF Next, vars, Own, Background, Shared, Tile, RecentHit, RecentMiss, Lookup, Insert, Touch,
           Return, Send, Take, Freshen, GetReady, StartGenerate, Generate, StartEvict, EvictOne,
           EvictDone, Reserve, Prefetch
  <2> QED
    BY <1>0, <2>1, <2>2
<1>2. \A S : S \subseteq Cached => IsFiniteSet(S) /\ Cardinality(S) \in Nat
  BY FS_Subset, FS_CardinalityType DEF Cached
<1>3. ASSUME NEW S, Cached' \ OwedTiles' \subseteq S, S \subseteq Cached, Cardinality(S) <= capacity
      PROVE  SizeBound'
  <2>1. Cardinality(Cached' \ OwedTiles') <= Cardinality(S) /\ Cardinality(Cached' \ OwedTiles') \in Nat
    BY <1>2, <1>3, FS_Subset
  <2>2. Cardinality(S) \in Nat
    BY <1>2, <1>3
  <2> QED
    BY <1>0, <1>1, <1>3, <2>1, <2>2 DEF SizeBound
<1>4. ASSUME NEW e \in Owed
      PROVE  e \in 1..Len(entries) /\ entries'[e].tile = entries[e].tile
  <2>1. e \in 1..Len(entries)
    BY <1>0, OwedEntries
  <2>2. \A i \in Tiles, u \in Nat : NewEntry(i, u) => entries'[e] = entries[e]
    BY <1>0, <2>1, NewEntryKeeps
  <2> QED
    BY <1>0, <2>1, <2>2, StepCache DEF Kept
<1>5. ASSUME NEW t \in Threads, EvictDone(t) PROVE SizeBound'
  <2>1. /\ entries' = entries /\ cache' = cache /\ pc[t] = "evict"
        /\ Cardinality(Cached) <= capacity \/ Evictable(reg[t].tile) = {}
    BY <1>5 DEF EvictDone, Goto
  <2>2. Cached' = Cached
    BY <2>1 DEF Cached
  <2>3. CASE Cardinality(Cached) <= capacity
    BY <1>3, <2>2, <2>3
  <2>4. CASE Evictable(reg[t].tile) = {}
    <3>1. /\ Ready(reg[t].entry) /\ reg[t].entry \in 1..Len(entries)
          /\ entries[reg[t].entry].tile = reg[t].tile
      BY <1>0, <2>1 DEF RegOK, LocalsOK, HasEntry
    <3>2. ASSUME NEW i \in Cached, i # reg[t].tile PROVE i \in OwedTiles'
      <4>0. i \in Tiles /\ cache[i] # 0
        BY <3>2 DEF Cached
      <4>1. cache[i] \in 1..Len(entries) /\ entries[cache[i]].tile = i
        <5>1. cache[i] \in 0..Len(entries)
          BY <1>0, <4>0
        <5>2. entries[cache[i]].tile = i
          BY <1>0, <4>0 DEF CacheOK
        <5> QED
          BY <1>0, <4>0, <5>1, <5>2
      <4>2. ~Ready(cache[i])
        BY <2>4, <3>2 DEF Evictable
      <4>3. cache[i] \in Owed
        BY <4>1, <4>2, <1>0, OwedDef DEF IInv, UnderWayIsOwed
      <4>4. cache[i] \in Owed'
        <5>1. ASSUME NEW v \in Threads, EvictDone(v), reg[v].entry = cache[i] PROVE FALSE
          BY <1>0, <4>2, <5>1 DEF EvictDone, Goto, RegOK, LocalsOK
        <5> QED
          BY <1>0, <4>3, <5>1, StepOwed
      <4> QED
        BY <2>1, <4>0, <4>1, <4>4 DEF OwedTiles
    <3>3. Cached' \ OwedTiles' \subseteq Cached \cap {reg[t].tile}
      BY <2>2, <3>2
    <3>4. Cardinality(Cached \cap {reg[t].tile}) <= 1
      <4>1. IsFiniteSet({reg[t].tile}) /\ Cardinality({reg[t].tile}) = 1
        BY FS_Singleton
      <4>2. Cached \cap {reg[t].tile} \in SUBSET {reg[t].tile}
        OBVIOUS
      <4> QED
        BY <4>1, <4>2, FS_Subset
    <3>5. Cardinality(Cached \cap {reg[t].tile}) \in Nat
      BY <1>2
    <3> QED
      BY <1>0, <1>3, <3>3, <3>4, <3>5
  <2> QED
    BY <2>1, <2>3, <2>4
<1>6. CASE \A t \in Threads : ~EvictDone(t)
  <2>1. OwedTiles \subseteq OwedTiles'
    <3>1. Owed \subseteq Owed'
      BY <1>0, <1>6, StepOwed
    <3> QED
      BY <1>4, <3>1 DEF OwedTiles
  <2>2. Cached' \subseteq Cached \cup OwedTiles'
    <3>1. CASE cache' = cache
      BY <3>1 DEF Cached
    <3>2. CASE \E t \in Threads : EvictOne(t)
      <4>1. PICK i \in Tiles : cache' = [cache EXCEPT ![i] = 0]
        BY <3>2 DEF EvictOne, Evictable, Cached
      <4> QED
        BY <1>0, <4>1 DEF Cached
    <3>3. ASSUME NEW t \in Threads, NEW i \in Tiles, NEW u \in Nat, NewEntry(i, u),
                 reg'[t].inserted, reg'[t].entry = Len(entries')
          PROVE  Cached' \subseteq Cached \cup OwedTiles'
      <4>1. entries'[Len(entries')].tile = i
        <5>1. entries'[Len(entries')] = [tile |-> i, state |-> "empty", used |-> u]
          BY <1>0, <3>3, NewEntryKeeps
        <5> QED
          BY <5>1
      <4>2. i \in OwedTiles'
        BY <3>3, <4>1 DEF OwedTiles, Owed
      <4> QED
        BY <1>0, <3>3, <4>2 DEF NewEntry, Cached
    <3> QED
      BY <1>0, <3>1, <3>2, <3>3, StepCache
  <2>3. Cached' \ OwedTiles' \subseteq Cached \ OwedTiles
    BY <2>1, <2>2
  <2> QED
    BY <1>0, <1>3, <2>3
<1> QED
  BY <1>5, <1>6

(* The inductive invariant holds in every behaviour.                       *)
LEMMA Invariance == Spec => []IInv
<1>1. Init => IInv
  <2> SUFFICES ASSUME Init PROVE IInv
    OBVIOUS
  <2>1. TInv
    BY InitTInv
  <2>2. UnderWayIsCached /\ UnderWayIsOwed
    BY DEF Init, InitWith, UnderWayIsCached, UnderWayIsOwed
  <2>3. Cached \ OwedTiles = {}
    BY DEF Init, InitWith, Cached
  <2>4. SizeBound
    <3>1. Cardinality(Cached \ OwedTiles) = 0
      BY <2>3, FS_EmptySet
    <3>2. capacity \in Nat
      BY <2>1 DEF TInv, TypeOK
    <3> QED
      BY <3>1, <3>2 DEF SizeBound
  <2> QED
    BY <2>1, <2>2, <2>4 DEF IInv
<1>2. IInv /\ [Next]_vars => IInv'
  BY StepTInv, StepUnderWay, StepSize DEF IInv
<1> QED
  BY <1>1, <1>2, PTL DEF Spec

(* At most capacity tiles are cached besides those whose inserter still    *)
(* has its eviction to run.                                                *)
THEOREM CacheBounded == Spec => []SizeBound
<1>1. IInv => SizeBound
  BY DEF IInv
<1> QED
  BY <1>1, Invariance, PTL

(* A tile being generated stays in the cache until it is done, so that no  *)
(* second thread generates it.                                             *)
THEOREM UnderWayCached == Spec => []UnderWayIsCached
<1>1. IInv => UnderWayIsCached
  BY DEF IInv
<1> QED
  BY <1>1, Invariance, PTL
-----------------------------------------------------------------------------
(* A thread's own list, and that it holds no second entry of the tile the  *)
(* thread is about to put there.                                           *)
RecentsOK(t) ==
  /\ Len(recents[t]) <= Recent
  /\ \A k \in 1..Len(recents[t]) : Ready(recents[t][k])
  /\ \A j, k \in 1..Len(recents[t]) :
       entries[recents[t][j]].tile = entries[recents[t][k]].tile => j = k
  /\ pc[t] \in Looking =>
       \A k \in 1..Len(recents[t]) : entries[recents[t][k]].tile # reg[t].tile

RInv == TInv /\ \A t \in Callers : RecentsOK(t)

(* A thread generates an entry that is running, alone, and every running   *)
(* entry has its thread.                                                   *)
Generating(t, e) == pc[t] = "generate" /\ reg[t].entry = e

OneEach ==
  /\ \A t \in Threads, e \in 1..Len(entries) : Generating(t, e) => entries[e].state = "running"
  /\ \A e \in 1..Len(entries) : entries[e].state = "running" => \E t \in Threads : Generating(t, e)
  /\ \A t, u \in Threads, e \in 1..Len(entries) : Generating(t, e) /\ Generating(u, e) => t = u

Started == {e \in 1..Len(entries) : entries[e].state # "empty"}

GInv == TInv /\ OneEach /\ generated = Cardinality(Started)

(* Entries only ever grow in number and in how far they are generated.     *)
LEMMA StepGrown == ASSUME TInv, [Next]_vars PROVE Grown
<1>0. TypeOK /\ CacheOK
  BY DEF TInv
<1>1. ASSUME NEW i \in Tiles, NEW u \in Nat, NewEntry(i, u) PROVE Grown
  <2>1. /\ Len(entries') = Len(entries) + 1 /\ Len(entries) \in Nat
        /\ \A k \in 1..Len(entries) : entries'[k] = entries[k]
    BY <1>0, <1>1, NewEntryKeeps, LenProperties DEF TypeOK
  <2> QED
    BY <2>1 DEF Grown, Ready
<1> QED
  BY <1>0, <1>1, StepCache, KeptGrown

(* Where an element is from after the k-th was moved to the front.         *)
From(k, j) == IF j = 1 THEN k ELSE IF j <= k THEN j - 1 ELSE j

Fronted(s, k) == <<s[k]>> \o RemoveAt(s, k)

(* A recent list with its k-th element moved to the front: which element   *)
(* of the old list each place holds.                                       *)
LEMMA ToFront ==
  ASSUME NEW S, NEW s \in Seq(S), NEW k \in 1..Len(s)
  PROVE  /\ Fronted(s, k) \in Seq(S) /\ Len(Fronted(s, k)) = Len(s)
         /\ \A j \in 1..Len(s) : Fronted(s, k)[j] = s[From(k, j)]
<1> PICK q : q = Fronted(s, k)
  OBVIOUS
<1> DEFINE a == SubSeq(s, 1, k - 1)
           b == SubSeq(s, k + 1, Len(s))
<1>0. Len(s) \in Nat /\ s[k] \in S
  BY LenProperties, ElementOfSeq
<1>1. a \in Seq(S) /\ Len(a) = k - 1 /\ \A j \in 1..(k - 1) : a[j] = s[j]
  BY <1>0
<1>2. b \in Seq(S) /\ Len(b) = Len(s) - k /\ \A j \in 1..(Len(s) - k) : b[j] = s[k + j]
  BY <1>0
<1> HIDE DEF a, b
<1>3. /\ a \o b \in Seq(S) /\ Len(a \o b) = Len(s) - 1
      /\ \A j \in 1..(Len(s) - 1) : (a \o b)[j] = s[IF j < k THEN j ELSE j + 1]
  <2>0. /\ a \o b \in Seq(S)
        /\ Len(a \o b) = Len(a) + Len(b)
        /\ \A i \in 1 .. Len(a) + Len(b) : (a \o b)[i] = IF i <= Len(a) THEN a[i] ELSE b[i - Len(a)]
    BY <1>1, <1>2, ConcatProperties, Zenon
  <2>1. a \o b \in Seq(S) /\ Len(a \o b) = Len(s) - 1
    BY <1>0, <1>1, <1>2, <2>0
  <2>2. ASSUME NEW j \in 1..(Len(s) - 1) PROVE (a \o b)[j] = s[IF j < k THEN j ELSE j + 1]
    <3>1. (a \o b)[j] = IF j <= Len(a) THEN a[j] ELSE b[j - Len(a)]
      BY <1>0, <1>1, <1>2, <2>0
    <3>2. CASE j < k
      BY <1>0, <1>1, <3>1, <3>2
    <3>3. CASE ~ j < k
      <4>1. j - (k - 1) \in 1..(Len(s) - k) /\ k + (j - (k - 1)) = j + 1
        BY <1>0, <3>3
      <4> QED
        BY <1>0, <1>1, <1>2, <3>1, <3>3, <4>1
    <3> QED
      BY <1>0, <3>2, <3>3
  <2> QED
    BY <2>1, <2>2
<1> DEFINE r == a \o b
<1>4. q = <<s[k]>> \o r
  BY DEF RemoveAt, Fronted, a, b
<1>5. r \in Seq(S) /\ Len(r) = Len(s) - 1 /\ <<s[k]>> \in Seq(S) /\ Len(<<s[k]>>) = 1
      /\ <<s[k]>>[1] = s[k]
  BY <1>0, <1>3
<1>6. \A j \in 1..(Len(s) - 1) : r[j] = s[IF j < k THEN j ELSE j + 1]
  BY <1>3
<1> HIDE DEF r
<1> DEFINE h == <<s[k]>>
<1>9. h \in Seq(S) /\ Len(h) = 1 /\ h[1] = s[k] /\ q = h \o r
  BY <1>4, <1>5
<1> HIDE DEF h
<1>10. /\ h \o r \in Seq(S)
       /\ Len(h \o r) = Len(h) + Len(r)
       /\ \A i \in 1 .. Len(h) + Len(r) : (h \o r)[i] = IF i <= Len(h) THEN h[i] ELSE r[i - Len(h)]
  BY <1>5, <1>9, ConcatProperties, Zenon
<1>7. q \in Seq(S) /\ Len(q) = Len(s)
  <2>1. q \in Seq(S)
    BY <1>9, <1>10, Zenon
  <2>2. Len(q) = Len(h) + Len(r)
    BY <1>9, <1>10, Zenon
  <2>3. Len(s) \in Nat /\ Len(r) = Len(s) - 1
    BY <1>0, <1>5
  <2>4. Len(h) = 1
    BY <1>9
  <2>5. Len(q) = Len(s)
    BY <2>2, <2>3, <2>4
  <2> QED
    BY <2>1, <2>5
<1>8. ASSUME NEW j \in 1..Len(s)
      PROVE  q[j] = s[From(k, j)]
  <2>1. q[j] = IF j <= 1 THEN s[k] ELSE r[j - 1]
    BY <1>0, <1>5, <1>9, <1>10
  <2>2. CASE j = 1
    BY <2>1, <2>2 DEF From
  <2>3. CASE j # 1
    <3>1. j - 1 \in 1..(Len(s) - 1) /\ ~ j <= 1 /\ (j - 1 < k <=> j <= k)
          /\ (j - 1) + 1 = j
      BY <1>0, <2>3
    <3>2. r[j - 1] = s[IF j - 1 < k THEN j - 1 ELSE (j - 1) + 1]
      BY <1>6, <3>1
    <3> QED
      BY <2>1, <2>3, <3>1, <3>2 DEF From
  <2> QED
    BY <2>2, <2>3
<1> QED
  BY <1>7, <1>8

(* A recent list after an entry was put before it and its end dropped.     *)
LEMMA PutFirst ==
  ASSUME NEW S, NEW s \in Seq(S), NEW e \in S, NEW n \in 1..(Len(s) + 1), NEW q,
         q = SubSeq(<<e>> \o s, 1, n)
  PROVE  Len(q) = n /\ \A j \in 1..n : q[j] = IF j = 1 THEN e ELSE s[j - 1]
<1> DEFINE c == <<e>> \o s
<1>1. /\ Len(s) \in Nat /\ c \in Seq(S) /\ Len(c) = Len(s) + 1
      /\ \A j \in 1..(Len(s) + 1) : c[j] = IF j = 1 THEN e ELSE s[j - 1]
  <2>1. <<e>> \in Seq(S) /\ Len(<<e>>) = 1 /\ <<e>>[1] = e /\ Len(s) \in Nat
    BY LenProperties
  <2>2. /\ c \in Seq(S) /\ Len(c) = 1 + Len(s)
        /\ \A j \in 1..(1 + Len(s)) : c[j] = IF j <= 1 THEN <<e>>[j] ELSE s[j - 1]
    BY <2>1, ConcatProperties
  <2> QED
    BY <2>1, <2>2
<1> HIDE DEF c
<1>2. q = SubSeq(c, 1, n)
  BY DEF c
<1>3. Len(q) = n /\ \A j \in 1..n : q[j] = c[j]
  BY <1>1, <1>2
<1> QED
  BY <1>1, <1>3

(* A thread's list is as right as before when the thread neither changes   *)
(* it nor begins to look for a tile.                                       *)
LEMMA RecentsFrame ==
  ASSUME TInv, Grown, NEW t \in Callers, RecentsOK(t), recents'[t] = recents[t],
         pc'[t] \in Looking => pc[t] \in Looking /\ reg'[t].tile = reg[t].tile
  PROVE  RecentsOK(t)'
<1>1. \A k \in 1..Len(recents[t]) : recents[t][k] \in 1..Len(entries)
  BY ElementOfSeq DEF TInv, TypeOK
<1>2. \A k \in 1..Len(recents[t]) :
        entries'[recents[t][k]].tile = entries[recents[t][k]].tile
        /\ (Ready(recents[t][k]) => Ready(recents[t][k])')
  BY <1>1 DEF Grown, Ready
<1> QED
  BY <1>2 DEF RecentsOK, Ready

(* Only a hit and a return change a thread's list, and only a miss sends   *)
(* the thread looking for a tile it does not have.                         *)
SameList(t) ==
  /\ recents'[t] = recents[t]
  /\ pc'[t] \in Looking => pc[t] \in Looking /\ reg'[t].tile = reg[t].tile

LEMMA StepLooking ==
  ASSUME TInv, [Next]_vars, NEW t \in Callers, ~RecentHit(t), ~Return(t), ~RecentMiss(t)
  PROVE  SameList(t)
<1> USE TileCacheAssumption DEF Threads, Locals, Goto, SameList
<1>0. /\ pc \in [Threads -> PCs] /\ recents \in [Callers -> Seq(1..Len(entries))]
      /\ reg \in [Threads -> Regs(Len(entries))]
  BY DEF TInv, TypeOK, PCs, Regs
<1>1. ASSUME NEW u \in Threads, u # t,
             recents' = recents \/ \E x : recents' = [recents EXCEPT ![u] = x],
             pc' = pc \/ \E x : pc' = [pc EXCEPT ![u] = x],
             reg' = reg \/ \E x : reg' = [reg EXCEPT ![u] = x]
      PROVE  SameList(t)
  BY <1>0, <1>1
<1>2. ASSUME NEW u \in Callers, NEW i \in Tiles, Tile(u, i) PROVE SameList(t)
  BY <1>0, <1>1, <1>2 DEF Tile, Looking
<1>3. ASSUME NEW u \in Callers, NEW i \in Tiles, Prefetch(u, i) PROVE SameList(t)
  BY <1>0, <1>1, <1>3 DEF Prefetch, Looking
<1>4. ASSUME NEW u \in Callers, RecentHit(u) PROVE SameList(t)
  BY <1>0, <1>1, <1>4 DEF RecentHit
<1>5. ASSUME NEW u \in Callers, RecentMiss(u) PROVE SameList(t)
  BY <1>0, <1>1, <1>5 DEF RecentMiss
<1>6. ASSUME NEW u \in Callers, Return(u) PROVE SameList(t)
  BY <1>0, <1>1, <1>6 DEF Return
<1>7. ASSUME NEW u \in Callers, Lookup(u) PROVE SameList(t)
  BY <1>0, <1>1, <1>7 DEF Lookup, Looking
<1>8. ASSUME NEW u \in Callers, Insert(u) PROVE SameList(t)
  <2>1. PICK x, b : reg' = [reg EXCEPT ![u] = Locals(reg[u].tile, reg[u].clock, x, b)]
    BY <1>0, <1>8 DEF Insert
  <2> QED
    BY <1>0, <1>1, <1>8, <2>1 DEF Insert, Looking
<1>9. ASSUME NEW u \in Callers, Touch(u) PROVE SameList(t)
  BY <1>0, <1>1, <1>9 DEF Touch, Looking
<1>10. ASSUME NEW u \in Callers, Send(u) PROVE SameList(t)
  BY <1>0, <1>1, <1>10 DEF Send, Looking
<1>11. ASSUME NEW u \in Workers, Take(u) \/ Freshen(u) PROVE SameList(t)
  BY <1>0, <1>1, <1>11 DEF Take, Freshen
<1>12. ASSUME NEW u \in Threads, GetReady(u) \/ StartGenerate(u) \/ Generate(u) PROVE SameList(t)
  BY <1>0, <1>1, <1>12 DEF GetReady, StartGenerate, Generate, Looking
<1>13. ASSUME NEW u \in Threads, StartEvict(u) PROVE SameList(t)
  BY <1>0, <1>1, <1>13 DEF StartEvict, Looking
<1>14. ASSUME NEW u \in Threads, EvictOne(u) PROVE SameList(t)
  BY <1>0, <1>14 DEF EvictOne
<1>15. ASSUME NEW u \in Threads, EvictDone(u) PROVE SameList(t)
  BY <1>0, <1>1, <1>15 DEF EvictDone, Looking
<1>16. ASSUME NEW n \in Reserves, Reserve(n) PROVE SameList(t)
  BY <1>0, <1>16 DEF Reserve
<1>17. CASE UNCHANGED vars
  BY <1>0, <1>17 DEF vars
<1> HIDE DEF Threads, Locals, Goto, SameList
<1> QED
  BY <1>2, <1>3, <1>4, <1>5, <1>6, <1>7, <1>8, <1>9, <1>10, <1>11, <1>12, <1>13, <1>14, <1>15,
     <1>16, <1>17 DEF Next, Own, Background, Shared

(* Every step keeps every thread's list right.                             *)
LEMMA StepRInv == RInv /\ [Next]_vars => RInv'
<1> SUFFICES ASSUME RInv, [Next]_vars, NEW t \in Callers PROVE RecentsOK(t)'
  BY StepTInv DEF RInv
<1>0. /\ TInv /\ Grown /\ RecentsOK(t) /\ t \in Threads /\ LocalsOK(t)
      /\ recents \in [Callers -> Seq(1..Len(entries))] /\ recents[t] \in Seq(1..Len(entries))
      /\ pc \in [Threads -> PCs] /\ Recent \in Nat \ {0} /\ Len(recents[t]) \in Nat
      /\ \A k \in 1..Len(recents[t]) : recents[t][k] \in 1..Len(entries)
  BY StepGrown, TileCacheAssumption, LenProperties, ElementOfSeq
  DEF RInv, TInv, TypeOK, RegOK, Threads, PCs
<1>1. \A e \in 1..Len(entries) : entries'[e].tile = entries[e].tile /\ (Ready(e) => Ready(e)')
  BY <1>0 DEF Grown
<1>2. CASE RecentHit(t)
  <2>1. PICK k \in InRecents(t) :
          /\ recents' = [recents EXCEPT ![t] = <<@[k]>> \o RemoveAt(@, k)]
          /\ pc' = [pc EXCEPT ![t] = "idle"]
    BY <1>2 DEF RecentHit, Goto
  <2>2. k \in 1..Len(recents[t]) /\ pc'[t] \notin Looking
        /\ recents'[t] = <<recents[t][k]>> \o RemoveAt(recents[t], k)
    BY <1>0, <2>1, LenProperties DEF InRecents, Looking
  <2>3. Len(recents'[t]) = Len(recents[t])
        /\ \A j \in 1..Len(recents[t]) : recents'[t][j] = recents[t][From(k, j)]
    <3>1. PICK a, q : a = recents[t] /\ q = recents'[t]
      OBVIOUS
    <3>2. a \in Seq(1..Len(entries)) /\ k \in 1..Len(a) /\ q = Fronted(a, k)
      BY <1>0, <2>2, <3>1 DEF Fronted
    <3>3. /\ q \in Seq(1..Len(entries)) /\ Len(q) = Len(a)
          /\ \A j \in 1..Len(a) : q[j] = a[From(k, j)]
      BY <3>2, ToFront, Zenon
    <3> QED
      BY <3>1, <3>3
  <2>4. /\ \A j \in 1..Len(recents[t]) : From(k, j) \in 1..Len(recents[t])
        /\ \A i, j \in 1..Len(recents[t]) : From(k, i) = From(k, j) => i = j
    BY <1>0, <2>2 DEF From
  <2>5. ASSUME NEW j \in 1..Len(recents[t]) PROVE entries'[recents'[t][j]].state = "done"
    <3>1. recents'[t][j] = recents[t][From(k, j)] /\ From(k, j) \in 1..Len(recents[t])
      BY <2>3, <2>4
    <3>2. Ready(recents[t][From(k, j)]) /\ recents[t][From(k, j)] \in 1..Len(entries)
      BY <1>0, <3>1 DEF RecentsOK
    <3> QED
      BY <1>1, <3>1, <3>2 DEF Ready
  <2>6. ASSUME NEW i \in 1..Len(recents[t]), NEW j \in 1..Len(recents[t]),
               entries'[recents'[t][i]].tile = entries'[recents'[t][j]].tile
        PROVE  i = j
    <3>1. entries[recents[t][From(k, i)]].tile = entries[recents[t][From(k, j)]].tile
      BY <1>0, <1>1, <2>3, <2>4, <2>6
    <3>2. From(k, i) = From(k, j)
      BY <1>0, <2>4, <3>1 DEF RecentsOK
    <3> QED
      BY <2>4, <3>2
  <2> QED
    BY <1>0, <2>2, <2>3, <2>5, <2>6 DEF RecentsOK, Ready
<1>3. CASE Return(t)
  <2> DEFINE e == reg[t].entry
             n == IF Len(recents[t]) < Recent THEN Len(recents[t]) + 1 ELSE Recent
             s == recents[t]
  <2>1. /\ pc[t] = "got" /\ pc' = [pc EXCEPT ![t] = "idle"]
        /\ recents' = [recents EXCEPT ![t] = SubSeq(<<e>> \o s, 1, n)]
    BY <1>0, <1>3 DEF Return, Goto
  <2>2. /\ e \in 1..Len(entries) /\ Ready(e) /\ pc'[t] \notin Looking
        /\ \A k \in 1..Len(s) : entries[s[k]].tile # entries[e].tile
    BY <1>0, <2>1 DEF LocalsOK, HasEntry, RecentsOK, Looking
  <2>3. n \in 1..(Len(s) + 1) /\ n <= Recent
    BY <1>0 DEF RecentsOK
  <2>4. recents'[t] = SubSeq(<<e>> \o s, 1, n) /\ s \in Seq(1..Len(entries))
    BY <1>0, <2>1
  <2> HIDE DEF e, n
  <2>5. Len(recents'[t]) = n
        /\ \A j \in 1..n : recents'[t][j] = IF j = 1 THEN e ELSE s[j - 1]
    BY <2>2, <2>3, <2>4, PutFirst
  <2>6. ASSUME NEW j \in 1..n PROVE entries'[recents'[t][j]].state = "done"
    <3>1. CASE j = 1
      BY <1>1, <2>2, <2>5, <3>1 DEF Ready
    <3>2. CASE j # 1
      <4>1. j - 1 \in 1..Len(s)
        BY <1>0, <2>3, <3>2
      <4>2. entries'[recents'[t][j]].state = "done"
        <5>1. recents'[t][j] = s[j - 1]
          BY <2>5, <3>2
        <5>2. Ready(s[j - 1]) /\ s[j - 1] \in 1..Len(entries)
          BY <1>0, <4>1 DEF RecentsOK
        <5> QED
          BY <1>1, <5>1, <5>2 DEF Ready
      <4> QED
        BY <4>2
    <3> QED
      BY <3>1, <3>2
  <2>7. ASSUME NEW i \in 1..n, NEW j \in 1..n,
               entries'[recents'[t][i]].tile = entries'[recents'[t][j]].tile
        PROVE  i = j
    <3>1. \A m \in 1..n : m # 1 => m - 1 \in 1..Len(s)
      BY <1>0, <2>3
    <3>2. \A m \in 1..n : recents'[t][m] \in 1..Len(entries)
      BY <1>0, <2>2, <2>5, <3>1
    <3>3. entries[recents'[t][i]].tile = entries[recents'[t][j]].tile
      BY <1>1, <2>7, <3>2
    <3>4. CASE i = 1 /\ j = 1
      BY <3>4
    <3>5. CASE i = 1 /\ j # 1
      BY <2>2, <2>5, <3>1, <3>3, <3>5
    <3>6. CASE i # 1 /\ j = 1
      BY <2>2, <2>5, <3>1, <3>3, <3>6
    <3>7. CASE i # 1 /\ j # 1
      <4>1. i - 1 \in 1..Len(s) /\ j - 1 \in 1..Len(s)
            /\ entries[s[i - 1]].tile = entries[s[j - 1]].tile
        BY <2>5, <3>1, <3>3, <3>7
      <4>2. i - 1 = j - 1
        BY <1>0, <4>1 DEF RecentsOK
      <4> QED
        BY <1>0, <2>3, <4>2
    <3> QED
      BY <3>4, <3>5, <3>6, <3>7
  <2> QED
    BY <2>2, <2>3, <2>5, <2>6, <2>7 DEF RecentsOK, Ready
<1>4. CASE RecentMiss(t)
  <2>1. /\ recents' = recents /\ entries' = entries /\ InRecents(t) = {}
        /\ reg' = [reg EXCEPT ![t] = Locals(@.tile, clock + 1, 0, FALSE)]
    BY <1>4 DEF RecentMiss
  <2>2. reg'[t].tile = reg[t].tile
    BY <1>0, <2>1 DEF Locals, TInv, TypeOK
  <2>3. \A k \in 1..Len(recents[t]) : entries[recents[t][k]].tile # reg[t].tile
    BY <1>0, <2>1, LenProperties DEF InRecents
  <2> QED
    BY <1>0, <2>1, <2>2, <2>3 DEF RecentsOK, Ready
<1>5. CASE ~RecentHit(t) /\ ~Return(t) /\ ~RecentMiss(t)
  BY <1>0, <1>5, StepLooking, RecentsFrame DEF RInv, SameList
<1> QED
  BY <1>2, <1>3, <1>4, <1>5

(* However many callers, tiles and evictions, a thread has one copy of a   *)
(* tile at most, finished: a tile it looks for it does not remember.       *)
THEOREM OneCopyEachAlways == Spec => []OneCopyEach
<1>1. Init => RInv
  <2> SUFFICES ASSUME Init, NEW t \in Callers PROVE RecentsOK(t)
    BY InitTInv DEF RInv
  <2>1. recents[t] = <<>> /\ pc[t] = "idle" /\ Recent \in Nat
    BY TileCacheAssumption DEF Init, InitWith, Threads
  <2> QED
    BY <2>1 DEF RecentsOK, Looking
<1>2. RInv => OneCopyEach
  <2> SUFFICES ASSUME RInv, NEW t \in Callers
               PROVE  /\ Len(recents[t]) <= Recent
                      /\ \A k \in DOMAIN recents[t] : Ready(recents[t][k])
                      /\ \A j, k \in DOMAIN recents[t] :
                           entries[recents[t][j]].tile = entries[recents[t][k]].tile => j = k
                      /\ pc[t] \in Looking =>
                           \A k \in DOMAIN recents[t] : entries[recents[t][k]].tile # reg[t].tile
    BY DEF OneCopyEach
  <2>1. RecentsOK(t) /\ DOMAIN recents[t] = 1..Len(recents[t])
    BY LenProperties DEF RInv, TInv, TypeOK
  <2> QED
    BY <2>1 DEF RecentsOK
<1> QED
  BY <1>1, <1>2, StepRInv, PTL DEF Spec
-----------------------------------------------------------------------------
(* The other steps neither start nor finish a generation: the entries are  *)
(* as far generated as before, a new one is empty, and the same threads    *)
(* generate the same entries.                                              *)
NoGeneration ==
  /\ generated' = generated
  /\ Len(entries') >= Len(entries)
  /\ \A e \in 1..Len(entries) : entries'[e].state = entries[e].state
  /\ \A e \in 1..Len(entries') : e \notin 1..Len(entries) => entries'[e].state = "empty"
  /\ \A t \in Threads :
       /\ pc'[t] = "generate" <=> pc[t] = "generate"
       /\ pc[t] = "generate" => reg'[t].entry = reg[t].entry

LEMMA StepNoGeneration ==
  ASSUME TInv, [Next]_vars, \A t \in Threads : ~StartGenerate(t) /\ ~Generate(t)
  PROVE  NoGeneration
<1> USE TileCacheAssumption DEF Threads, Locals, Goto
<1>0. /\ pc \in [Threads -> PCs] /\ reg \in [Threads -> Regs(Len(entries))]
      /\ entries \in Seq(Entry) /\ Len(entries) \in Nat /\ clock \in Nat
      /\ recents \in [Callers -> Seq(1..Len(entries))] /\ TypeOK /\ CacheOK /\ RegOK
  BY LenProperties DEF TInv, TypeOK, PCs, Regs
<1> DEFINE SameStates == /\ Len(entries') >= Len(entries)
                         /\ \A e \in 1..Len(entries) : entries'[e].state = entries[e].state
                         /\ \A e \in 1..Len(entries') :
                              e \notin 1..Len(entries) => entries'[e].state = "empty"
           SameWork(t) == /\ pc'[t] = "generate" <=> pc[t] = "generate"
                          /\ pc[t] = "generate" => reg'[t].entry = reg[t].entry
<1>1. ASSUME entries' = entries PROVE SameStates
  BY <1>0, <1>1
<1>2. ASSUME NEW e \in 1..Len(entries), NEW u, entries' = [entries EXCEPT ![e].used = u]
      PROVE  SameStates
  <2>1. entries[e] \in Entry /\ \A k \in 1..Len(entries) : entries[k] \in Entry
    BY <1>0, ElementOfSeq
  <2>2. entries \in [1..Len(entries) -> Entry]
    BY <1>0, LenProperties
  <2>3. Len(entries') = Len(entries)
    BY <1>0, <1>2, <2>2
  <2>4. \A k \in 1..Len(entries) : entries'[k].state = entries[k].state
    BY <1>2, <2>1, <2>2 DEF Entry
  <2> QED
    BY <1>0, <2>3, <2>4
<1>3. ASSUME NEW i \in Tiles, NEW u \in Nat, NewEntry(i, u) PROVE SameStates
  <2>1. /\ Len(entries') = Len(entries) + 1
        /\ \A k \in 1..Len(entries) : entries'[k] = entries[k]
        /\ entries'[Len(entries')] = [tile |-> i, state |-> "empty", used |-> u]
    BY <1>0, <1>3, NewEntryKeeps
  <2> QED
    BY <1>0, <2>1
<1>4. ASSUME NEW t \in Threads, NEW from, NEW to, Goto(t, from, to),
             from # "generate", to # "generate",
             reg' = reg \/ \E x : reg' = [reg EXCEPT ![t] = x], NEW u \in Threads
      PROVE  SameWork(u)
  BY <1>0, <1>4
<1>5. ASSUME SameStates, generated' = generated, \A t \in Threads : SameWork(t)
      PROVE  NoGeneration
  BY <1>5 DEF NoGeneration
<1> HIDE DEF SameStates, SameWork, Goto
<1>6. ASSUME NEW t \in Callers, NEW i \in Tiles, Tile(t, i) PROVE NoGeneration
  BY <1>1, <1>4, <1>5, <1>6 DEF Tile
<1>7. ASSUME NEW t \in Callers, NEW i \in Tiles, Prefetch(t, i) PROVE NoGeneration
  <2>1. NewEntry(i, clock + 1) /\ clock + 1 \in Nat
    BY <1>0, <1>7 DEF Prefetch
  <2>2. Goto(t, "idle", "send") /\ (\E x : reg' = [reg EXCEPT ![t] = x]) /\ generated' = generated
    BY <1>7 DEF Prefetch
  <2>3. SameStates
    BY <1>3, <2>1
  <2>4. \A u \in Threads : SameWork(u)
    BY <1>4, <2>2
  <2> QED
    BY <1>5, <2>2, <2>3, <2>4
<1>8. ASSUME NEW t \in Callers, RecentHit(t) PROVE NoGeneration
  <2>1. PICK k \in InRecents(t) :
          entries' = [entries EXCEPT ![recents[t][k]].used = reg[t].clock]
    BY <1>8 DEF RecentHit
  <2>2. recents[t][k] \in 1..Len(entries)
    BY <1>0, LenProperties, ElementOfSeq DEF InRecents
  <2>3. SameStates
    BY <1>2, <2>1, <2>2
  <2>4. Goto(t, "recent", "idle") /\ reg' = [reg EXCEPT ![t] = Idle] /\ generated' = generated
    BY <1>8 DEF RecentHit
  <2> QED
    BY <1>4, <1>5, <2>3, <2>4
<1>9. ASSUME NEW t \in Callers, RecentMiss(t) PROVE NoGeneration
  BY <1>1, <1>4, <1>5, <1>9 DEF RecentMiss
<1>10. ASSUME NEW t \in Callers, Lookup(t) PROVE NoGeneration
  <2>1. /\ \E to \in {"insert", "touch"} : Goto(t, "lookup", to)
        /\ \E x : reg' = [reg EXCEPT ![t] = x]
        /\ entries' = entries /\ generated' = generated
    BY <1>10 DEF Lookup
  <2> QED
    BY <1>1, <1>4, <1>5, <2>1
<1>11. ASSUME NEW t \in Callers, Insert(t) PROVE NoGeneration
  <2>1. reg[t].tile \in Tiles /\ reg[t].clock \in Nat
    BY <1>0, <1>11 DEF Insert, Goto, RegOK, LocalsOK, Regs
  <2>2. SameStates
    BY <1>1, <1>3, <1>11, <2>1 DEF Insert
  <2>3. Goto(t, "insert", "touch") /\ (\E x : reg' = [reg EXCEPT ![t] = x]) /\ generated' = generated
    BY <1>11 DEF Insert
  <2> QED
    BY <1>4, <1>5, <2>2, <2>3
<1>12. ASSUME NEW t \in Callers, Touch(t) PROVE NoGeneration
  <2>1. reg[t].entry \in 1..Len(entries)
    BY <1>0, <1>12 DEF Touch, Goto, RegOK, LocalsOK, HasEntry
  <2> QED
    BY <1>2, <1>4, <1>5, <1>12, <2>1 DEF Touch
<1>13. ASSUME NEW t \in Callers, Return(t) PROVE NoGeneration
  BY <1>1, <1>4, <1>5, <1>13 DEF Return
<1>14. ASSUME NEW t \in Callers, Send(t) PROVE NoGeneration
  BY <1>1, <1>4, <1>5, <1>14 DEF Send
<1>15. ASSUME NEW t \in Workers, Take(t) PROVE NoGeneration
  BY <1>1, <1>4, <1>5, <1>15 DEF Take
<1>16. ASSUME NEW t \in Workers, Freshen(t) PROVE NoGeneration
  <2>1. reg[t].entry \in 1..Len(entries)
    BY <1>0, <1>16 DEF Freshen, Goto, RegOK, LocalsOK, HasEntry
  <2> QED
    BY <1>2, <1>4, <1>5, <1>16, <2>1 DEF Freshen
<1>17. ASSUME NEW t \in Threads, GetReady(t) PROVE NoGeneration
  BY <1>1, <1>4, <1>5, <1>17 DEF GetReady
<1>18. ASSUME NEW t \in Threads, StartEvict(t) PROVE NoGeneration
  <2>1. /\ \E from \in {"got", "fresh"} : Goto(t, from, "evict")
        /\ reg' = reg /\ entries' = entries /\ generated' = generated
    BY <1>18 DEF StartEvict
  <2> QED
    BY <1>1, <1>4, <1>5, <2>1
<1>19. ASSUME NEW t \in Threads, EvictOne(t) PROVE NoGeneration
  BY <1>1, <1>5, <1>19 DEF EvictOne, SameWork
<1>20. ASSUME NEW t \in Threads, EvictDone(t) PROVE NoGeneration
  <2>1. /\ \E to \in {"got", "idle"} : Goto(t, "evict", to)
        /\ \E x : reg' = [reg EXCEPT ![t] = x]
        /\ entries' = entries /\ generated' = generated
    BY <1>20 DEF EvictDone
  <2> QED
    BY <1>1, <1>4, <1>5, <2>1
<1>21. ASSUME NEW n \in Reserves, Reserve(n) PROVE NoGeneration
  BY <1>1, <1>5, <1>21 DEF Reserve, SameWork
<1>22. CASE UNCHANGED vars
  BY <1>1, <1>5, <1>22 DEF vars, SameWork
<1> HIDE DEF Threads, Locals
<1> QED
  BY <1>6, <1>7, <1>8, <1>9, <1>10, <1>11, <1>12, <1>13, <1>14, <1>15, <1>16, <1>17, <1>18, <1>19,
     <1>20, <1>21, <1>22 DEF Next, Own, Background, Shared

(* The counter and the threads at work stay right at every step.           *)
LEMMA StepGInv == GInv /\ [Next]_vars => GInv'
<1> SUFFICES ASSUME GInv, [Next]_vars PROVE OneEach' /\ generated' = Cardinality(Started')
  BY StepTInv DEF GInv
<1>0. /\ TInv /\ OneEach /\ generated = Cardinality(Started) /\ RegOK
      /\ pc \in [Threads -> PCs] /\ entries \in Seq(Entry) /\ entries \in [1..Len(entries) -> Entry]
      /\ Len(entries) \in Nat /\ IsFiniteSet(Started)
  <2>1. /\ TInv /\ OneEach /\ generated = Cardinality(Started) /\ RegOK
        /\ pc \in [Threads -> PCs] /\ entries \in Seq(Entry)
    BY DEF GInv, TInv, TypeOK, PCs
  <2>2. entries \in [1..Len(entries) -> Entry] /\ Len(entries) \in Nat
    BY <2>1, LenProperties
  <2>3. IsFiniteSet(Started)
    <3>1. Started \subseteq 1..Len(entries) /\ 1 \in Int /\ Len(entries) \in Int
      BY <2>2 DEF Started
    <3>2. IsFiniteSet(1..Len(entries))
      BY <3>1, FS_Interval
    <3> QED
      BY <3>1, <3>2, FS_Subset
  <2> QED
    BY <2>1, <2>2, <2>3
<1>1. CASE NoGeneration
  <2>1. Len(entries') \in Nat /\ Len(entries') >= Len(entries)
    BY <1>0, <1>1, StepTInv, LenProperties DEF NoGeneration, TInv, TypeOK
  <2>2. Started' = Started
    BY <1>0, <1>1, <2>1 DEF NoGeneration, Started
  <2>3. \A t \in Threads, e \in 1..Len(entries') : Generating(t, e)' => e \in 1..Len(entries) /\ Generating(t, e)
    BY <1>0, <1>1, <2>1 DEF NoGeneration, Generating, RegOK, LocalsOK, HasEntry
  <2>4. \A t \in Threads, e \in 1..Len(entries) : Generating(t, e) => Generating(t, e)'
    BY <1>1 DEF NoGeneration, Generating
  <2>5. \A e \in 1..Len(entries') : entries'[e].state # "empty" =>
          e \in 1..Len(entries) /\ entries'[e].state = entries[e].state
    BY <1>1 DEF NoGeneration
  <2>6. \A t \in Threads, e \in 1..Len(entries') : Generating(t, e)' => entries'[e].state = "running"
    BY <1>0, <1>1, <2>3 DEF NoGeneration, OneEach
  <2>7. \A e \in 1..Len(entries') : entries'[e].state = "running" => \E t \in Threads : Generating(t, e)'
    BY <1>0, <2>4, <2>5 DEF OneEach
  <2>8. \A t, u \in Threads, e \in 1..Len(entries') : Generating(t, e)' /\ Generating(u, e)' => t = u
    BY <1>0, <2>3 DEF OneEach
  <2> QED
    BY <1>0, <1>1, <2>2, <2>6, <2>7, <2>8 DEF NoGeneration, OneEach
<1>2. ASSUME NEW t \in Threads, StartGenerate(t) PROVE OneEach' /\ generated' = Cardinality(Started')
  <2> DEFINE x == reg[t].entry
  <2>1. /\ x \in 1..Len(entries) /\ entries[x].state = "empty" /\ pc[t] = "get"
        /\ pc' = [pc EXCEPT ![t] = "generate"] /\ reg' = reg /\ generated' = generated + 1
        /\ entries' = [entries EXCEPT ![x].state = "running"]
    BY <1>0, <1>2 DEF StartGenerate, Goto, RegOK, LocalsOK, HasEntry
  <2>2. /\ Len(entries') = Len(entries) /\ entries'[x].state = "running"
        /\ \A e \in 1..Len(entries) : e # x => entries'[e].state = entries[e].state
    BY <1>0, <2>1 DEF Entry
  <2>3. \A u \in Threads, e \in 1..Len(entries) :
          Generating(u, e)' <=> Generating(u, e) \/ (u = t /\ e = x)
    BY <1>0, <2>1 DEF Generating
  <2>4. \A u \in Threads : ~Generating(u, x)
    BY <1>0, <2>1 DEF OneEach
  <2> HIDE DEF x
  <2>5. \A u \in Threads, e \in 1..Len(entries) : Generating(u, e)' => entries'[e].state = "running"
    BY <1>0, <2>2, <2>3, <2>4 DEF OneEach
  <2>6. \A e \in 1..Len(entries) : entries'[e].state = "running" => \E u \in Threads : Generating(u, e)'
    BY <1>0, <2>2, <2>3 DEF OneEach
  <2>7. \A u, v \in Threads, e \in 1..Len(entries) : Generating(u, e)' /\ Generating(v, e)' => u = v
    BY <1>0, <2>3, <2>4 DEF OneEach
  <2>8. OneEach'
    BY <2>2, <2>5, <2>6, <2>7 DEF OneEach
  <2>9. Started' = Started \cup {x} /\ x \notin Started
    BY <2>1, <2>2 DEF Started
  <2>10. Cardinality(Started') = Cardinality(Started) + 1
    BY <1>0, <2>9, FS_AddElement
  <2> QED
    BY <1>0, <2>1, <2>8, <2>10
<1>3. ASSUME NEW t \in Threads, Generate(t) PROVE OneEach' /\ generated' = Cardinality(Started')
  <2> DEFINE x == reg[t].entry
  <2>1. /\ x \in 1..Len(entries) /\ pc[t] = "generate"
        /\ pc' = [pc EXCEPT ![t] = "got"] /\ reg' = reg /\ generated' = generated
        /\ entries' = [entries EXCEPT ![x].state = "done"]
    BY <1>0, <1>3 DEF Generate, Goto, RegOK, LocalsOK, HasEntry
  <2>2. /\ Len(entries') = Len(entries) /\ entries'[x].state = "done"
        /\ \A e \in 1..Len(entries) : e # x => entries'[e].state = entries[e].state
    BY <1>0, <2>1 DEF Entry
  <2>3. \A u \in Threads, e \in 1..Len(entries) : Generating(u, e)' <=> Generating(u, e) /\ u # t
    BY <1>0, <2>1 DEF Generating
  <2>4. Generating(t, x) /\ entries[x].state = "running"
    BY <1>0, <2>1 DEF Generating, OneEach
  <2>5. \A e \in 1..Len(entries) : Generating(t, e) => e = x
    BY DEF Generating
  <2> HIDE DEF x
  <2>6. \A u \in Threads, e \in 1..Len(entries) : Generating(u, e)' => e # x /\ entries'[e].state = "running"
    BY <1>0, <2>1, <2>2, <2>3, <2>4 DEF OneEach
  <2>7. \A e \in 1..Len(entries) : entries'[e].state = "running" => \E u \in Threads : Generating(u, e)'
    <3> SUFFICES ASSUME NEW e \in 1..Len(entries), entries'[e].state = "running"
                 PROVE  \E u \in Threads : Generating(u, e)'
      OBVIOUS
    <3>1. e # x /\ entries[e].state = "running"
      BY <2>2
    <3>2. PICK u \in Threads : Generating(u, e)
      BY <1>0, <3>1 DEF OneEach
    <3> QED
      BY <2>3, <2>5, <3>1, <3>2
  <2>8. \A u, v \in Threads, e \in 1..Len(entries) : Generating(u, e)' /\ Generating(v, e)' => u = v
    BY <1>0, <2>3 DEF OneEach
  <2>9. OneEach'
    BY <2>2, <2>6, <2>7, <2>8 DEF OneEach
  <2>10. Started' = Started
    BY <2>1, <2>2, <2>4 DEF Started
  <2> QED
    BY <1>0, <2>1, <2>9, <2>10
<1> QED
  BY <1>0, <1>1, <1>2, <1>3, StepNoGeneration

(* get_or_init generates an entry once, in one thread: the counter is the  *)
(* number of entries whose generation has begun, and every running one has *)
(* exactly one thread at it.                                               *)
THEOREM GeneratedOnceAlways == Spec => []GeneratedOnce
<1>1. Init => GInv
  <2> SUFFICES ASSUME Init PROVE OneEach /\ generated = Cardinality(Started)
    BY InitTInv DEF GInv
  <2>1. entries = <<>> /\ generated = 0 /\ Len(entries) = 0
    BY DEF Init, InitWith
  <2>2. Started = {}
    BY <2>1 DEF Started
  <2> QED
    BY <2>1, <2>2, FS_EmptySet DEF OneEach
<1>2. GInv => GeneratedOnce
  <2> SUFFICES ASSUME GInv PROVE GeneratedOnce
    OBVIOUS
  <2>1. DOMAIN entries = 1..Len(entries) /\ OneEach /\ generated = Cardinality(Started)
    BY LenProperties DEF GInv, TInv, TypeOK
  <2>2. ASSUME NEW e \in 1..Len(entries), entries[e].state = "running"
        PROVE  Cardinality({t \in Threads : pc[t] = "generate" /\ reg[t].entry = e}) = 1
    <3>1. PICK t \in Threads : Generating(t, e)
      BY <2>1, <2>2 DEF OneEach
    <3>2. {u \in Threads : pc[u] = "generate" /\ reg[u].entry = e} = {t}
      BY <2>1, <3>1 DEF OneEach, Generating
    <3> QED
      BY <3>2, FS_Singleton
  <2> QED
    BY <2>1, <2>2 DEF GeneratedOnce, Started
<1> QED
  BY <1>1, <1>2, StepGInv, PTL DEF Spec
=============================================================================
