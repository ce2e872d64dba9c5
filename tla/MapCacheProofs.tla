--------------------------- MODULE MapCacheProofs ----------------------------
(***************************************************************************)
(* The map cache's files are written atomically, for any number of callers *)
(* and processes and files of any length, as long as no two callers use    *)
(* one temporary name: which save ensures with its number, and wild_tiled  *)
(* only for processes that ask with one thread.                            *)
(***************************************************************************)
EXTENDS MapCache, TLAPS

(* No two callers write to one temporary name.                             *)
Distinct == ~Tiled \/ \A c, d \in Callers : Process[c] = Process[d] => c = d

(* Distinct callers have distinct temporary names.                         *)
LEMMA TmpDistinct ==
  ASSUME Distinct
  PROVE  \A c, d \in Callers : Tmp(c) = Tmp(d) => c = d
BY DEF Distinct, Tmp

(* Every part of the state is of its kind.                                 *)
Typed ==
  /\ entry \in Inodes \cup {None}
  /\ tmp \in [Names -> Inodes \cup {None}]
  /\ data \in [Inodes -> SUBSET Whole]
  /\ pc \in [Callers -> {"look", "generate", "write"} \cup Ended]
  /\ file \in [Callers -> Inodes \cup {None}]
  /\ written \in [Callers -> 0 .. Blocks]

(* A caller's temporary name is its own: it holds nothing, or the file the *)
(* caller made, and while it writes that file holds what it has written.   *)
OwnFile == \A c \in Callers :
  /\ tmp[Tmp(c)] \in {None, c}
  /\ pc[c] \in {"look", "generate"} => tmp[Tmp(c)] = None /\ written[c] = 0
  /\ pc[c] = "write" => /\ tmp[Tmp(c)] = c
                        /\ file[c] = c
                        /\ data[c] = 1 .. written[c]

(* What is in place, other than what was there first, was stored whole.    *)
StoredWhole == \A c \in Callers : entry = c => pc[c] = "stored" /\ data[c] = Whole

Inv == Typed /\ OwnFile /\ StoredWhole /\ NoneRefused

(* It holds before anyone looks, whatever was left in place.               *)
LEMMA InitInv == Init => Inv
<1> SUFFICES ASSUME Init PROVE Inv
  OBVIOUS
<1>1. Typed
  <2>1. PICK old \in SUBSET Whole : data = [f \in Inodes |-> IF f = Old THEN old ELSE {}]
    BY DEF Init
  <2>2. data \in [Inodes -> SUBSET Whole]
    BY <2>1
  <2> QED
    BY <2>2, MapCacheAssumption DEF Init, Typed, Inodes, Ended
<1>2. \A c \in Callers : Tmp(c) \in Names
  BY DEF Names
<1>3. OwnFile
  BY <1>2 DEF Init, OwnFile
<1>4. StoredWhole
  BY MapCacheAssumption DEF Init, StoredWhole
<1>5. NoneRefused
  BY DEF Init, NoneRefused
<1> QED
  BY <1>1, <1>3, <1>4, <1>5 DEF Inv

(* Every step of a caller, a killed process included, keeps the invariant. *)
LEMMA StepInv ==
  ASSUME Distinct
  PROVE  Inv /\ [Next]_vars => Inv'
<1> SUFFICES ASSUME Inv, [Next]_vars PROVE Inv'
  OBVIOUS
<1> USE MapCacheAssumption, TmpDistinct
<1>n. \A c \in Callers : Tmp(c) \in Names /\ c \in Inodes /\ c # None /\ c # Old
  BY DEF Names, Inodes, None, Old
<1>1. ASSUME NEW c \in Callers, Look(c) PROVE Inv'
  <2>1. Typed'
    BY <1>1 DEF Look, Goto, Inv, Typed, Ended
  <2>2. OwnFile' /\ StoredWhole' /\ NoneRefused'
    BY <1>1, <1>n DEF Look, Goto, Inv, Typed, OwnFile, StoredWhole, NoneRefused
  <2> QED
    BY <2>1, <2>2 DEF Inv
<1>2. ASSUME NEW c \in Callers, Create(c) PROVE Inv'
  <2>1. /\ tmp[Tmp(c)] = None
        /\ tmp' = [tmp EXCEPT ![Tmp(c)] = c]
        /\ data' = [data EXCEPT ![c] = {}]
        /\ file' = [file EXCEPT ![c] = c]
        /\ pc[c] = "generate" /\ pc' = [pc EXCEPT ![c] = "write"]
        /\ written[c] = 0
        /\ UNCHANGED <<entry, written>>
    BY <1>2 DEF Create, Goto, Inv, OwnFile
  <2>2. Typed'
    BY <2>1, <1>n DEF Inv, Typed
  <2>3. OwnFile'
    BY <2>1, <1>n DEF Inv, Typed, OwnFile
  <2>4. StoredWhole' /\ NoneRefused'
    BY <2>1, <1>n DEF Inv, Typed, StoredWhole, NoneRefused
  <2> QED
    BY <2>2, <2>3, <2>4 DEF Inv
<1>3. ASSUME NEW c \in Callers, Write(c) PROVE Inv'
  <2>1. /\ pc[c] = "write" /\ written[c] < Blocks /\ data[c] = 1 .. written[c]
        /\ written' = [written EXCEPT ![c] = written[c] + 1]
        /\ data' = [data EXCEPT ![c] = data[c] \cup {written[c] + 1}]
        /\ UNCHANGED <<entry, tmp, pc, file>>
    BY <1>3 DEF Write, Inv, OwnFile
  <2>2. /\ written[c] \in 0 .. Blocks /\ Blocks \in Nat
        /\ (1 .. written[c]) \cup {written[c] + 1} = 1 .. (written[c] + 1)
        /\ written[c] + 1 \in 0 .. Blocks
    BY <2>1 DEF Inv, Typed
  <2>3. Typed'
    BY <2>1, <2>2, <1>n DEF Inv, Typed, Whole
  <2>4. OwnFile'
    BY <2>1, <2>2, <1>n DEF Inv, Typed, OwnFile
  <2>5. StoredWhole' /\ NoneRefused'
    BY <2>1, <1>n DEF Inv, Typed, StoredWhole, NoneRefused
  <2> QED
    BY <2>3, <2>4, <2>5 DEF Inv
<1>4. ASSUME NEW c \in Callers, WriteFails(c) PROVE Inv'
  <2>1. Typed'
    BY <1>4, <1>n DEF WriteFails, Goto, Inv, Typed, Ended
  <2>2. OwnFile' /\ StoredWhole' /\ NoneRefused'
    BY <1>4, <1>n DEF WriteFails, Goto, Inv, Typed, OwnFile, StoredWhole, NoneRefused
  <2> QED
    BY <2>1, <2>2 DEF Inv
<1>5. ASSUME NEW c \in Callers, Rename(c) PROVE Inv'
  <2>1. /\ pc[c] = "write" /\ pc' = [pc EXCEPT ![c] = "stored"]
        /\ entry' = c
        /\ tmp' = [tmp EXCEPT ![Tmp(c)] = None]
        /\ data[c] = Whole
        /\ UNCHANGED <<data, file, written>>
    BY <1>5, <1>n DEF Rename, Goto, Inv, OwnFile, Whole
  <2>2. Typed'
    BY <2>1, <1>n DEF Inv, Typed, Ended
  <2>3. OwnFile'
    BY <2>1, <1>n DEF Inv, Typed, OwnFile
  <2>4. StoredWhole' /\ NoneRefused'
    BY <2>1, <1>n DEF Inv, Typed, StoredWhole, NoneRefused
  <2> QED
    BY <2>2, <2>3, <2>4 DEF Inv
<1>6. ASSUME NEW p, Dies(p) PROVE Inv'
  <2>1. Typed'
    BY <1>6 DEF Dies, Inv, Typed, Ended
  <2>2. OwnFile' /\ StoredWhole' /\ NoneRefused'
    BY <1>6, <1>n DEF Dies, Inv, Typed, Ended, OwnFile, StoredWhole, NoneRefused
  <2> QED
    BY <2>1, <2>2 DEF Inv
<1>7. ASSUME UNCHANGED vars PROVE Inv'
  BY <1>7 DEF vars, Inv, Typed, OwnFile, StoredWhole, NoneRefused
<1> QED
  BY <1>1, <1>2, <1>3, <1>4, <1>5, <1>6, <1>7 DEF Next, AllEnded

(* The inductive invariant holds in every behaviour.                       *)
LEMMA Invariance ==
  ASSUME Distinct
  PROVE  Spec => []Inv
BY InitInv, StepInv, PTL DEF Spec

(* "Files are written atomically, so several processes can share a cache   *)
(* directory" (cache.rs), whatever processes are killed and writes fail:   *)
(* an entry somebody put in place is whole whenever another reads it.      *)
THEOREM SavesAreAtomic ==
  ASSUME Distinct
  PROVE  Spec => []Atomic
<1>1. Inv => Atomic
  BY DEF Inv, Typed, StoredWhole, Atomic, Intact, Inodes, None
<1> QED
  BY <1>1, Invariance, PTL

(* No caller's rename fails because another took its temporary file (the   *)
(* unique names of mapfile::save).                                         *)
THEOREM NobodyRefused ==
  ASSUME Distinct
  PROVE  Spec => []NoneRefused
<1>1. Inv => NoneRefused
  BY DEF Inv
<1> QED
  BY <1>1, Invariance, PTL

(* A temporary file that is still there belongs to a caller who writes it  *)
(* or was killed.                                                          *)
Litter == \A c \in Callers :
  tmp[Tmp(c)] = c => file[c] = c /\ pc[c] \in {"write", "dead"}

(* save leaves no temporary file behind: after an error it removes its own *)
(* and never another's.                                                    *)
THEOREM SaveCleansUp ==
  ASSUME ~Tiled
  PROVE  Spec => []NoLitter
<1> Distinct
  BY DEF Distinct
<1> USE MapCacheAssumption, TmpDistinct
<1>n. \A c \in Callers : Tmp(c) \in Names /\ c # None
  BY DEF Names, None
<1>1. Init => Litter
  BY <1>n DEF Init, Litter
<1>2. Inv /\ Litter /\ [Next]_vars => Litter'
  <2> SUFFICES ASSUME Inv, Litter, [Next]_vars PROVE Litter'
    OBVIOUS
  <2>1. ASSUME NEW c \in Callers, Look(c) \/ Write(c) \/ WriteFails(c) PROVE Litter'
    BY <2>1, <1>n DEF Look, Write, WriteFails, Goto, Inv, Typed, OwnFile, Litter
  <2>2. ASSUME NEW c \in Callers, Create(c) PROVE Litter'
    BY <2>2, <1>n DEF Create, Goto, Inv, Typed, OwnFile, Litter
  <2>3. ASSUME NEW c \in Callers, Rename(c) PROVE Litter'
    BY <2>3, <1>n DEF Rename, Goto, Inv, Typed, OwnFile, Litter
  <2>4. ASSUME NEW p, Dies(p) PROVE Litter'
    BY <2>4, <1>n DEF Dies, Inv, Typed, OwnFile, Litter, Ended
  <2>5. ASSUME UNCHANGED vars PROVE Litter'
    BY <2>5 DEF vars, Litter
  <2> QED
    BY <2>1, <2>2, <2>3, <2>4, <2>5 DEF Next, AllEnded
<1>3. Inv /\ Litter => NoLitter
  BY DEF Inv, Typed, OwnFile, Litter, NoLitter, Names
<1> QED
  BY <1>1, <1>2, <1>3, Invariance, PTL DEF Spec
=============================================================================
