------------------------------ MODULE MapCache -------------------------------
(***************************************************************************)
(* One entry of the on-disk map cache (crates/procgen/src/cache.rs, with   *)
(* save and load of crates/world/src/mapfile.rs): callers of any number of *)
(* processes look for it, generate the map if it is not there or damaged,  *)
(* and put it there through a temporary file.  A process may end at any    *)
(* moment and a write may fail.                                            *)
(*                                                                         *)
(* The generators are deterministic, so that every writer writes the same  *)
(* bytes: a file is the set of its blocks that have been written.          *)
(***************************************************************************)
EXTENDS Naturals, FiniteSets

CONSTANTS
  Callers,      \* threads that ask for the map
  Process,      \* caller -> its process
  Tiled,        \* the map is tiled: wild_tiled, otherwise load_or_generate
  Blocks        \* blocks of a map's file

None == "none"
Old == "old"    \* the inode of the entry found first

ASSUME MapCacheAssumption ==
  /\ {None, Old} \cap Callers = {}
  /\ DOMAIN Process = Callers
  /\ Tiled \in BOOLEAN
  /\ Blocks \in Nat \ {0}

VARIABLES
  entry,    \* the file in place: its inode, or None
  tmp,      \* temporary name -> its inode, or None
  data,     \* inode -> blocks written
  pc,       \* caller -> "look", "generate", "write" or how it ended
  file,     \* caller -> the inode it writes, or None
  written   \* caller -> blocks it has written

vars == <<entry, tmp, data, pc, file, written>>

Inodes == Callers \cup {Old}
Whole == 1 .. Blocks
Ended == {"loaded", "stored", "failed", "refused", "dead"}

(* Slip: one temporary name for the threads of a process.                  *)
TmpOfProcess(c) == <<Process[c], "">>

(* The name of a caller's temporary file: save takes the process's id and  *)
(* a number that is never used again, wild_tiled the id alone.             *)
Tmp(c) == <<Process[c], IF Tiled THEN "" ELSE c>>
Names == {Tmp(c) : c \in Callers}

(* Nothing is in place, or whatever was left there before, damaged or not. *)
Init ==
  /\ entry \in {None, Old}
  /\ data \in {[f \in Inodes |-> IF f = Old THEN old ELSE {}] : old \in SUBSET Whole}
  /\ tmp = [n \in Names |-> None]
  /\ pc = [c \in Callers |-> "look"]
  /\ file = [c \in Callers |-> None]
  /\ written = [c \in Callers |-> 0]

Goto(c, to) == pc' = [pc EXCEPT ![c] = to]
Intact(f) == f # None /\ data[f] = Whole

-----------------------------------------------------------------------------
(* The entry is read, and its hash checked.                                *)
Look(c) ==
  /\ pc[c] = "look"
  /\ Goto(c, IF Intact(entry) THEN "loaded" ELSE "generate")
  /\ UNCHANGED <<entry, tmp, data, file, written>>

(* The map is generated; File::create makes the temporary file, or empties *)
(* the one there is.                                                       *)
Create(c) ==
  /\ pc[c] = "generate"
  /\ Goto(c, "write")
  /\ LET f == IF tmp[Tmp(c)] = None THEN c ELSE tmp[Tmp(c)] IN
       /\ tmp' = [tmp EXCEPT ![Tmp(c)] = f]
       /\ data' = [data EXCEPT ![f] = {}]
       /\ file' = [file EXCEPT ![c] = f]
  /\ UNCHANGED <<entry, written>>

(* The next block; the file may have been renamed or emptied by others.    *)
Write(c) ==
  /\ pc[c] = "write"
  /\ written[c] < Blocks
  /\ written' = [written EXCEPT ![c] = @ + 1]
  /\ data' = [data EXCEPT ![file[c]] = @ \cup {written[c] + 1}]
  /\ UNCHANGED <<entry, tmp, pc, file>>

(* The disk is full: save removes what has the temporary name.             *)
WriteFails(c) ==
  /\ pc[c] = "write"
  /\ written[c] < Blocks
  /\ Goto(c, "failed")
  /\ tmp' = IF Tiled THEN tmp ELSE [tmp EXCEPT ![Tmp(c)] = None]
  /\ UNCHANGED <<entry, data, file, written>>

(* Slip: renamed before all of it is written.                              *)
RenameUnflushed(c) ==
  /\ pc[c] = "write"
  /\ written[c] + 1 >= Blocks
  /\ IF tmp[Tmp(c)] = None
     THEN Goto(c, "refused") /\ UNCHANGED <<entry, tmp>>
     ELSE /\ Goto(c, "stored")
          /\ entry' = tmp[Tmp(c)]
          /\ tmp' = [tmp EXCEPT ![Tmp(c)] = None]
  /\ UNCHANGED <<data, file, written>>

(* All is written and whatever has the temporary name put in place; if     *)
(* nothing has, the caller gets the error.                                 *)
Rename(c) ==
  /\ pc[c] = "write"
  /\ written[c] = Blocks
  /\ IF tmp[Tmp(c)] = None
     THEN Goto(c, "refused") /\ UNCHANGED <<entry, tmp>>
     ELSE /\ Goto(c, "stored")
          /\ entry' = tmp[Tmp(c)]
          /\ tmp' = [tmp EXCEPT ![Tmp(c)] = None]
  /\ UNCHANGED <<data, file, written>>

(* A process ends, and its callers wherever they are.                      *)
Dies(p) ==
  /\ \E c \in Callers : Process[c] = p /\ pc[c] \notin Ended
  /\ pc' = [c \in Callers |-> IF Process[c] = p /\ pc[c] \notin Ended THEN "dead" ELSE pc[c]]
  /\ UNCHANGED <<entry, tmp, data, file, written>>

AllEnded == (\A c \in Callers : pc[c] \in Ended) /\ UNCHANGED vars

Next ==
  \/ \E c \in Callers : Look(c) \/ Create(c) \/ Write(c) \/ WriteFails(c) \/ Rename(c)
  \/ \E p \in {Process[c] : c \in Callers} : Dies(p)
  \/ AllEnded

Spec == Init /\ [][Next]_vars
-----------------------------------------------------------------------------
(* "Files are written atomically, so several processes can share a cache   *)
(* directory": what a caller puts in place is whole, at any moment another *)
(* may read it, whoever dies or fails.                                     *)
Atomic == entry \notin {None, Old} => Intact(entry)

(* No caller fails because of another (rename finds its file); only a      *)
(* failed write is an error.                                               *)
NoneRefused == \A c \in Callers : pc[c] # "refused"

(* A temporary file is somebody's who still writes, or was killed: a save  *)
(* that fails leaves nothing behind.                                       *)
NoLitter == \A n \in Names : tmp[n] # None =>
  \E c \in Callers : Tmp(c) = n /\ file[c] = tmp[n] /\ pc[c] \in {"write", "dead"}
=============================================================================
