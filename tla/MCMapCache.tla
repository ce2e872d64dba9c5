----------------------------- MODULE MCMapCache ------------------------------
(* Instances of MapCache for TLC: two callers are threads of one process.  *)
EXTENDS MapCache

MCProcess == [c \in Callers |-> IF c \in {"a", "b"} THEN "p" ELSE c]
=============================================================================
