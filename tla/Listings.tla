------------------------------- MODULE Listings --------------------------------
(* Sets of numbers in their order, by which records are named.             *)
EXTENDS Naturals, Sequences

(* The members of S among 1 .. n.  (The function over {S} has TLC evaluate *)
(* S once.)                                                                *)
InOrder(S, n) ==
  [T \in {S} |->
     LET upTo[i \in 0 .. n] ==
           IF i = 0 THEN <<>> ELSE IF i \in T THEN Append(upTo[i - 1], i) ELSE upTo[i - 1]
     IN  upTo[n]][S]
=============================================================================
