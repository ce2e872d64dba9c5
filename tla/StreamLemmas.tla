----------------------------- MODULE StreamLemmas ------------------------------
(***************************************************************************)
(* What the proofs about a live stream and its viewer rest on.             *)
(*                                                                         *)
(* What the recursive operators on sequences do, for every length: InOrder *)
(* and the community modules' FlattenSeq.  The proofs are by induction on  *)
(* a set of numbers, which the well-foundedness of < gives.                *)
(*                                                                         *)
(* What the recorder leaves in its log: LogOK, which each of its calls     *)
(* keeps, and what a reader may conclude from it of what it is promised.   *)
(***************************************************************************)
EXTENDS Recorder, Listings, SequencesExt, TLAPS, WellFoundedInduction

Less == {ss \in Nat \X Nat : ss[1] < ss[2]}

(* A set that holds 0 and with each number the next holds all.             *)
LEMMA Induction ==
  ASSUME NEW T, 0 \in T, \A n \in Nat : n \in T => n + 1 \in T
  PROVE  \A n \in Nat : n \in T
<1> DEFINE U == Nat \ T
<1>1. SUFFICES ASSUME U # {} PROVE FALSE
  OBVIOUS
<1>2. IsWellFoundedOn(Less, Nat)
  BY NatLessThanWellFounded DEF OpToRel, Less
<1>3. PICK x \in U : \A y \in U : ~(<<y, x>> \in Less)
  BY <1>1, <1>2, WFMin
<1>4. x \in Nat /\ x # 0 /\ x - 1 \in Nat /\ (x - 1) + 1 = x /\ x - 1 < x
  BY <1>3
<1>5. <<x - 1, x>> \in Less
  BY <1>4 DEF Less
<1> QED BY <1>3, <1>4, <1>5

LEMMA HasLast ==
  ASSUME NEW n \in Nat, NEW S \in SUBSET (1 .. n), S # {} PROVE \E i \in S : \A j \in S : j <= i
<1> DEFINE U == {m \in Nat : \A T \in SUBSET (1 .. m) : T # {} => \E i \in T : \A j \in T : j <= i}
<1>1. 0 \in U
  <2>1. 1 .. 0 = {}
    OBVIOUS
  <2> QED BY <2>1
<1>2. ASSUME NEW m \in Nat, m \in U PROVE m + 1 \in U
  <2> SUFFICES ASSUME NEW T \in SUBSET (1 .. (m + 1)), T # {} PROVE \E i \in T : \A j \in T : j <= i
    OBVIOUS
  <2>1. CASE m + 1 \in T
    BY <2>1
  <2>2. CASE m + 1 \notin T
    <3>1. T \in SUBSET (1 .. m)
      BY <2>2
    <3> QED BY <1>2, <3>1
  <2> QED BY <2>1, <2>2
<1> HIDE DEF U
<1>3. n \in U
  BY <1>1, <1>2, Induction
<1> QED BY <1>3 DEF U

-----------------------------------------------------------------------------
(* InOrder                                                                 *)

Lists(f, S, n) ==
  f = [i \in 0 .. n |-> IF i = 0 THEN <<>> ELSE IF i \in S THEN Append(f[i - 1], i) ELSE f[i - 1]]

LEMMA ListsUnique ==
  ASSUME NEW S, NEW m \in Nat, NEW n \in Nat, NEW f, NEW g, Lists(f, S, m), Lists(g, S, n)
  PROVE  \A i \in Nat : i <= m /\ i <= n => f[i] = g[i]
<1> DEFINE T == {i \in Nat : i <= m /\ i <= n => f[i] = g[i]}
<1>1. 0 \in T
  BY DEF Lists
<1>2. ASSUME NEW i \in Nat, i \in T PROVE i + 1 \in T
  <2>1. SUFFICES ASSUME i + 1 <= m, i + 1 <= n PROVE f[i + 1] = g[i + 1]
    OBVIOUS
  <2>2. f[i] = g[i] /\ i + 1 \in 0 .. m /\ i + 1 \in 0 .. n /\ i + 1 # 0 /\ (i + 1) - 1 = i
    BY <1>2, <2>1
  <2>3. f[i + 1] = IF i + 1 \in S THEN Append(f[i], i + 1) ELSE f[i]
    BY <2>2 DEF Lists
  <2>4. g[i + 1] = IF i + 1 \in S THEN Append(g[i], i + 1) ELSE g[i]
    BY <2>2 DEF Lists
  <2> QED BY <2>2, <2>3, <2>4
<1> HIDE DEF T
<1>3. \A i \in Nat : i \in T
  BY <1>1, <1>2, Induction
<1> QED BY <1>3 DEF T

LEMMA ListsExist == ASSUME NEW S, NEW n \in Nat PROVE \E f : Lists(f, S, n)
<1> DEFINE T == {i \in Nat : \E f : Lists(f, S, i)}
<1>1. 0 \in T
  <2>1. Lists([i \in 0 .. 0 |-> <<>>], S, 0)
    BY DEF Lists
  <2> QED BY <2>1
<1>2. ASSUME NEW m \in Nat, m \in T PROVE m + 1 \in T
  <2>1. PICK g : Lists(g, S, m)
    BY <1>2
  <2> DEFINE last == IF m + 1 \in S THEN Append(g[m], m + 1) ELSE g[m]
             h == [i \in 0 .. (m + 1) |-> IF i <= m THEN g[i] ELSE last]
  <2>2. ASSUME NEW i \in 0 .. (m + 1)
        PROVE  h[i] = IF i = 0 THEN <<>> ELSE IF i \in S THEN Append(h[i - 1], i) ELSE h[i - 1]
    <3>1. CASE i <= m
      <4>1. i \in 0 .. m /\ (i # 0 => i - 1 \in 0 .. m /\ h[i - 1] = g[i - 1]) /\ h[i] = g[i]
        BY <3>1
      <4> QED BY <4>1, <2>1 DEF Lists
    <3>2. CASE i = m + 1
      BY <3>2
    <3> QED BY <3>1, <3>2
  <2>3. Lists(h, S, m + 1)
    BY <2>2 DEF Lists
  <2> QED BY <2>3
<1> HIDE DEF T
<1>3. n \in T
  BY <1>1, <1>2, Induction
<1> QED BY <1>3 DEF T

LEMMA InOrderIs == ASSUME NEW S, NEW n \in Nat PROVE \E f : Lists(f, S, n) /\ InOrder(S, n) = f[n]
<1> DEFINE g == CHOOSE h : Lists(h, S, n)
<1>1. Lists(g, S, n)
  BY ListsExist
<1>2. InOrder(S, n) = g[n]
  BY DEF InOrder, Lists
<1> HIDE DEF g
<1> QED BY <1>1, <1>2

LEMMA InOrderNone == ASSUME NEW S PROVE InOrder(S, 0) = <<>>
  BY InOrderIs DEF Lists

LEMMA InOrderNext ==
  ASSUME NEW S, NEW n \in Nat
  PROVE  InOrder(S, n + 1) = IF n + 1 \in S THEN Append(InOrder(S, n), n + 1) ELSE InOrder(S, n)
<1>1. n + 1 \in Nat /\ n + 1 \in 0 .. (n + 1) /\ n + 1 # 0 /\ (n + 1) - 1 = n /\ n <= n + 1
  OBVIOUS
<1>2. PICK f : Lists(f, S, n) /\ InOrder(S, n) = f[n]
  BY InOrderIs
<1>3. PICK g : Lists(g, S, n + 1) /\ InOrder(S, n + 1) = g[n + 1]
  BY <1>1, InOrderIs
<1>4. f[n] = g[n]
  BY <1>1, <1>2, <1>3, ListsUnique
<1>5. g[n + 1] = IF n + 1 \in S THEN Append(g[n], n + 1) ELSE g[n]
  BY <1>1, <1>3 DEF Lists
<1> QED BY <1>2, <1>3, <1>4, <1>5

LEMMA InOrderSame ==
  ASSUME NEW S, NEW T, NEW n \in Nat, \A i \in 1 .. n : i \in S <=> i \in T
  PROVE  InOrder(S, n) = InOrder(T, n)
<1> DEFINE U == {i \in Nat : i <= n => InOrder(S, i) = InOrder(T, i)}
<1>1. 0 \in U
  BY InOrderNone
<1>2. ASSUME NEW i \in Nat, i \in U PROVE i + 1 \in U
  <2>1. SUFFICES ASSUME i + 1 <= n PROVE InOrder(S, i + 1) = InOrder(T, i + 1)
    OBVIOUS
  <2>2. InOrder(S, i) = InOrder(T, i) /\ i + 1 \in 1 .. n
    BY <1>2, <2>1
  <2> QED BY <2>2, InOrderNext
<1> HIDE DEF U
<1>3. n \in U
  BY <1>1, <1>2, Induction
<1> QED BY <1>3 DEF U

LEMMA InOrderTyped == ASSUME NEW S, NEW n \in Nat PROVE InOrder(S, n) \in Seq(S \cap Nat)
<1> DEFINE Z == S \cap Nat
           U == {i \in Nat : InOrder(S, i) \in Seq(Z)}
<1>1. 0 \in U
  <2>1. <<>> \in Seq(Z)
    OBVIOUS
  <2> QED BY <2>1, InOrderNone
<1>2. ASSUME NEW i \in Nat, i \in U PROVE i + 1 \in U
  <2>1. InOrder(S, i) \in Seq(Z) /\ (i + 1 \in S => i + 1 \in Z) /\ i + 1 \in Nat
    BY <1>2
  <2>2. InOrder(S, i + 1) = IF i + 1 \in S THEN Append(InOrder(S, i), i + 1) ELSE InOrder(S, i)
    BY InOrderNext
  <2>3. \A s \in Seq(Z), x \in Z : Append(s, x) \in Seq(Z)
    <3> HIDE DEF Z
    <3> QED OBVIOUS
  <2>4. InOrder(S, i + 1) \in Seq(Z)
    BY <2>1, <2>2, <2>3, Zenon
  <2> QED BY <2>1, <2>4
<1> HIDE DEF U
<1>3. n \in U
  BY <1>1, <1>2, Induction
<1> QED BY <1>3 DEF U

LEMMA InOrderEmpty ==
  ASSUME NEW S, NEW n \in Nat, \A i \in 1 .. n : i \notin S PROVE InOrder(S, n) = <<>>
<1> DEFINE U == {i \in Nat : i <= n => InOrder(S, i) = <<>>}
<1>1. 0 \in U
  BY InOrderNone
<1>2. ASSUME NEW i \in Nat, i \in U PROVE i + 1 \in U
  <2>1. SUFFICES ASSUME i + 1 <= n PROVE InOrder(S, i + 1) = <<>>
    OBVIOUS
  <2>2. InOrder(S, i) = <<>> /\ i + 1 \in 1 .. n
    BY <1>2, <2>1
  <2> QED BY <2>2, InOrderNext
<1> HIDE DEF U
<1>3. n \in U
  BY <1>1, <1>2, Induction
<1> QED BY <1>3 DEF U

-----------------------------------------------------------------------------
(* FlattenSeq                                                              *)

Joins(f, q, n) == f = [i \in 1 .. n |-> IF i = 1 THEN q[i] ELSE f[i - 1] \o q[i]]

LEMMA JoinsUnique ==
  ASSUME NEW q, NEW n \in Nat, NEW f, NEW g, Joins(f, q, n), Joins(g, q, n + 1), n # 0
  PROVE  f[n] = g[n]
<1> DEFINE T == {i \in Nat : i \in 1 .. n => f[i] = g[i]}
<1>1. 0 \in T
  OBVIOUS
<1>2. ASSUME NEW i \in Nat, i \in T PROVE i + 1 \in T
  <2>1. SUFFICES ASSUME i + 1 \in 1 .. n PROVE f[i + 1] = g[i + 1]
    OBVIOUS
  <2>2. (i + 1) - 1 = i /\ (i # 0 => f[i] = g[i]) /\ i + 1 \in 1 .. (n + 1)
    BY <1>2, <2>1
  <2>3. f[i + 1] = IF i + 1 = 1 THEN q[i + 1] ELSE f[(i + 1) - 1] \o q[i + 1]
    BY <2>1, Zenon DEF Joins
  <2>4. g[i + 1] = IF i + 1 = 1 THEN q[i + 1] ELSE g[(i + 1) - 1] \o q[i + 1]
    BY <2>2, Zenon DEF Joins
  <2>5. CASE i = 0
    BY <2>3, <2>4, <2>5
  <2>6. CASE i # 0
    BY <2>2, <2>3, <2>4, <2>6, Zenon
  <2> QED BY <2>5, <2>6
<1> HIDE DEF T
<1>3. n \in T
  BY <1>1, <1>2, Induction
<1> QED BY <1>3 DEF T

LEMMA JoinsExist == ASSUME NEW q, NEW n \in Nat PROVE \E f : Joins(f, q, n)
<1> DEFINE T == {i \in Nat : \E f : Joins(f, q, i)}
<1>1. 0 \in T
  <2>1. Joins([i \in 1 .. 0 |-> <<>>], q, 0)
    BY DEF Joins
  <2> QED BY <2>1
<1>2. ASSUME NEW m \in Nat, m \in T PROVE m + 1 \in T
  <2>1. PICK g : Joins(g, q, m)
    BY <1>2
  <2> DEFINE last == IF m = 0 THEN q[1] ELSE g[m] \o q[m + 1]
             h == [i \in 1 .. (m + 1) |-> IF i <= m THEN g[i] ELSE last]
  <2>2. ASSUME NEW i \in 1 .. (m + 1) PROVE h[i] = IF i = 1 THEN q[i] ELSE h[i - 1] \o q[i]
    <3>1. CASE i <= m
      <4>1. i \in 1 .. m /\ (i # 1 => i - 1 \in 1 .. m /\ h[i - 1] = g[i - 1]) /\ h[i] = g[i]
        BY <3>1
      <4> QED BY <4>1, <2>1 DEF Joins
    <3>2. CASE i = m + 1
      BY <3>2
    <3> QED BY <3>1, <3>2
  <2>3. Joins(h, q, m + 1)
    BY <2>2 DEF Joins
  <2> QED BY <2>3
<1> HIDE DEF T
<1>3. n \in T
  BY <1>1, <1>2, Induction
<1> QED BY <1>3 DEF T

LEMMA FlattenIs ==
  ASSUME NEW q, Len(q) \in Nat \ {0} PROVE \E f : Joins(f, q, Len(q)) /\ FlattenSeq(q) = f[Len(q)]
<1> DEFINE g == CHOOSE h : Joins(h, q, Len(q))
<1>1. Joins(g, q, Len(q))
  BY JoinsExist
<1>2. FlattenSeq(q) = g[Len(q)]
  BY DEF FlattenSeq, Joins
<1> HIDE DEF g
<1> QED BY <1>1, <1>2

(* A sequence of sequences is joined from the front.                       *)
LEMMA FlattenAppend ==
  ASSUME NEW q \in Seq(Seq(Nat)), NEW b \in Seq(Nat)
  PROVE  FlattenSeq(Append(q, b)) = IF q = <<>> THEN b ELSE FlattenSeq(q) \o b
<1> DEFINE r == Append(q, b)
           n == Len(q)
<1>1. /\ n \in Nat /\ n + 1 \in Nat \ {0} /\ n <= n + 1 /\ Len(r) = n + 1 /\ r[n + 1] = b
      /\ \A i \in 1 .. n : q[i] = r[i]
      /\ (n = 0) = (q = <<>>)
  OBVIOUS
<1>2. PICK f : Joins(f, r, n + 1) /\ FlattenSeq(r) = f[n + 1]
  BY <1>1, FlattenIs
<1> HIDE DEF r, n
<1>3. f[n + 1] = IF n = 0 THEN b ELSE f[n] \o b
  <2>1. n + 1 \in 1 .. (n + 1) /\ (n + 1) - 1 = n /\ (n + 1 = 1) = (n = 0)
    BY <1>1
  <2> QED BY <1>1, <1>2, <2>1 DEF Joins
<1>4. n # 0 => FlattenSeq(q) = f[n]
  <2> SUFFICES ASSUME n # 0 PROVE FlattenSeq(q) = f[n]
    OBVIOUS
  <2>1. PICK g : Joins(g, q, n) /\ FlattenSeq(q) = g[n]
    BY <1>1, FlattenIs DEF n
  <2>2. Joins(g, r, n)
    <3>1. [i \in 1 .. n |-> IF i = 1 THEN q[i] ELSE g[i - 1] \o q[i]]
            = [i \in 1 .. n |-> IF i = 1 THEN r[i] ELSE g[i - 1] \o r[i]]
      BY <1>1, Zenon
    <3> QED BY <2>1, <3>1, Zenon DEF Joins
  <2>3. g[n] = f[n]
    BY <1>1, <1>2, <2>2, JoinsUnique
  <2> QED BY <2>1, <2>3
<1> QED BY <1>1, <1>2, <1>3, <1>4 DEF r
LEMMA FlattenNone == FlattenSeq(<<>>) = <<>>
  BY DEF FlattenSeq

LEMMA FlattenOne == ASSUME NEW b \in Seq(Nat) PROVE FlattenSeq(<<b>>) = b
<1>1. <<>> \in Seq(Seq(Nat)) /\ Append(<<>>, b) = <<b>>
  OBVIOUS
<1> QED BY <1>1, FlattenAppend

LEMMA SeqIsAppend ==
  ASSUME NEW q \in Seq(Seq(Nat)), NEW n \in Nat, Len(q) = n + 1
  PROVE  \E p \in Seq(Seq(Nat)), b \in Seq(Nat) : Len(p) = n /\ q = Append(p, b)
<1> DEFINE V == Seq(Nat)
<1>1. SubSeq(q, 1, n) \in Seq(V) /\ Len(SubSeq(q, 1, n)) = n /\ q[n + 1] \in V
        /\ q = Append(SubSeq(q, 1, n), q[n + 1])
  <2> HIDE DEF V
  <2> SUFFICES ASSUME q \in Seq(V)
               PROVE  SubSeq(q, 1, n) \in Seq(V) /\ Len(SubSeq(q, 1, n)) = n /\ q[n + 1] \in V
                        /\ q = Append(SubSeq(q, 1, n), q[n + 1])
    BY DEF V
  <2> QED OBVIOUS
<1> QED BY <1>1

LEMMA FlattenTyped == ASSUME NEW s \in Seq(Seq(Nat)) PROVE FlattenSeq(s) \in Seq(Nat)
<1> DEFINE T == {n \in Nat : \A q \in Seq(Seq(Nat)) : Len(q) = n => FlattenSeq(q) \in Seq(Nat)}
<1>1. 0 \in T
  <2>1. \A q \in Seq(Seq(Nat)) : Len(q) = 0 => q = <<>>
    OBVIOUS
  <2> QED BY <2>1, FlattenNone
<1>2. ASSUME NEW n \in Nat, n \in T PROVE n + 1 \in T
  <2> SUFFICES ASSUME NEW q \in Seq(Seq(Nat)), Len(q) = n + 1 PROVE FlattenSeq(q) \in Seq(Nat)
    OBVIOUS
  <2>1. PICK p \in Seq(Seq(Nat)), b \in Seq(Nat) : Len(p) = n /\ q = Append(p, b)
    BY SeqIsAppend, Zenon
  <2>2. FlattenSeq(p) \in Seq(Nat)
    BY <1>2, <2>1
  <2>3. FlattenSeq(p) \o b \in Seq(Nat)
    BY <2>2
  <2> QED BY <2>1, <2>3, FlattenAppend
<1> HIDE DEF T
<1>3. Len(s) \in Nat
  OBVIOUS
<1>4. Len(s) \in T
  BY <1>1, <1>2, <1>3, Induction
<1> QED BY <1>3, <1>4 DEF T

LEMMA CatAssociative == \A a, b, c \in Seq(Nat) : (a \o b) \o c = a \o (b \o c)
  OBVIOUS

(* ... and from the back.                                                  *)
LEMMA FlattenHead ==
  ASSUME NEW s \in Seq(Seq(Nat)), s # <<>>
  PROVE  FlattenSeq(s) = Head(s) \o FlattenSeq(Tail(s))
<1> DEFINE Splits(q) == FlattenSeq(q) = Head(q) \o FlattenSeq(Tail(q))
           T == {n \in Nat : \A q \in Seq(Seq(Nat)) : Len(q) = n + 1 => Splits(q)}
<1>1. 0 \in T
  <2> SUFFICES ASSUME NEW q \in Seq(Seq(Nat)), Len(q) = 0 + 1 PROVE Splits(q)
    OBVIOUS
  <2>1. PICK p \in Seq(Seq(Nat)), b \in Seq(Nat) : Len(p) = 0 /\ q = Append(p, b)
    BY SeqIsAppend, Zenon
  <2>2. q = <<b>> /\ Head(q) = b /\ Tail(q) = <<>> /\ b \o <<>> = b
    BY <2>1
  <2> QED BY <2>2, FlattenNone, FlattenOne
<1>2. ASSUME NEW n \in Nat, n \in T PROVE n + 1 \in T
  <2> SUFFICES ASSUME NEW q \in Seq(Seq(Nat)), Len(q) = (n + 1) + 1 PROVE Splits(q)
    OBVIOUS
  <2>1. PICK p \in Seq(Seq(Nat)), b \in Seq(Nat) : Len(p) = n + 1 /\ q = Append(p, b)
    <3>1. n + 1 \in Nat
      OBVIOUS
    <3> QED BY <3>1, SeqIsAppend, Zenon
  <2>2. Splits(p)
    BY <1>2, <2>1
  <2>3. /\ p # <<>> /\ Head(p) \in Seq(Nat) /\ Tail(p) \in Seq(Seq(Nat))
        /\ Head(q) = Head(p) /\ Tail(q) = Append(Tail(p), b)
    BY <2>1
  <2>4. FlattenSeq(Tail(p)) \in Seq(Nat)
    BY <2>3, FlattenTyped
  <2>5. FlattenSeq(q) = (Head(p) \o FlattenSeq(Tail(p))) \o b
    BY <2>1, <2>2, <2>3, FlattenAppend
  <2>6. FlattenSeq(q) = Head(p) \o (FlattenSeq(Tail(p)) \o b)
    BY <2>3, <2>4, <2>5, CatAssociative, Zenon
  <2>7. FlattenSeq(Tail(q)) = FlattenSeq(Tail(p)) \o b
    <3>1. <<>> \o b = b
      OBVIOUS
    <3> QED BY <2>3, <3>1, FlattenAppend, FlattenNone
  <2> QED BY <2>3, <2>6, <2>7
<1> HIDE DEF T
<1>3. Len(s) - 1 \in Nat /\ Len(s) - 1 \in T /\ Len(s) = (Len(s) - 1) + 1
  <2>1. Len(s) - 1 \in Nat /\ Len(s) = (Len(s) - 1) + 1
    OBVIOUS
  <2> QED BY <2>1, <1>1, <1>2, Induction
<1> QED BY <1>3 DEF T
(* The head of one sequence moves to the end of another.                   *)
LEMMA HeadMoves ==
  ASSUME NEW a \in Seq(Nat), NEW b \in Seq(Nat), b # <<>>
  PROVE  Append(a, Head(b)) \o Tail(b) = a \o b
<1> DEFINE h == <<Head(b)>>
           t == Tail(b)
<1>1. Head(b) \in Nat /\ t \in Seq(Nat) /\ h \in Seq(Nat) /\ b = h \o t /\ Append(a, Head(b)) = a \o h
  OBVIOUS
<1> HIDE DEF h, t
<1>2. (a \o h) \o t = a \o (h \o t)
  BY <1>1, CatAssociative
<1> QED BY <1>1, <1>2 DEF t

(* Prefixes                                                                *)
LEMMA PrefixOfCat == ASSUME NEW s \in Seq(Nat), NEW u \in Seq(Nat) PROVE IsPrefix(s, s \o u)
  BY DEF IsPrefix

LEMMA PrefixSplits ==
  ASSUME NEW s \in Seq(Nat), NEW t \in Seq(Nat), IsPrefix(s, t)
  PROVE  \E u \in Seq(Nat) : t = s \o u
<1> DEFINE u == SubSeq(t, Len(s) + 1, Len(t))
<1>1. u \in Seq(Nat) /\ Len(u) = Len(t) - Len(s) /\ Len(s) <= Len(t)
  BY DEF IsPrefix
<1>2. \A i \in 1 .. Len(s) : s[i] = t[i]
  <2> SUFFICES ASSUME NEW i \in 1 .. Len(s) PROVE s[i] = t[i]
    OBVIOUS
  <2>1. SubSeq(s, 1, Len(s))[i] = s[i] /\ SubSeq(t, 1, Len(s))[i] = t[i]
    BY DEF IsPrefix
  <2> QED BY <2>1 DEF IsPrefix
<1>3. \A i \in 1 .. Len(u) : u[i] = t[Len(s) + i]
  BY <1>1
<1>4. s \o u \in Seq(Nat) /\ Len(s \o u) = Len(t)
  BY <1>1
<1>5. \A i \in 1 .. Len(t) : (s \o u)[i] = t[i]
  <2> HIDE DEF u
  <2> SUFFICES ASSUME NEW i \in 1 .. Len(t) PROVE (s \o u)[i] = t[i]
    OBVIOUS
  <2>1. CASE i <= Len(s)
    BY <1>1, <1>2, <2>1
  <2>2. CASE Len(s) < i
    <3>1. i - Len(s) \in 1 .. Len(u) /\ Len(s) + (i - Len(s)) = i
      BY <1>1, <2>2
    <3>2. (s \o u)[i] = u[i - Len(s)]
      BY <1>1, <2>2
    <3>3. u[i - Len(s)] = t[Len(s) + (i - Len(s))]
      BY <1>3, <3>1
    <3> QED BY <3>1, <3>2, <3>3
  <2> QED BY <1>1, <2>1, <2>2
<1>6. s \o u = t
  <2> DEFINE w == s \o u
  <2>1. w \in Seq(Nat) /\ Len(w) = Len(t) /\ \A i \in 1 .. Len(t) : w[i] = t[i]
    BY <1>4, <1>5
  <2> HIDE DEF w
  <2>2. w = [i \in 1 .. Len(t) |-> w[i]] /\ t = [i \in 1 .. Len(t) |-> t[i]]
    BY <2>1
  <2>3. w = t
    BY <2>1, <2>2
  <2> QED BY <2>3 DEF w
<1> QED BY <1>1, <1>6

LEMMA PrefixTransitive ==
  ASSUME NEW s \in Seq(Nat), NEW t \in Seq(Nat), NEW v \in Seq(Nat), IsPrefix(s, t), IsPrefix(t, v)
  PROVE  IsPrefix(s, v)
<1>1. PICK a \in Seq(Nat) : t = s \o a
  BY PrefixSplits
<1>2. PICK b \in Seq(Nat) : v = t \o b
  BY PrefixSplits
<1>3. a \o b \in Seq(Nat) /\ (s \o a) \o b = s \o (a \o b)
  <2>1. a \o b \in Seq(Nat)
    OBVIOUS
  <2> QED BY <2>1, CatAssociative
<1>4. v = s \o (a \o b)
  BY <1>1, <1>2, <1>3
<1> QED BY <1>3, <1>4, PrefixOfCat

(* The members in order                                                    *)
LEMMA InOrderPlaces ==
  ASSUME NEW S, NEW n \in Nat
  PROVE  LET s == InOrder(S, n) IN
         /\ \A i \in DOMAIN s : s[i] \in S /\ s[i] \in 1 .. n
         /\ \A i, j \in DOMAIN s : i < j => s[i] < s[j]
         /\ \A x \in S \cap (1 .. n) : \E i \in DOMAIN s : s[i] = x
<1> DEFINE Good(s, m) ==
             /\ s \in Seq(Nat)
             /\ \A i \in DOMAIN s : s[i] \in S /\ s[i] \in 1 .. m
             /\ \A i, j \in DOMAIN s : i < j => s[i] < s[j]
             /\ \A x \in S \cap (1 .. m) : \E i \in DOMAIN s : s[i] = x
           U == {m \in Nat : Good(InOrder(S, m), m)}
<1>1. 0 \in U
  <2>1. PICK s : s = <<>>
    OBVIOUS
  <2>2. DOMAIN s = {} /\ s \in Seq(Nat) /\ 1 .. 0 = {}
    BY <2>1
  <2>3. Good(s, 0)
    BY <2>2
  <2> HIDE DEF Good
  <2>4. InOrder(S, 0) = s
    BY <2>1, InOrderNone
  <2>5. Good(InOrder(S, 0), 0)
    BY <2>3, <2>4
  <2> QED BY <2>5
<1>2. ASSUME NEW m \in Nat, m \in U PROVE m + 1 \in U
  <2>1. PICK s : s = InOrder(S, m)
    OBVIOUS
  <2>2. Good(s, m)
    BY <1>2, <2>1
  <2>3. InOrder(S, m + 1) = IF m + 1 \in S THEN Append(s, m + 1) ELSE s
    BY <2>1, InOrderNext
  <2>4. CASE m + 1 \notin S
    <3>1. \A x \in S \cap (1 .. (m + 1)) : x \in S \cap (1 .. m)
      BY <2>4
    <3>2. \A x \in 1 .. m : x \in 1 .. (m + 1)
      OBVIOUS
    <3> QED BY <2>2, <2>3, <2>4, <3>1, <3>2
  <2>5. CASE m + 1 \in S
    <3> DEFINE t == Append(s, m + 1)
    <3>1. s \in Seq(Nat) /\ t \in Seq(Nat) /\ Len(t) = Len(s) + 1 /\ Len(s) \in Nat /\ t[Len(s) + 1] = m + 1
          /\ DOMAIN s = 1 .. Len(s) /\ DOMAIN t = 1 .. (Len(s) + 1) /\ \A i \in DOMAIN s : t[i] = s[i]
      BY <2>2
    <3> HIDE DEF t
    <3>2. PICK l \in Nat : l = Len(s)
      BY <3>1
    <3>3. \A i \in DOMAIN t : i \in DOMAIN s \/ i = l + 1
      BY <3>1, <3>2
    <3>4. \A i \in DOMAIN t : t[i] \in S /\ t[i] \in 1 .. (m + 1)
      BY <2>2, <2>5, <3>1, <3>2, <3>3
    <3>5. \A i, j \in DOMAIN t : i < j => t[i] < t[j]
      <4> SUFFICES ASSUME NEW i \in DOMAIN t, NEW j \in DOMAIN t, i < j PROVE t[i] < t[j]
        OBVIOUS
      <4>1. i \in DOMAIN s /\ t[i] = s[i] /\ s[i] \in 1 .. m
        BY <2>2, <3>1, <3>2
      <4>2. CASE j \in DOMAIN s
        BY <2>2, <3>1, <4>1, <4>2
      <4>3. CASE j = l + 1
        BY <3>1, <3>2, <4>1, <4>3
      <4> QED BY <3>3, <4>2, <4>3
    <3>6. \A x \in S \cap (1 .. (m + 1)) : \E i \in DOMAIN t : t[i] = x
      <4> SUFFICES ASSUME NEW x \in S, x \in 1 .. (m + 1) PROVE \E i \in DOMAIN t : t[i] = x
        OBVIOUS
      <4>1. CASE x = m + 1
        BY <3>1, <3>2, <4>1
      <4>2. CASE x # m + 1
        <5>1. x \in 1 .. m
          BY <4>2
        <5>2. PICK i \in DOMAIN s : s[i] = x
          BY <2>2, <5>1
        <5>3. i \in DOMAIN t /\ t[i] = x
          BY <3>1, <5>2
        <5> QED BY <5>3
      <4> QED BY <4>1, <4>2
    <3>7. Good(t, m + 1)
      BY <3>1, <3>4, <3>5, <3>6
    <3>8. InOrder(S, m + 1) = t
      BY <2>3, <2>5 DEF t
    <3> HIDE DEF Good
    <3>9. Good(InOrder(S, m + 1), m + 1) /\ m + 1 \in Nat
      BY <3>7, <3>8
    <3> QED BY <3>9
  <2> QED BY <2>4, <2>5
<1> HIDE DEF U
<1>3. n \in U
  BY <1>1, <1>2, Induction
<1> QED BY <1>3 DEF U

-----------------------------------------------------------------------------
(* What the recorder writes                                                *)

Call == [op : {"channel", "message"}, topic : Topics]

RecorderTyped ==
  /\ world \in World
  /\ sink \in {"none", "up", "closing", "closed"}
  /\ run \in Nat /\ episodes \in Nat
  /\ script \in Seq(Call) /\ (script # <<>> => episodes # 0)
  /\ log \in Seq(Record)

LEMMA MessagesTyped ==
  \A t \in Topics : Channel(t) \in Call /\ Message(t) \in Call
  BY DEF Channel, Message, Call

LEMMA ScriptsTyped ==
  /\ StartMessages \o ResetMessages \in Seq(Call)
  /\ ResetMessages \in Seq(Call)
  /\ <<>> \in Seq(Call)
  /\ <<Message("/route")>> \in Seq(Call)
  /\ <<Message("/state")>> \in Seq(Call)
  BY MessagesTyped DEF StartMessages, ResetMessages, Topics

(* What the recorder's thread does keeps the recorder's types.             *)
LEMMA WritesTyped ==
  ASSUME RecorderTyped, NEW r, NEW k, Writes(r, k)
  PROVE  RecorderTyped' /\ k \in Nat /\ r \in Call
<1>1. script \in Seq(Call) /\ script # <<>> /\ r = Head(script) /\ script' = Tail(script)
  BY DEF RecorderTyped, Writes
<1>2. r \in Call /\ script' \in Seq(Call)
  BY <1>1
<1>3. Says(r) \in Record
  <2>1. run \in Nat /\ episodes - 1 \in Nat /\ world.scenario \in Scenarios /\ world.seed \in Seeds
        /\ world.time \in Nat /\ world.route \in Nat
    BY <1>1 DEF RecorderTyped, World
  <2>2. r.op \in {"channel", "message"} /\ r.topic \in Topics
    BY <1>2 DEF Call
  <2> QED BY <2>1, <2>2 DEF Says, Record
<1>4. k \in Nat /\ log' \in Seq(Record)
  BY <1>3 DEF RecorderTyped, Writes
<1> QED BY <1>1, <1>2, <1>4 DEF RecorderTyped, Writes

LEMMA AttachTyped == ASSUME RecorderTyped, Attach PROVE RecorderTyped'
  BY ScriptsTyped DEF RecorderTyped, Attach

LEMMA ResetTyped == ASSUME RecorderTyped, NEW seed \in Seeds, Reset(seed) PROVE RecorderTyped'
  BY ScriptsTyped DEF RecorderTyped, Reset, Fresh, World

LEMMA TickTyped ==
  ASSUME RecorderTyped, NEW replaced \in BOOLEAN, NEW due \in BOOLEAN, NEW live, Tick(replaced, due, live),
         sink = "up" => episodes # 0
  PROVE  RecorderTyped'
<1>1. world' \in World
  <2> DEFINE r == IF replaced THEN world.route + 1 ELSE world.route
  <2>1. world' = [world EXCEPT !.time = world.time + 1, !.route = r]
    BY DEF Tick
  <2>2. world.time + 1 \in Nat /\ r \in Nat
    BY DEF RecorderTyped, World
  <2> HIDE DEF r
  <2> QED BY <2>1, <2>2 DEF RecorderTyped, World
<1>2. script' \in Seq(Call) /\ (script' # <<>> => sink = "up")
  <2> DEFINE route == IF replaced THEN <<Message("/route")>> ELSE <<>>
             state == IF due /\ live THEN <<Message("/state")>> ELSE <<>>
  <2>1. route \in Seq(Call) /\ state \in Seq(Call)
    BY ScriptsTyped
  <2>2. script' = IF sink # "up" THEN <<>> ELSE route \o state
    BY DEF Tick
  <2>3. route \o state \in Seq(Call)
    <3> HIDE DEF route, state
    <3> QED BY <2>1
  <2> HIDE DEF route, state
  <2>4. CASE sink # "up"
    BY <2>2, <2>4
  <2>5. CASE sink = "up"
    BY <2>2, <2>3, <2>5
  <2> QED BY <2>4, <2>5
<1> QED BY <1>1, <1>2 DEF Tick, RecorderTyped

LEMMA ProcessEndsTyped ==
  ASSUME RecorderTyped, NEW next \in FreshWorlds, ProcessEnds(next)
  PROVE  RecorderTyped'
<1>1. next \in World
  BY DEF FreshWorlds, Fresh, World
<1> QED BY <1>1 DEF ProcessEnds, RecorderTyped

-----------------------------------------------------------------------------
(* The log                                                                 *)

IsOn(L, i, topic) == L[i].op = "message" /\ L[i].topic = topic
Earlier(L, k) == {i \in 1 .. (k - 1) : L[i].run = L[k].run}
SameEpisode(a, b) == a.episode = b.episode /\ a.seed = b.seed

(* Record i is the /episode that k of the same run comes after.            *)
Opens(L, i, k) ==
  /\ IsOn(L, i, "/episode") /\ SameEpisode(L[i], L[k])
  /\ \A h \in Earlier(L, k) : IsOn(L, h, "/episode") => h <= i

(* What a record finds before it in its run.                               *)
WellPlaced(L, k) ==
  /\ \A i \in Earlier(L, k) : L[i].scenario = L[k].scenario
  /\ L[k].op = "channel" => L[k].topic \in {"/meta", "/state"}
  /\ L[k].op = "channel" \/ L[k].topic = "/meta" => \A i \in Earlier(L, k) : L[i].op = "channel"
  /\ L[k].op = "message" =>
       \E i \in Earlier(L, k) : L[i].op = "channel" /\ (L[i].topic = "/state" <=> L[k].topic = "/state")
  /\ L[k].op = "message" /\ L[k].topic # "/meta" => \E i \in Earlier(L, k) : IsOn(L, i, "/meta")
  /\ L[k].op = "message" /\ L[k].topic \in {"/route", "/state"} => \E i \in Earlier(L, k) : Opens(L, i, k)

Orderly(L) == \A k \in DOMAIN L : WellPlaced(L, k)

(* What the present run's log holds when the recorder has still to write   *)
(* what script says.                                                       *)
Present == {i \in DOMAIN log : log[i].run = run}
Announced(topic) == \E i \in Present : log[i].op = "channel" /\ log[i].topic = topic
OnlyChannels == \A i \in Present : log[i].op = "channel"
Begun == Announced("/meta") /\ Announced("/state") /\ \E i \in Present : IsOn(log, i, "/meta")
InEpisode ==
  /\ Begun
  /\ \E i \in Present :
       /\ IsOn(log, i, "/episode") /\ log[i].episode = episodes - 1 /\ log[i].seed = world.seed
       /\ \A h \in Present : IsOn(log, h, "/episode") => h <= i

EpisodeStart == <<Message("/episode"), Message("/state")>>
Writing ==
  \/ script = <<Channel("/meta"), Channel("/state"), Message("/meta"), Message("/episode"), Message("/state")>>
       /\ Present = {}
  \/ script = <<Channel("/state"), Message("/meta"), Message("/episode"), Message("/state")>>
       /\ OnlyChannels /\ Announced("/meta")
  \/ script = <<Message("/meta"), Message("/episode"), Message("/state")>>
       /\ OnlyChannels /\ Announced("/meta") /\ Announced("/state")
  \/ script = EpisodeStart /\ Begun
  \/ script \in {<<Message("/route"), Message("/state")>>, <<Message("/route")>>, <<Message("/state")>>, <<>>}
       /\ InEpisode

LogOK ==
  /\ \A i \in DOMAIN log : log[i].run <= run
  /\ sink # "none" => \A i \in Present : log[i].scenario = world.scenario
  /\ sink = "up" => Writing /\ run # 0 /\ episodes # 0
  /\ sink # "up" => script = <<>>
  /\ Orderly(log)

RecorderOK == RecorderTyped /\ LogOK

LEMMA WellPlacedOld ==
  ASSUME NEW L \in Seq(Record), NEW x, NEW k \in DOMAIN L, WellPlaced(L, k)
  PROVE  WellPlaced(Append(L, x), k)
<1>1. PICK M : M = Append(L, x)
  OBVIOUS
<1>2. \A i \in 1 .. k : M[i] = L[i]
  BY <1>1
<1>3. k \in Nat /\ k \in 1 .. k
  OBVIOUS
<1>4. Earlier(M, k) = Earlier(L, k) /\ \A i \in Earlier(L, k) : M[i] = L[i]
  <2>1. \A i \in 1 .. (k - 1) : M[i] = L[i]
    BY <1>2, <1>3
  <2> QED BY <1>2, <1>3, <2>1 DEF Earlier
<1>5. M[k] = L[k]
  BY <1>2, <1>3
<1>6. \A i \in Earlier(L, k) : Opens(L, i, k) => Opens(M, i, k)
  BY <1>4, <1>5 DEF Opens, IsOn
<1>7. \A i \in Earlier(L, k) : IsOn(L, i, "/meta") => IsOn(M, i, "/meta")
  BY <1>4 DEF IsOn
<1> QED BY <1>1, <1>4, <1>5, <1>6, <1>7 DEF WellPlaced

LEMMA OrderlyAppend ==
  ASSUME NEW L \in Seq(Record), NEW x, NEW n, n = Len(L), Orderly(L), WellPlaced(Append(L, x), n + 1)
  PROVE  Orderly(Append(L, x))
<1> SUFFICES ASSUME NEW k \in DOMAIN Append(L, x) PROVE WellPlaced(Append(L, x), k)
  BY DEF Orderly
<1>1. k \in DOMAIN L \/ k = n + 1
  OBVIOUS
<1> QED BY <1>1, WellPlacedOld DEF Orderly

(* Writing a record keeps the log in order.                                *)
LEMMA LogWrites ==
  ASSUME RecorderOK, NEW r, NEW k, Writes(r, k)
  PROVE  RecorderOK'
<1>1. RecorderTyped' /\ r \in Call
  BY WritesTyped DEF RecorderOK
<1>2. PICK x, n : x = Says(r) /\ n = Len(log)
  OBVIOUS
<1>3. /\ log \in Seq(Record) /\ log' = Append(log, x) /\ n \in Nat /\ run \in Nat
      /\ script # <<>> /\ r = Head(script) /\ script' = Tail(script)
      /\ world' = world /\ sink' = sink /\ run' = run /\ episodes' = episodes
  BY <1>2 DEF RecorderOK, RecorderTyped, Writes
<1>4. sink = "up" /\ Writing /\ run # 0 /\ episodes # 0
      /\ (\A i \in Present : log[i].scenario = world.scenario) /\ (\A i \in DOMAIN log : log[i].run <= run)
      /\ Orderly(log)
  BY <1>3 DEF RecorderOK, RecorderTyped, LogOK
<1>5. /\ x.op = r.op /\ x.topic = r.topic /\ x.run = run /\ x.scenario = world.scenario
      /\ x.episode = episodes - 1 /\ x.seed = world.seed
  BY <1>2 DEF Says
<1>6. log'[n + 1] = x /\ (\A i \in 1 .. n : log'[i] = log[i] /\ i # n + 1 /\ i <= n + 1) /\ DOMAIN log = 1 .. n
      /\ DOMAIN log' = 1 .. (n + 1) /\ (n + 1) - 1 = n /\ n + 1 \in 1 .. (n + 1)
  BY <1>2, <1>3
<1>7. Present \subseteq 1 .. n /\ Earlier(log', n + 1) = Present
  BY <1>5, <1>6 DEF Present, Earlier
<1>8. Present' = Present \cup {n + 1}
  BY <1>3, <1>5, <1>6 DEF Present
<1>9. \A i \in Present : log'[i] = log[i] /\ i # n + 1 /\ i <= n + 1
  BY <1>6, <1>7
<1>10. \A topic : Announced(topic) => Announced(topic)'
  BY <1>8, <1>9 DEF Announced
<1>11. Begun => Begun'
  BY <1>8, <1>9, <1>10 DEF Begun, IsOn
<1>12. x.op = "channel" => (OnlyChannels => OnlyChannels') /\ Announced(x.topic)'
  BY <1>6, <1>8, <1>9 DEF OnlyChannels, Announced
<1>13. InEpisode /\ x.op = "message" /\ x.topic # "/episode" => InEpisode'
  <2> SUFFICES ASSUME InEpisode, x.op = "message", x.topic # "/episode" PROVE InEpisode'
    OBVIOUS
  <2>1. PICK i \in Present :
          /\ IsOn(log, i, "/episode") /\ log[i].episode = episodes - 1 /\ log[i].seed = world.seed
          /\ \A h \in Present : IsOn(log, h, "/episode") => h <= i
    BY DEF InEpisode
  <2>2. i \in Present' /\ log'[i] = log[i]
    BY <1>8, <1>9
  <2>3. \A h \in Present' : IsOn(log', h, "/episode") => h <= i
    BY <1>6, <1>8, <1>9, <2>1 DEF IsOn
  <2>4. Begun'
    BY <1>11 DEF InEpisode
  <2> QED BY <1>3, <2>1, <2>2, <2>3, <2>4 DEF InEpisode, IsOn
<1>14. Writing' /\ WellPlaced(log', n + 1)
  <2>1. CASE /\ script = <<Channel("/meta"), Channel("/state"), Message("/meta"), Message("/episode"), Message("/state")>>
             /\ Present = {}
    <3>1. x.op = "channel" /\ x.topic = "/meta"
          /\ script' = <<Channel("/state"), Message("/meta"), Message("/episode"), Message("/state")>>
      BY <1>3, <1>5, <2>1 DEF Channel
    <3>2. OnlyChannels
      BY <2>1 DEF OnlyChannels
    <3>3. OnlyChannels' /\ Announced("/meta")'
      BY <1>12, <3>1, <3>2
    <3>4. WellPlaced(log', n + 1)
      BY <1>6, <1>7, <2>1, <3>1 DEF WellPlaced
    <3> QED BY <3>1, <3>3, <3>4 DEF Writing
  <2>2. CASE /\ script = <<Channel("/state"), Message("/meta"), Message("/episode"), Message("/state")>>
             /\ OnlyChannels /\ Announced("/meta")
    <3>1. x.op = "channel" /\ x.topic = "/state"
          /\ script' = <<Message("/meta"), Message("/episode"), Message("/state")>>
      BY <1>3, <1>5, <2>2 DEF Channel
    <3>2. OnlyChannels' /\ Announced("/meta")' /\ Announced("/state")'
      BY <1>10, <1>12, <2>2, <3>1
    <3>3. WellPlaced(log', n + 1)
      BY <1>4, <1>5, <1>6, <1>7, <1>9, <2>2, <3>1 DEF WellPlaced, OnlyChannels
    <3> QED BY <3>1, <3>2, <3>3 DEF Writing
  <2>3. CASE /\ script = <<Message("/meta"), Message("/episode"), Message("/state")>>
             /\ OnlyChannels /\ Announced("/meta") /\ Announced("/state")
    <3>1. x.op = "message" /\ x.topic = "/meta" /\ script' = <<Message("/episode"), Message("/state")>>
      BY <1>3, <1>5, <2>3 DEF Message
    <3>2. Begun'
      BY <1>6, <1>8, <1>10, <2>3, <3>1 DEF Begun, IsOn
    <3>3. WellPlaced(log', n + 1)
      BY <1>4, <1>5, <1>6, <1>7, <1>9, <2>3, <3>1 DEF WellPlaced, OnlyChannels, Announced
    <3> QED BY <3>1, <3>2, <3>3 DEF Writing, EpisodeStart
  <2>4. CASE script = EpisodeStart /\ Begun
    <3>1. x.op = "message" /\ x.topic = "/episode" /\ script' = <<Message("/state")>>
      BY <1>3, <1>5, <2>4 DEF Message, EpisodeStart
    <3>2. InEpisode'
      BY <1>3, <1>5, <1>6, <1>8, <1>9, <1>11, <2>4, <3>1 DEF InEpisode, IsOn
    <3>3. PICK i \in Present : log[i].op = "channel" /\ log[i].topic = "/meta"
      BY <2>4 DEF Begun, Announced
    <3>4. PICK j \in Present : IsOn(log, j, "/meta")
      BY <2>4 DEF Begun
    <3>5. log'[i].op = "channel" /\ log'[i].topic = "/meta" /\ IsOn(log', j, "/meta")
      BY <1>9, <3>3, <3>4 DEF IsOn
    <3>6. \A h \in Present : log'[h].scenario = x.scenario
      BY <1>4, <1>5, <1>9
    <3>7. WellPlaced(log', n + 1)
      BY <1>6, <1>7, <3>1, <3>3, <3>4, <3>5, <3>6 DEF WellPlaced
    <3> QED BY <3>1, <3>2, <3>7 DEF Writing
  <2>5. CASE /\ script \in {<<Message("/route"), Message("/state")>>, <<Message("/route")>>, <<Message("/state")>>, <<>>}
             /\ InEpisode
    <3>1. x.op = "message" /\ x.topic \in {"/route", "/state"} /\ script' \in {<<Message("/state")>>, <<>>}
      <4>1. CASE script = <<Message("/route"), Message("/state")>>
        BY <1>3, <1>5, <4>1 DEF Message
      <4>2. CASE script = <<Message("/route")>>
        BY <1>3, <1>5, <4>2 DEF Message
      <4>3. CASE script = <<Message("/state")>>
        BY <1>3, <1>5, <4>3 DEF Message
      <4> QED BY <1>3, <2>5, <4>1, <4>2, <4>3
    <3>2. InEpisode'
      BY <1>13, <2>5, <3>1
    <3>3. \E i \in Present : Opens(log', i, n + 1)
      BY <1>5, <1>6, <1>7, <1>9, <2>5 DEF InEpisode, Opens, IsOn, SameEpisode
    <3>4. WellPlaced(log', n + 1)
      BY <1>4, <1>5, <1>6, <1>7, <1>9, <2>5, <3>1, <3>3 DEF WellPlaced, InEpisode, Begun, Announced, IsOn
    <3> QED BY <3>1, <3>2, <3>4 DEF Writing
  <2> QED BY <1>4, <2>1, <2>2, <2>3, <2>4, <2>5 DEF Writing
<1>15. Orderly(log')
  BY <1>2, <1>3, <1>4, <1>14, OrderlyAppend
<1>16. (\A i \in DOMAIN log' : log'[i].run <= run) /\ \A i \in Present' : log'[i].scenario = world.scenario
  <2>1. ASSUME NEW i \in DOMAIN log' PROVE log'[i].run <= run
    <3>1. CASE i = n + 1
      BY <1>3, <1>5, <1>6, <3>1
    <3>2. CASE i # n + 1
      <4>1. i \in 1 .. n
        BY <1>3, <1>6, <3>2
      <4> QED BY <1>4, <1>6, <4>1
    <3> QED BY <3>1, <3>2
  <2>2. ASSUME NEW i \in Present' PROVE log'[i].scenario = world.scenario
    BY <1>4, <1>5, <1>6, <1>8, <1>9
  <2> QED BY <2>1, <2>2
<1> QED BY <1>1, <1>3, <1>4, <1>14, <1>15, <1>16 DEF RecorderOK, LogOK

LEMMA SameSequence ==
  ASSUME NEW W, NEW s \in Seq(W), NEW t \in Seq(W), Len(s) = Len(t), \A i \in 1 .. Len(s) : s[i] = t[i]
  PROVE  s = t
  OBVIOUS

LEMMA CatOfTwo == ASSUME NEW W, NEW a \in W, NEW b \in W PROVE <<a>> \o <<b>> = <<a, b>>
<1>1. PICK s, t : s = <<a>> \o <<b>> /\ t = <<a, b>>
  OBVIOUS
<1>2. s \in Seq(W) /\ t \in Seq(W) /\ Len(s) = 2 /\ Len(t) = 2 /\ s[1] = a /\ s[2] = b /\ t[1] = a /\ t[2] = b
  BY <1>1
<1>3. \A i \in 1 .. 2 : i = 1 \/ i = 2
  OBVIOUS
<1> QED BY <1>1, <1>2, <1>3, SameSequence

LEMMA CatOfFive ==
  ASSUME NEW W, NEW a \in W, NEW b \in W, NEW c \in W, NEW d \in W, NEW e \in W
  PROVE  <<a, b, c>> \o <<d, e>> = <<a, b, c, d, e>>
<1>1. PICK s, t : s = <<a, b, c>> \o <<d, e>> /\ t = <<a, b, c, d, e>>
  OBVIOUS
<1>2. s \in Seq(W) /\ t \in Seq(W) /\ Len(s) = 5 /\ Len(t) = 5
  BY <1>1
<1>3. t[1] = a /\ t[2] = b /\ t[3] = c /\ t[4] = d /\ t[5] = e
  BY <1>1
<1>4. s[1] = a /\ s[2] = b /\ s[3] = c /\ s[4] = d /\ s[5] = e
  BY <1>1
<1>5. \A i \in 1 .. 5 : i \in {1, 2, 3, 4, 5}
  OBVIOUS
<1> QED BY <1>1, <1>2, <1>3, <1>4, <1>5, SameSequence

LEMMA LogAttach == ASSUME RecorderOK, Attach PROVE RecorderOK'
<1>1. RecorderTyped' /\ run \in Nat /\ \A i \in DOMAIN log : log[i] \in Record
  BY AttachTyped DEF RecorderOK, RecorderTyped
<1>2. log' = log /\ run' = run + 1 /\ sink' = "up" /\ episodes' = 1 /\ \A i \in DOMAIN log : log[i].run <= run
  BY DEF Attach, RecorderOK, LogOK
<1>3. (\A i \in DOMAIN log : log[i].run \in Nat /\ log[i].run <= run' /\ log[i].run # run')
  BY <1>1, <1>2 DEF Record
<1>4. Present' = {}
  BY <1>2, <1>3 DEF Present
<1>5. script' = <<Channel("/meta"), Channel("/state"), Message("/meta"), Message("/episode"), Message("/state")>>
  <2>1. \A a, b, c, d, e \in Call : <<a, b, c>> \o <<d, e>> = <<a, b, c, d, e>>
    BY CatOfFive, Zenon
  <2> QED BY <2>1, MessagesTyped DEF Topics, Attach, StartMessages, ResetMessages
<1>6. Orderly(log) /\ run' # 0
  BY <1>1, <1>2 DEF RecorderOK, LogOK
<1> QED BY <1>1, <1>2, <1>3, <1>4, <1>5, <1>6 DEF RecorderOK, LogOK, Writing

LEMMA LogReset == ASSUME RecorderOK, NEW seed \in Seeds, Reset(seed) PROVE RecorderOK'
<1>1. RecorderTyped' /\ episodes \in Nat
  BY ResetTyped DEF RecorderOK, RecorderTyped
<1>2. /\ sink = "up" /\ script = <<>> /\ log' = log /\ run' = run /\ sink' = sink /\ episodes' = episodes + 1
      /\ script' = EpisodeStart /\ world'.scenario = world.scenario
  BY DEF Reset, Ready, Fresh, ResetMessages, EpisodeStart
<1>3. Present' = Present /\ \A topic : Announced(topic)' = Announced(topic)
  BY <1>2 DEF Present, Announced
<1>4. Begun
  BY <1>2 DEF RecorderOK, LogOK, Writing, InEpisode, EpisodeStart
<1>5. Begun'
  BY <1>2, <1>3, <1>4 DEF Begun
<1>6. episodes' # 0
  BY <1>1, <1>2
<1> QED BY <1>1, <1>2, <1>3, <1>5, <1>6 DEF RecorderOK, LogOK, Writing

LEMMA LogTick ==
  ASSUME RecorderOK, NEW replaced \in BOOLEAN, NEW due \in BOOLEAN, NEW live, Tick(replaced, due, live)
  PROVE  RecorderOK'
<1>1. RecorderTyped'
  BY TickTyped DEF RecorderOK, LogOK
<1>2. /\ script = <<>> /\ log' = log /\ run' = run /\ sink' = sink /\ episodes' = episodes
      /\ world'.scenario = world.scenario /\ world'.seed = world.seed
  BY DEF Tick, Ready, World, RecorderOK, RecorderTyped
<1>3. Present' = Present /\ \A topic : Announced(topic)' = Announced(topic)
  BY <1>2 DEF Present, Announced
<1>4. sink = "up" => Writing'
  <2> SUFFICES ASSUME sink = "up" PROVE Writing'
    OBVIOUS
  <2>1. InEpisode
    BY <1>2 DEF RecorderOK, LogOK, Writing, EpisodeStart
  <2>2. InEpisode'
    BY <1>2, <1>3, <2>1 DEF InEpisode, Begun
  <2>3. script' \in {<<Message("/route"), Message("/state")>>, <<Message("/route")>>, <<Message("/state")>>, <<>>}
    <3>1. \A a \in Call : <<a>> \o <<>> = <<a>> /\ <<>> \o <<a>> = <<a>> /\ <<>> \o <<>> = <<>>
      OBVIOUS
    <3>4. \A a, b \in Call : <<a>> \o <<b>> = <<a, b>>
      BY CatOfTwo, Zenon
    <3>2. script' = (IF replaced THEN <<Message("/route")>> ELSE <<>>)
                      \o (IF due /\ live THEN <<Message("/state")>> ELSE <<>>)
      BY DEF Tick
    <3>3. Message("/route") \in Call /\ Message("/state") \in Call
      BY MessagesTyped DEF Topics
    <3> QED BY <3>1, <3>2, <3>3, <3>4, Zenon
  <2> QED BY <2>2, <2>3 DEF Writing
<1>5. sink # "up" => script' = <<>>
  BY DEF Tick
<1> QED BY <1>1, <1>2, <1>3, <1>4, <1>5 DEF RecorderOK, LogOK

LEMMA LogEnds ==
  ASSUME RecorderOK, Finish \/ Finished \/ \E next \in FreshWorlds : ProcessEnds(next)
  PROVE  RecorderOK'
<1>1. RecorderTyped'
  BY ProcessEndsTyped DEF RecorderOK, RecorderTyped, Finish, Finished
<1>2. log' = log /\ run' = run /\ script' = <<>> /\ sink' # "up"
      /\ (sink' # "none" => sink # "none" /\ world' = world)
  BY DEF Finish, Finished, ProcessEnds, Ready, RecorderOK, LogOK
<1>3. Present' = Present
  BY <1>2 DEF Present
<1> QED BY <1>1, <1>2, <1>3 DEF RecorderOK, LogOK

LEMMA LogInit == InitRecorder => RecorderOK
<1> SUFFICES ASSUME InitRecorder PROVE RecorderOK
  OBVIOUS
<1>1. RecorderTyped
  BY DEF InitRecorder, RecorderTyped, FreshWorlds, Fresh, World
<1>2. DOMAIN log = {}
  BY DEF InitRecorder
<1> QED BY <1>1, <1>2 DEF InitRecorder, RecorderOK, LogOK, Orderly, Present

LEMMA LogSame == ASSUME RecorderOK, UNCHANGED <<simVars, log>> PROVE RecorderOK'
<1>1. RecorderTyped' /\ Present' = Present
  BY DEF RecorderOK, RecorderTyped, simVars, Present
<1>2. \A topic : Announced(topic)' = Announced(topic)
  BY <1>1 DEF Announced, simVars
<1>3. Begun' = Begun /\ OnlyChannels' = OnlyChannels /\ InEpisode' = InEpisode
  BY <1>1, <1>2 DEF Begun, OnlyChannels, InEpisode, simVars
<1>4. Writing' = Writing
  BY <1>1, <1>2, <1>3 DEF Writing, simVars
<1> QED BY <1>1, <1>4 DEF RecorderOK, LogOK, simVars

-----------------------------------------------------------------------------
(* What a connection is promised                                           *)

(* Records of run r among the first n of L, as in Broadcast.               *)
OfRun(L, r, n) == {i \in 1 .. n : L[i].run = r}
OnTopic(L, r, n, topic) == {i \in OfRun(L, r, n) : IsOn(L, i, topic)}
ChannelsOf(L, r, n) == {i \in OfRun(L, r, n) : L[i].op = "channel"}
Newest(S) == {i \in S : \A j \in S : j <= i}
Later(S, T) == {i \in S : \A j \in T : j < i}

(* The cached records of a connection accepted at m, and the live ones.    *)
CachedOf(L, r, m) ==
  LET meta == Newest(OnTopic(L, r, m, "/meta"))
  IN  meta \cup Newest(Later(OnTopic(L, r, m, "/episode"), meta))
           \cup Later(OnTopic(L, r, m, "/route"), OnTopic(L, r, m, "/meta") \cup OnTopic(L, r, m, "/episode"))
LiveOf(L, r, m) == OfRun(L, r, Len(L)) \ (1 .. m)

(* What every connection is given first.                                   *)
Magic == <<0>>

(* Sets of records among n, in their order.                                *)
Listed(C, P, D, n) == Magic \o InOrder(C, n) \o InOrder(P, n) \o InOrder(D, n)
Promised(L, r, m) == Listed(ChannelsOf(L, r, m), CachedOf(L, r, m), LiveOf(L, r, m), Len(L))

LEMMA OrderedNext ==
  ASSUME NEW n \in Nat, NEW S \in SUBSET (1 .. n)
  PROVE  /\ InOrder(S, n + 1) = InOrder(S, n)
         /\ InOrder(S \cup {n + 1}, n + 1) = Append(InOrder(S, n), n + 1)
         /\ InOrder({n + 1}, n + 1) = <<n + 1>>
<1>1. n + 1 \notin S
  OBVIOUS
<1>2. InOrder(S \cup {n + 1}, n) = InOrder(S, n)
  <2>1. \A i \in 1 .. n : i \in S \cup {n + 1} <=> i \in S
    OBVIOUS
  <2> QED BY <2>1, InOrderSame
<1>3. InOrder({n + 1}, n) = <<>>
  <2>1. \A i \in 1 .. n : i \notin {n + 1}
    OBVIOUS
  <2> QED BY <2>1, InOrderEmpty
<1>4. /\ InOrder(S, n + 1) = InOrder(S, n)
      /\ InOrder(S \cup {n + 1}, n + 1) = Append(InOrder(S \cup {n + 1}, n), n + 1)
      /\ InOrder({n + 1}, n + 1) = Append(InOrder({n + 1}, n), n + 1)
  BY <1>1, InOrderNext
<1>5. Append(<<>>, n + 1) = <<n + 1>>
  OBVIOUS
<1> QED BY <1>2, <1>3, <1>4, <1>5

LEMMA ListedTyped ==
  ASSUME NEW C, NEW P, NEW D, NEW n \in Nat
  PROVE  Listed(C, P, D, n) \in Seq(Nat)
<1>1. \A S : InOrder(S, n) \in Seq(Nat)
  <2> TAKE S
  <2>1. InOrder(S, n) \in Seq(S \cap Nat)
    BY InOrderTyped
  <2>2. S \cap Nat \subseteq Nat
    OBVIOUS
  <2> QED BY <2>1, <2>2
<1> DEFINE a == InOrder(C, n)
           b == InOrder(P, n)
           d == InOrder(D, n)
<1>2. a \in Seq(Nat) /\ b \in Seq(Nat) /\ d \in Seq(Nat)
  BY <1>1
<1> HIDE DEF a, b, d
<1>3. Magic \o a \o b \o d \in Seq(Nat)
  BY <1>2 DEF Magic
<1> QED BY <1>3 DEF Listed, a, b, d

LEMMA ListedOld ==
  ASSUME NEW n \in Nat, NEW C \in SUBSET (1 .. n), NEW P \in SUBSET (1 .. n), NEW D \in SUBSET (1 .. n)
  PROVE  Listed(C, P, D, n + 1) = Listed(C, P, D, n)
<1>1. InOrder(C, n + 1) = InOrder(C, n) /\ InOrder(P, n + 1) = InOrder(P, n) /\ InOrder(D, n + 1) = InOrder(D, n)
  BY OrderedNext
<1> QED BY <1>1 DEF Listed

LEMMA ListedNew ==
  ASSUME NEW n \in Nat, NEW C \in SUBSET (1 .. n), NEW P \in SUBSET (1 .. n), NEW D \in SUBSET (1 .. n)
  PROVE  Listed(C, P, D \cup {n + 1}, n + 1) = Append(Listed(C, P, D, n), n + 1)
<1> DEFINE a == InOrder(C, n)
           b == InOrder(P, n)
           d == InOrder(D, n)
           e == n + 1
<1>1. InOrder(C, n + 1) = a /\ InOrder(P, n + 1) = b /\ InOrder(D \cup {n + 1}, n + 1) = Append(d, e)
  BY OrderedNext
<1>2. a \in Seq(Nat) /\ b \in Seq(Nat) /\ d \in Seq(Nat) /\ e \in Nat
  <2>1. \A S : S \cap Nat \subseteq Nat
    OBVIOUS
  <2>2. a \in Seq(C \cap Nat) /\ b \in Seq(P \cap Nat) /\ d \in Seq(D \cap Nat)
    BY InOrderTyped
  <2> QED BY <2>1, <2>2
<1> HIDE DEF a, b, d, e
<1>3. Magic \o a \o b \in Seq(Nat) /\ Append(d, e) = d \o <<e>> /\ <<e>> \in Seq(Nat)
  BY <1>2 DEF Magic
<1> DEFINE s == Magic \o a \o b
<1> HIDE DEF s
<1>4. s \in Seq(Nat)
  BY <1>3 DEF s
<1>5. s \o d \in Seq(Nat)
  BY <1>2, <1>4
<1>6. Append(s \o d, e) = (s \o d) \o <<e>>
  BY <1>2, <1>5
<1>7. s \o (d \o <<e>>) = (s \o d) \o <<e>>
  BY <1>2, <1>3, <1>4, CatAssociative
<1> QED BY <1>1, <1>3, <1>6, <1>7 DEF Listed, a, b, d, e, s

(* The first m records of a log stay, and those of the others.            *)
LEMMA PromisedSets ==
  ASSUME NEW L \in Seq(Record), NEW r, NEW m \in 0 .. Len(L), NEW n, n = Len(L)
  PROVE  /\ ChannelsOf(L, r, m) \in SUBSET (1 .. n)
         /\ CachedOf(L, r, m) \in SUBSET (1 .. n)
         /\ LiveOf(L, r, m) \in SUBSET (1 .. n)
<1>1. 1 .. m \subseteq 1 .. n
  OBVIOUS
<1> QED BY <1>1 DEF ChannelsOf, CachedOf, LiveOf, OnTopic, OfRun, Newest, Later

(* A record of its run is added at the end of what a connection is         *)
(* promised; another changes nothing.                                      *)
LEMMA PromisedGrows ==
  ASSUME NEW L \in Seq(Record), NEW x, NEW r, NEW m \in 0 .. Len(L)
  PROVE  Promised(Append(L, x), r, m)
           = IF x.run = r THEN Append(Promised(L, r, m), Len(L) + 1) ELSE Promised(L, r, m)
<1>1. PICK M, n, C, P, D :
        /\ M = Append(L, x) /\ n = Len(L)
        /\ C = ChannelsOf(L, r, m) /\ P = CachedOf(L, r, m) /\ D = LiveOf(L, r, m)
  OBVIOUS
<1>2. /\ n \in Nat /\ m \in Nat /\ m <= n /\ Len(M) = n + 1 /\ n + 1 \notin 1 .. m /\ M[n + 1] = x
      /\ \A i \in 1 .. n : M[i] = L[i]
  BY <1>1
<1>3. C \in SUBSET (1 .. n) /\ P \in SUBSET (1 .. n) /\ D \in SUBSET (1 .. n)
  BY <1>1, PromisedSets
<1>4. OfRun(M, r, m) = OfRun(L, r, m) /\ \A i \in OfRun(L, r, m) : M[i] = L[i]
  BY <1>2 DEF OfRun
<1>5. ChannelsOf(M, r, m) = C /\ \A t : OnTopic(M, r, m, t) = OnTopic(L, r, m, t)
  BY <1>1, <1>4 DEF ChannelsOf, OnTopic, IsOn
<1>6. CachedOf(M, r, m) = P
  BY <1>1, <1>5, Zenon DEF CachedOf
<1>7. OfRun(M, r, n + 1) = IF x.run = r THEN OfRun(L, r, n) \cup {n + 1} ELSE OfRun(L, r, n)
  <2>1. 1 .. (n + 1) = (1 .. n) \cup {n + 1}
    BY <1>2
  <2> QED BY <1>2, <2>1 DEF OfRun
<1>8. LiveOf(M, r, m) = IF x.run = r THEN D \cup {n + 1} ELSE D
  BY <1>1, <1>2, <1>7 DEF LiveOf
<1>9. Promised(M, r, m) = IF x.run = r THEN Listed(C, P, D \cup {n + 1}, n + 1) ELSE Listed(C, P, D, n + 1)
  BY <1>2, <1>5, <1>6, <1>8 DEF Promised
<1>10. Listed(C, P, D, n + 1) = Listed(C, P, D, n)
  BY <1>2, <1>3, ListedOld
<1>11. Listed(C, P, D \cup {n + 1}, n + 1) = Append(Listed(C, P, D, n), n + 1)
  BY <1>2, <1>3, ListedNew
<1>12. Promised(L, r, m) = Listed(C, P, D, n)
  BY <1>1 DEF Promised
<1> QED BY <1>1, <1>9, <1>10, <1>11, <1>12

LEMMA CatTwo ==
  ASSUME NEW s \in Seq(Nat), NEW t \in Seq(Nat), NEW u, u = s \o t
  PROVE  /\ u \in Seq(Nat) /\ Len(u) = Len(s) + Len(t)
         /\ \A i \in 1 .. Len(s) : u[i] = s[i]
         /\ \A i \in 1 .. Len(t) : u[Len(s) + i] = t[i]
  OBVIOUS

LEMMA PrefixPlaces ==
  ASSUME NEW s \in Seq(Nat), NEW t \in Seq(Nat), IsPrefix(s, t), NEW j \in DOMAIN s
  PROVE  j \in Nat /\ \A h \in 1 .. j : h \in DOMAIN t /\ h \in Nat /\ t[h] = s[h]
<1>1. PICK u \in Seq(Nat) : t = s \o u
  BY PrefixSplits
<1>2. /\ Len(t) = Len(s) + Len(u)
      /\ \A i \in 1 .. Len(s) : t[i] = s[i]
  BY <1>1, CatTwo
<1>3. Len(s) \in Nat /\ Len(u) \in Nat /\ j \in 1 .. Len(s) /\ DOMAIN t = 1 .. Len(t)
  BY <1>1
<1> QED BY <1>2, <1>3

(* What stands where in p, of which a, b and d are the parts.              *)
InParts(p, a, b, d, la, lb, ld) ==
  /\ p \in Seq(Nat) /\ p[1] = 0 /\ DOMAIN p = 1 .. (1 + la + lb + ld)
  /\ \A i \in 1 .. la : p[1 + i] = a[i]
  /\ \A i \in 1 .. lb : p[1 + la + i] = b[i]
  /\ \A i \in 1 .. ld : p[1 + la + lb + i] = d[i]

LEMMA CatPlaces ==
  ASSUME NEW a \in Seq(Nat), NEW b \in Seq(Nat), NEW d \in Seq(Nat), NEW p, p = Magic \o a \o b \o d,
         NEW la \in Nat, NEW lb \in Nat, NEW ld \in Nat, la = Len(a), lb = Len(b), ld = Len(d)
  PROVE  InParts(p, a, b, d, la, lb, ld)
<1>1. PICK z, u, v, w : z = Magic /\ u = z \o a /\ v = u \o b /\ w = v \o d
  OBVIOUS
<1>2. z \in Seq(Nat) /\ Len(z) = 1 /\ z[1] = 0 /\ w = v \o d /\ p = w
  BY <1>1 DEF Magic
<1>3. /\ u \in Seq(Nat) /\ Len(u) = 1 + la
      /\ \A i \in 1 .. 1 : u[i] = z[i]
      /\ \A i \in 1 .. la : u[1 + i] = a[i]
  <2>1. z \in Seq(Nat) /\ a \in Seq(Nat) /\ u = z \o a
    BY <1>1, <1>2
  <2>2. /\ u \in Seq(Nat) /\ Len(u) = Len(z) + Len(a)
        /\ \A i \in 1 .. Len(z) : u[i] = z[i]
        /\ \A i \in 1 .. Len(a) : u[Len(z) + i] = a[i]
    BY <2>1, CatTwo
  <2>3. Len(z) = 1 /\ Len(a) = la
    BY <1>1, <1>2
  <2> QED BY <2>2, <2>3, Zenon
<1>4. /\ v \in Seq(Nat) /\ Len(v) = 1 + la + lb
      /\ \A i \in 1 .. (1 + la) : v[i] = u[i]
      /\ \A i \in 1 .. lb : v[1 + la + i] = b[i]
  <2>1. u \in Seq(Nat) /\ b \in Seq(Nat) /\ v = u \o b
    BY <1>1, <1>3
  <2>2. /\ v \in Seq(Nat) /\ Len(v) = Len(u) + Len(b)
        /\ \A i \in 1 .. Len(u) : v[i] = u[i]
        /\ \A i \in 1 .. Len(b) : v[Len(u) + i] = b[i]
    BY <2>1, CatTwo
  <2>3. Len(u) = 1 + la /\ Len(b) = lb
    BY <1>1, <1>3
  <2> QED BY <2>2, <2>3, Zenon
<1>5. /\ p \in Seq(Nat) /\ Len(p) = 1 + la + lb + ld
      /\ \A i \in 1 .. (1 + la + lb) : p[i] = v[i]
      /\ \A i \in 1 .. ld : p[1 + la + lb + i] = d[i]
  <2>1. v \in Seq(Nat) /\ d \in Seq(Nat) /\ w = v \o d
    BY <1>2, <1>4
  <2>2. /\ w \in Seq(Nat) /\ Len(w) = Len(v) + Len(d)
        /\ \A i \in 1 .. Len(v) : w[i] = v[i]
        /\ \A i \in 1 .. Len(d) : w[Len(v) + i] = d[i]
    BY <2>1, CatTwo
  <2>3. Len(v) = 1 + la + lb /\ Len(d) = ld
    BY <1>2, <1>4
  <2> QED BY <1>2, <2>2, <2>3, Zenon
<1>6. p[1] = 0
  <2>1. 1 \in 1 .. 1 /\ 1 \in 1 .. (1 + la) /\ 1 \in 1 .. (1 + la + lb)
    OBVIOUS
  <2> QED BY <1>2, <1>3, <1>4, <1>5, <2>1, Zenon
<1>7. \A i \in 1 .. la : p[1 + i] = a[i]
  <2> TAKE i \in 1 .. la
  <2>1. 1 + i \in 1 .. (1 + la) /\ 1 + i \in 1 .. (1 + la + lb)
    OBVIOUS
  <2> QED BY <1>3, <1>4, <1>5, <2>1, Zenon
<1>8. \A i \in 1 .. lb : p[1 + la + i] = b[i]
  <2> TAKE i \in 1 .. lb
  <2>1. 1 + la + i \in 1 .. (1 + la + lb)
    OBVIOUS
  <2> QED BY <1>4, <1>5, <2>1, Zenon
<1>9. DOMAIN p = 1 .. (1 + la + lb + ld)
  <2>1. \A s \in Seq(Nat) : DOMAIN s = 1 .. Len(s)
    OBVIOUS
  <2> QED BY <1>5, <2>1, Zenon
<1> QED BY <1>5, <1>6, <1>7, <1>8, <1>9 DEF InParts

LEMMA Parts ==
  ASSUME NEW la \in Nat, NEW lb \in Nat, NEW ld \in Nat
  PROVE  /\ \A j \in 1 .. (1 + la + lb + ld) :
               \/ j = 1 \/ (\E i \in 1 .. la : j = 1 + i) \/ (\E i \in 1 .. lb : j = 1 + la + i)
               \/ \E i \in 1 .. ld : j = 1 + la + lb + i
         /\ \A i \in 1 .. la : 1 + i \in 1 .. (1 + la + lb + ld)
         /\ \A i \in 1 .. lb : 1 + la + i \in 1 .. (1 + la + lb + ld)
         /\ \A i \in 1 .. ld : 1 + la + lb + i \in 1 .. (1 + la + lb + ld)
<1>1. \A j \in 1 .. (1 + la + lb + ld) :
         \/ j = 1 \/ (\E i \in 1 .. la : j = 1 + i) \/ (\E i \in 1 .. lb : j = 1 + la + i)
         \/ \E i \in 1 .. ld : j = 1 + la + lb + i
  <2> TAKE j \in 1 .. (1 + la + lb + ld)
  <2>1. j = 1 \/ j - 1 \in 1 .. la \/ j - 1 - la \in 1 .. lb \/ j - 1 - la - lb \in 1 .. ld
    OBVIOUS
  <2>2. j = 1 + (j - 1) /\ j = 1 + la + (j - 1 - la) /\ j = 1 + la + lb + (j - 1 - la - lb)
    OBVIOUS
  <2> QED BY <2>1, <2>2, Zenon
<1> QED BY <1>1

(* Messages are promised in the log's order, and of what is promised       *)
(* before a message no part is passed over.                                *)
LEMMA PromisedOrder ==
  ASSUME NEW L \in Seq(Record), NEW r, NEW m \in 0 .. Len(L), NEW p, p = Promised(L, r, m)
  PROVE  /\ p \in Seq(Nat)
         /\ \A j \in DOMAIN p : p[j] # 0 => p[j] \in OfRun(L, r, Len(L))
         /\ \A j \in DOMAIN p :
              p[j] # 0 /\ L[p[j]].op = "message" => p[j] \in CachedOf(L, r, m) \cup LiveOf(L, r, m)
         /\ \A i, j \in DOMAIN p :
              i < j /\ p[i] # 0 /\ p[j] # 0 /\ L[p[i]].op = "message" /\ L[p[j]].op = "message" => p[i] < p[j]
         /\ \A j \in DOMAIN p :
              p[j] # 0 /\ L[p[j]].op = "message" =>
                \A k \in ChannelsOf(L, r, m) \cup CachedOf(L, r, m) \cup LiveOf(L, r, m) :
                  k < p[j] => \E i \in DOMAIN p : i < j /\ p[i] = k
         /\ \A k \in CachedOf(L, r, m) \cup LiveOf(L, r, m) : \E j \in DOMAIN p : p[j] = k
<1>1. PICK n, C, P, D : /\ n = Len(L) /\ C = ChannelsOf(L, r, m) /\ P = CachedOf(L, r, m) /\ D = LiveOf(L, r, m)
  OBVIOUS
<1>2. PICK a, b, d : a = InOrder(C, n) /\ b = InOrder(P, n) /\ d = InOrder(D, n)
  OBVIOUS
<1>3. n \in Nat /\ m \in Nat /\ m <= n
  BY <1>1
<1>4. /\ C \subseteq 1 .. m /\ P \subseteq 1 .. m /\ C \subseteq 1 .. n /\ P \subseteq 1 .. n /\ D \subseteq (1 .. n)
      /\ C \cup P \cup D \subseteq OfRun(L, r, n)
      /\ (\A k \in C : L[k].op = "channel") /\ \A k \in D : m < k
  <2>1. \A i \in 1 .. m : i \in 1 .. n
    BY <1>3
  <2>2. C \subseteq OfRun(L, r, m) /\ P \subseteq OfRun(L, r, m) /\ D \subseteq OfRun(L, r, n) /\ \A k \in C : L[k].op = "channel"
    BY <1>1 DEF ChannelsOf, CachedOf, LiveOf, OnTopic, Newest, Later
  <2>3. OfRun(L, r, m) \subseteq 1 .. m /\ OfRun(L, r, m) \subseteq OfRun(L, r, n) /\ OfRun(L, r, n) \subseteq 1 .. n
    BY <2>1 DEF OfRun
  <2>4. \A k \in 1 .. n : k \notin 1 .. m => m < k
    BY <1>3
  <2> QED BY <1>1, <2>1, <2>2, <2>3, <2>4 DEF LiveOf
<1>5. a \in Seq(Nat) /\ b \in Seq(Nat) /\ d \in Seq(Nat)
  <2>1. a \in Seq(C \cap Nat) /\ b \in Seq(P \cap Nat) /\ d \in Seq(D \cap Nat)
    BY <1>2, <1>3, InOrderTyped
  <2>2. \A S : S \cap Nat \subseteq Nat
    OBVIOUS
  <2> QED BY <2>1, <2>2
<1>6. /\ \A i \in DOMAIN a : a[i] \in C
      /\ \A x \in C : \E i \in DOMAIN a : a[i] = x
  BY <1>2, <1>3, <1>4, InOrderPlaces
<1>7. /\ \A i \in DOMAIN b : b[i] \in P
      /\ \A i, j \in DOMAIN b : i < j => b[i] < b[j]
      /\ \A x \in P : \E i \in DOMAIN b : b[i] = x
  BY <1>2, <1>3, <1>4, InOrderPlaces
<1>8. /\ \A i \in DOMAIN d : d[i] \in D
      /\ \A i, j \in DOMAIN d : i < j => d[i] < d[j]
      /\ \A x \in D : \E i \in DOMAIN d : d[i] = x
  BY <1>2, <1>3, <1>4, InOrderPlaces
<1>9. PICK la \in Nat, lb \in Nat, ld \in Nat : la = Len(a) /\ lb = Len(b) /\ ld = Len(d)
                       /\ DOMAIN a = 1 .. la /\ DOMAIN b = 1 .. lb /\ DOMAIN d = 1 .. ld
  BY <1>5
<1>10. /\ p \in Seq(Nat) /\ p[1] = 0
       /\ \A i \in 1 .. la : 1 + i \in DOMAIN p /\ p[1 + i] = a[i]
       /\ \A i \in 1 .. lb : 1 + la + i \in DOMAIN p /\ p[1 + la + i] = b[i]
       /\ \A i \in 1 .. ld : 1 + la + lb + i \in DOMAIN p /\ p[1 + la + lb + i] = d[i]
       /\ \A j \in DOMAIN p : \/ j = 1
                              \/ \E i \in 1 .. la : j = 1 + i
                              \/ \E i \in 1 .. lb : j = 1 + la + i
                              \/ \E i \in 1 .. ld : j = 1 + la + lb + i
  <2>1. p = Magic \o a \o b \o d
    BY <1>1, <1>2 DEF Promised, Listed
  <2>2. /\ p \in Seq(Nat) /\ p[1] = 0 /\ DOMAIN p = 1 .. (1 + la + lb + ld)
        /\ \A i \in 1 .. la : p[1 + i] = a[i]
        /\ \A i \in 1 .. lb : p[1 + la + i] = b[i]
        /\ \A i \in 1 .. ld : p[1 + la + lb + i] = d[i]
    <3>1. /\ a \in Seq(Nat) /\ b \in Seq(Nat) /\ d \in Seq(Nat) /\ p = Magic \o a \o b \o d
          /\ la \in Nat /\ lb \in Nat /\ ld \in Nat /\ la = Len(a) /\ lb = Len(b) /\ ld = Len(d)
      BY <1>5, <1>9, <2>1
    <3>2. InParts(p, a, b, d, la, lb, ld)
      BY <3>1, CatPlaces
    <3> QED BY <3>2 DEF InParts
  <2>3. PICK dom : dom = 1 .. (1 + la + lb + ld)
    OBVIOUS
  <2>4. /\ \A j \in dom : \/ j = 1 \/ (\E i \in 1 .. la : j = 1 + i) \/ (\E i \in 1 .. lb : j = 1 + la + i)
                           \/ \E i \in 1 .. ld : j = 1 + la + lb + i
        /\ \A i \in 1 .. la : 1 + i \in dom
        /\ \A i \in 1 .. lb : 1 + la + i \in dom
        /\ \A i \in 1 .. ld : 1 + la + lb + i \in dom
    BY <2>3, Parts
  <2> QED BY <2>2, <2>3, <2>4, Zenon
<1>11. \A j \in DOMAIN p : p[j] # 0 => p[j] \in OfRun(L, r, n)
  <2> SUFFICES ASSUME NEW j \in DOMAIN p, p[j] # 0 PROVE p[j] \in C \cup P \cup D
    BY <1>4
  <2>1. CASE \E i \in 1 .. la : j = 1 + i
    <3>1. PICK i \in 1 .. la : j = 1 + i
      BY <2>1
    <3>2. p[j] = a[i]
      BY <1>10, <3>1, Zenon
    <3> QED BY <1>6, <1>9, <3>1, <3>2
  <2>2. CASE \E i \in 1 .. lb : j = 1 + la + i
    <3>1. PICK i \in 1 .. lb : j = 1 + la + i
      BY <2>2
    <3>2. p[j] = b[i]
      BY <1>10, <3>1, Zenon
    <3> QED BY <1>7, <1>9, <3>1, <3>2
  <2>3. CASE \E i \in 1 .. ld : j = 1 + la + lb + i
    <3>1. PICK i \in 1 .. ld : j = 1 + la + lb + i
      BY <2>3
    <3>2. p[j] = d[i]
      BY <1>10, <3>1, Zenon
    <3> QED BY <1>8, <1>9, <3>1, <3>2
  <2> QED BY <1>10, <2>1, <2>2, <2>3
(* A message is a cached or a live one.                                    *)
<1>12. ASSUME NEW j \in DOMAIN p, p[j] # 0, L[p[j]].op = "message"
       PROVE  \/ \E x \in 1 .. lb : j = 1 + la + x /\ p[j] = b[x] /\ b[x] \in P
              \/ \E x \in 1 .. ld : j = 1 + la + lb + x /\ p[j] = d[x] /\ d[x] \in D
  <2>1. CASE \E i \in 1 .. la : j = 1 + i
    <3>1. PICK i \in 1 .. la : j = 1 + i
      BY <2>1
    <3>2. L[p[j]].op = "channel"
      BY <1>4, <1>6, <1>9, <1>10, <3>1
    <3> QED BY <1>12, <3>2
  <2>2. CASE \E i \in 1 .. lb : j = 1 + la + i
    <3>1. PICK i \in 1 .. lb : j = 1 + la + i
      BY <2>2
    <3>2. p[j] = b[i]
      BY <1>10, <3>1, Zenon
    <3> QED BY <1>7, <1>9, <3>1, <3>2
  <2>3. CASE \E i \in 1 .. ld : j = 1 + la + lb + i
    <3>1. PICK i \in 1 .. ld : j = 1 + la + lb + i
      BY <2>3
    <3>2. p[j] = d[i]
      BY <1>10, <3>1, Zenon
    <3> QED BY <1>8, <1>9, <3>1, <3>2
  <2> QED BY <1>10, <1>12, <2>1, <2>2, <2>3
<1>13. ASSUME NEW i \in DOMAIN p, NEW j \in DOMAIN p, i < j, p[i] # 0, p[j] # 0,
              L[p[i]].op = "message", L[p[j]].op = "message"
       PROVE  p[i] < p[j]
  <2>1. CASE \E x \in 1 .. lb : j = 1 + la + x /\ p[j] = b[x] /\ b[x] \in P
    <3>1. PICK x \in 1 .. lb : j = 1 + la + x /\ p[j] = b[x]
      BY <2>1
    <3>2. ~\E y \in 1 .. ld : i = 1 + la + lb + y
      BY <1>13, <3>1
    <3>3. PICK y \in 1 .. lb : i = 1 + la + y /\ p[i] = b[y]
      BY <1>12, <1>13, <3>2
    <3>4. y < x
      BY <1>13, <3>1, <3>3
    <3> QED BY <1>7, <1>9, <3>1, <3>3, <3>4
  <2>2. CASE \E x \in 1 .. ld : j = 1 + la + lb + x /\ p[j] = d[x] /\ d[x] \in D
    <3>1. PICK x \in 1 .. ld : j = 1 + la + lb + x /\ p[j] = d[x] /\ d[x] \in D
      BY <2>2
    <3>2. CASE \E y \in 1 .. lb : i = 1 + la + y /\ p[i] = b[y] /\ b[y] \in P
      <4>1. p[i] \in 1 .. m /\ p[j] \in 1 .. n /\ m < p[j]
        BY <1>4, <3>1, <3>2
      <4> QED BY <1>3, <4>1
    <3>3. CASE \E y \in 1 .. ld : i = 1 + la + lb + y /\ p[i] = d[y] /\ d[y] \in D
      <4>1. PICK y \in 1 .. ld : i = 1 + la + lb + y /\ p[i] = d[y]
        BY <3>3
      <4>2. y < x
        BY <1>13, <3>1, <4>1
      <4> QED BY <1>8, <1>9, <3>1, <4>1, <4>2
    <3> QED BY <1>12, <1>13, <3>2, <3>3
  <2> QED BY <1>12, <1>13, <2>1, <2>2
<1>14. ASSUME NEW j \in DOMAIN p, p[j] # 0, L[p[j]].op = "message", NEW k \in C \cup P \cup D, k < p[j]
       PROVE  \E i \in DOMAIN p : i < j /\ p[i] = k
  <2>1. CASE k \in C
    <3>1. PICK x \in 1 .. la : a[x] = k
      BY <1>6, <1>9, <2>1
    <3>2. 1 + x \in DOMAIN p /\ p[1 + x] = k
      BY <1>10, <3>1
    <3>3. 1 + x < j
      BY <1>12, <1>14, <3>1
    <3> QED BY <3>2, <3>3
  <2>2. CASE k \in P
    <3>1. PICK x \in 1 .. lb : b[x] = k
      BY <1>7, <1>9, <2>2
    <3>2. 1 + la + x \in DOMAIN p /\ p[1 + la + x] = k
      BY <1>10, <3>1
    <3>3. CASE \E y \in 1 .. lb : j = 1 + la + y /\ p[j] = b[y] /\ b[y] \in P
      <4>1. PICK y \in 1 .. lb : j = 1 + la + y /\ p[j] = b[y]
        BY <3>3
      <4>2. x # y /\ ~(y < x)
        <5>1. b[x] \in Nat /\ b[y] \in Nat /\ b[x] < b[y]
          BY <1>4, <1>5, <1>9, <1>14, <3>1, <4>1
        <5>2. y < x => b[y] < b[x]
          BY <1>7, <1>9
        <5> QED BY <5>1, <5>2
      <4>3. 1 + la + x < j
        BY <4>1, <4>2
      <4> QED BY <3>2, <4>3
    <3>4. CASE \E y \in 1 .. ld : j = 1 + la + lb + y /\ p[j] = d[y] /\ d[y] \in D
      <4>1. 1 + la + x < j
        BY <3>4
      <4> QED BY <3>2, <4>1
    <3> QED BY <1>12, <1>14, <3>3, <3>4
  <2>3. CASE k \in D
    <3>1. PICK x \in 1 .. ld : d[x] = k
      BY <1>8, <1>9, <2>3
    <3>2. 1 + la + lb + x \in DOMAIN p /\ p[1 + la + lb + x] = k
      BY <1>10, <3>1
    <3>3. ~\E y \in 1 .. lb : j = 1 + la + y /\ p[j] = b[y] /\ b[y] \in P
      <4>1. k \in 1 .. n /\ m < k
        BY <1>4, <2>3
      <4>2. ASSUME p[j] \in P PROVE FALSE
        <5>1. p[j] \in 1 .. m
          BY <1>4, <4>2
        <5> QED BY <1>3, <1>14, <4>1, <5>1
      <4> QED BY <4>2
    <3>4. PICK y \in 1 .. ld : j = 1 + la + lb + y /\ p[j] = d[y]
      BY <1>12, <1>14, <3>3
    <3>5. x # y /\ ~(y < x)
      <4>1. d[x] \in Nat /\ d[y] \in Nat /\ d[x] < d[y]
        BY <1>4, <1>5, <1>9, <1>14, <3>1, <3>4
      <4>2. y < x => d[y] < d[x]
        BY <1>8, <1>9
      <4> QED BY <4>1, <4>2
    <3>6. 1 + la + lb + x < j
      BY <3>4, <3>5
    <3> QED BY <3>2, <3>6
  <2> QED BY <1>14, <2>1, <2>2, <2>3
<1>15. ASSUME NEW j \in DOMAIN p, p[j] # 0, L[p[j]].op = "message" PROVE p[j] \in P \cup D
  BY <1>12, <1>15
<1>16. ASSUME NEW k \in P \cup D PROVE \E j \in DOMAIN p : p[j] = k
  <2>1. CASE k \in P
    <3>1. PICK i \in 1 .. lb : b[i] = k
      BY <1>7, <1>9, <2>1
    <3> QED BY <1>10, <3>1, Zenon
  <2>2. CASE k \in D
    <3>1. PICK i \in 1 .. ld : d[i] = k
      BY <1>8, <1>9, <2>2
    <3> QED BY <1>10, <3>1, Zenon
  <2> QED BY <2>1, <2>2
<1> QED BY <1>1, <1>10, <1>11, <1>13, <1>14, <1>15, <1>16

-----------------------------------------------------------------------------
(* What a reader may conclude                                              *)

Promises(L, r, m) == ChannelsOf(L, r, m) \cup CachedOf(L, r, m) \cup LiveOf(L, r, m)

(* Before a message but /meta a connection is promised the /meta ...       *)
LEMMA MetaPromised ==
  ASSUME NEW L \in Seq(Record), Orderly(L), NEW r, NEW m \in 0 .. Len(L),
         NEW k \in CachedOf(L, r, m) \cup LiveOf(L, r, m), L[k].op = "message", L[k].topic # "/meta"
  PROVE  \E i \in Promises(L, r, m) : i < k /\ IsOn(L, i, "/meta")
<1>1. PICK n : n \in Nat /\ n = Len(L) /\ DOMAIN L = 1 .. n /\ m \in Nat /\ m <= n
  OBVIOUS
<1>2. k \in OfRun(L, r, n) /\ k \in 1 .. n /\ L[k].run = r
  <2>1. OfRun(L, r, m) \subseteq OfRun(L, r, n)
    BY <1>1 DEF OfRun
  <2>2. k \in OfRun(L, r, n)
    BY <1>1, <2>1 DEF CachedOf, LiveOf, OnTopic, Newest, Later
  <2> QED BY <2>2 DEF OfRun
<1>3. PICK i \in Earlier(L, k) : IsOn(L, i, "/meta")
  BY <1>1, <1>2 DEF Orderly, WellPlaced
<1>4. i \in 1 .. n /\ i < k /\ L[i].run = r
  BY <1>1, <1>2 DEF Earlier
<1>5. CASE i <= m
  <2>1. i \in OnTopic(L, r, m, "/meta")
    BY <1>1, <1>3, <1>4, <1>5 DEF OnTopic, OfRun
  <2>2. ASSUME NEW h \in OnTopic(L, r, m, "/meta") PROVE h <= i
    <3>1. h \in 1 .. n /\ L[h].run = r /\ IsOn(L, h, "/meta")
      BY <1>1 DEF OnTopic, OfRun
    <3>2. \A g \in Earlier(L, h) : L[g].op = "channel"
      BY <1>1, <3>1 DEF Orderly, WellPlaced, IsOn
    <3>3. i \notin Earlier(L, h)
      BY <1>3, <3>2 DEF IsOn
    <3> QED BY <1>1, <1>4, <3>1, <3>3 DEF Earlier
  <2>3. i \in CachedOf(L, r, m)
    BY <2>1, <2>2 DEF CachedOf, Newest
  <2> QED BY <1>3, <1>4, <2>3 DEF Promises
<1>6. CASE ~(i <= m)
  <2>1. i \in LiveOf(L, r, m)
    BY <1>1, <1>4, <1>6 DEF LiveOf, OfRun
  <2> QED BY <1>3, <1>4, <2>1 DEF Promises
<1> QED BY <1>5, <1>6

(* ... and before a /route or a /state the /episode it comes after.        *)
LEMMA EpisodePromised ==
  ASSUME NEW L \in Seq(Record), Orderly(L), NEW r, NEW m \in 0 .. Len(L),
         NEW k \in CachedOf(L, r, m) \cup LiveOf(L, r, m), L[k].op = "message", L[k].topic \in {"/route", "/state"}
  PROVE  \E e \in Promises(L, r, m) : e \in Earlier(L, k) /\ Opens(L, e, k)
<1>1. PICK n : n \in Nat /\ n = Len(L) /\ DOMAIN L = 1 .. n /\ m \in Nat /\ m <= n
  OBVIOUS
<1>2. k \in OfRun(L, r, n) /\ k \in 1 .. n /\ L[k].run = r
  <2>1. OfRun(L, r, m) \subseteq OfRun(L, r, n)
    BY <1>1 DEF OfRun
  <2>2. k \in OfRun(L, r, n)
    BY <1>1, <2>1 DEF CachedOf, LiveOf, OnTopic, Newest, Later
  <2> QED BY <2>2 DEF OfRun
<1>3. PICK e \in Earlier(L, k) : Opens(L, e, k)
  BY <1>1, <1>2 DEF Orderly, WellPlaced
<1>4. e \in 1 .. n /\ e < k /\ L[e].run = r /\ IsOn(L, e, "/episode")
  BY <1>1, <1>2, <1>3 DEF Earlier, Opens
<1>5. CASE e <= m
  <2>1. e \in OnTopic(L, r, m, "/episode")
    BY <1>1, <1>4, <1>5 DEF OnTopic, OfRun
  <2>2. ASSUME NEW h \in OnTopic(L, r, m, "/episode") PROVE h <= e
    <3>1. h \in 1 .. m /\ h \in 1 .. n /\ L[h].run = r /\ IsOn(L, h, "/episode")
      BY <1>1 DEF OnTopic, OfRun
    <3>2. h < k
      <4>1. CASE k \in LiveOf(L, r, m)
        BY <1>1, <3>1, <4>1 DEF LiveOf, OfRun
      <4>2. CASE k \in CachedOf(L, r, m)
        BY <4>2 DEF CachedOf, OnTopic, Newest, Later, IsOn
      <4> QED BY <4>1, <4>2
    <3>3. h \in Earlier(L, k)
      BY <1>1, <1>2, <3>1, <3>2 DEF Earlier
    <3> QED BY <1>3, <3>1, <3>3 DEF Opens
  <2>3. ASSUME NEW h \in OnTopic(L, r, m, "/meta") PROVE h < e
    <3>1. h \in 1 .. n /\ L[h].run = r /\ IsOn(L, h, "/meta")
      BY <1>1 DEF OnTopic, OfRun
    <3>2. \A g \in Earlier(L, h) : L[g].op = "channel"
      BY <1>1, <3>1 DEF Orderly, WellPlaced, IsOn
    <3>3. e \notin Earlier(L, h) /\ e # h
      BY <1>4, <3>1, <3>2 DEF IsOn
    <3> QED BY <1>1, <1>4, <3>1, <3>3 DEF Earlier
  <2>4. e \in CachedOf(L, r, m)
    BY <2>1, <2>2, <2>3 DEF CachedOf, Newest, Later
  <2> QED BY <1>3, <2>4 DEF Promises
<1>6. CASE ~(e <= m)
  <2>1. e \in LiveOf(L, r, m)
    BY <1>1, <1>4, <1>6 DEF LiveOf, OfRun
  <2> QED BY <1>3, <2>1 DEF Promises
<1> QED BY <1>5, <1>6

(* Position i of what a connection is given is a message.                  *)
Sent(L, p, i) == p[i] # 0 /\ L[p[i]].op = "message"

(* Before a message a connection is promised a channel for it.             *)
LEMMA ChannelPromised ==
  ASSUME NEW L \in Seq(Record), Orderly(L), NEW r, NEW m \in 0 .. Len(L),
         NEW k \in OfRun(L, r, Len(L)), L[k].op = "message"
  PROVE  \E i \in Promises(L, r, m) :
           i < k /\ L[i].op = "channel" /\ (L[i].topic = "/state" <=> L[k].topic = "/state")
<1>1. PICK n : n \in Nat /\ n = Len(L) /\ DOMAIN L = 1 .. n /\ m \in Nat /\ m <= n
  OBVIOUS
<1>2. k \in 1 .. n /\ L[k].run = r
  BY <1>1 DEF OfRun
<1>3. PICK i \in Earlier(L, k) : L[i].op = "channel" /\ (L[i].topic = "/state" <=> L[k].topic = "/state")
  BY <1>1, <1>2 DEF Orderly, WellPlaced
<1>4. i \in 1 .. n /\ i < k /\ L[i].run = r
  BY <1>1, <1>2 DEF Earlier
<1>5. i \in ChannelsOf(L, r, m) \/ i \in LiveOf(L, r, m)
  BY <1>1, <1>3, <1>4 DEF ChannelsOf, LiveOf, OfRun
<1> QED BY <1>3, <1>4, <1>5 DEF Promises

(* What a reader has read before position j, but for the header.           *)
ReadBefore(g, j) == {g[h] : h \in 1 .. (j - 1)} \ {0}

(* A reader of the beginning g of what was promised finds, before each     *)
(* message, its channel ...                                                *)
LEMMA ChannelRead ==
  ASSUME NEW L \in Seq(Record), Orderly(L), NEW r, NEW m \in 0 .. Len(L), NEW p, p = Promised(L, r, m),
         NEW g \in Seq(Nat), IsPrefix(g, p), NEW j \in DOMAIN g, Sent(L, g, j)
  PROVE  \E k \in ReadBefore(g, j) :
           L[k].op = "channel" /\ (L[k].topic = "/state" <=> L[g[j]].topic = "/state")
<1>1. p \in Seq(Nat)
  BY PromisedOrder
<1>2. j \in Nat /\ \A h \in 1 .. j : h \in DOMAIN p /\ h \in Nat /\ p[h] = g[h]
  BY <1>1, PrefixPlaces
<1>3. j \in DOMAIN p /\ p[j] = g[j] /\ Sent(L, p, j)
  BY <1>2 DEF Sent
<1>4. p[j] \in OfRun(L, r, Len(L)) /\ L[p[j]].op = "message"
  BY <1>3, PromisedOrder DEF Sent
<1>5. PICK k \in Promises(L, r, m) :
        k < p[j] /\ L[k].op = "channel" /\ (L[k].topic = "/state" <=> L[p[j]].topic = "/state")
  BY <1>4, ChannelPromised
<1>6. PICK i \in DOMAIN p : i < j /\ p[i] = k
  BY <1>3, <1>5, PromisedOrder DEF Promises, Sent
<1>7. k # 0
  BY <1>5, PromisedSets DEF Promises
<1>8. i \in 1 .. (j - 1) /\ i \in 1 .. j
  BY <1>1, <1>2, <1>6
<1> QED BY <1>2, <1>3, <1>5, <1>6, <1>7, <1>8 DEF ReadBefore

(* ... and before a /route or a /state the newest /episode it has read is  *)
(* that message's.                                                         *)
LEMMA EpisodeRead ==
  ASSUME NEW L \in Seq(Record), Orderly(L), NEW r, NEW m \in 0 .. Len(L), NEW p, p = Promised(L, r, m),
         NEW g \in Seq(Nat), IsPrefix(g, p), NEW j \in DOMAIN g, Sent(L, g, j),
         L[g[j]].topic \in {"/route", "/state"}
  PROVE  \E k \in ReadBefore(g, j) :
           /\ IsOn(L, k, "/episode") /\ L[k].run = L[g[j]].run /\ L[k].episode = L[g[j]].episode /\ k \in DOMAIN L
           /\ \A h \in ReadBefore(g, j) : L[h].topic = "/episode" => h <= k
<1>1. p \in Seq(Nat)
  BY PromisedOrder
<1>2. j \in Nat /\ \A h \in 1 .. j : h \in DOMAIN p /\ h \in Nat /\ p[h] = g[h]
  BY <1>1, PrefixPlaces
<1>3. j \in DOMAIN p /\ p[j] = g[j] /\ Sent(L, p, j)
  BY <1>2 DEF Sent
<1>4. PICK b : b = g[j]
  OBVIOUS
<1>5. /\ b = p[j] /\ b # 0 /\ L[b].op = "message" /\ b \in OfRun(L, r, Len(L))
      /\ b \in CachedOf(L, r, m) \cup LiveOf(L, r, m)
  BY <1>3, <1>4, PromisedOrder DEF Sent
<1>6. PICK k \in Promises(L, r, m) : k \in Earlier(L, b) /\ Opens(L, k, b)
  BY <1>4, <1>5, EpisodePromised
<1>7. b \in DOMAIN L /\ L[b].run = r
  BY <1>5 DEF OfRun
<1>8. k \in DOMAIN L /\ k < b /\ k # 0 /\ L[k].run = L[b].run
  BY <1>6, <1>7 DEF Earlier
<1>9. PICK i \in DOMAIN p : i < j /\ p[i] = k
  BY <1>3, <1>5, <1>6, <1>8, PromisedOrder DEF Promises
<1>10. k \in ReadBefore(g, j)
  <2>1. i \in 1 .. (j - 1) /\ i \in 1 .. j
    BY <1>1, <1>2, <1>9
  <2> QED BY <1>2, <1>8, <1>9, <2>1 DEF ReadBefore
<1>11. ASSUME NEW h \in ReadBefore(g, j), L[h].topic = "/episode" PROVE h <= k
  <2>1. PICK a \in 1 .. (j - 1) : h = g[a] /\ h # 0
    BY <1>11 DEF ReadBefore
  <2>2. a < j /\ a \in DOMAIN p /\ p[a] = h
    BY <1>2, <2>1
  <2>3. h \in OfRun(L, r, Len(L))
    BY <2>1, <2>2, PromisedOrder
  <2>4. h \in DOMAIN L /\ L[h].run = r
    BY <2>3 DEF OfRun
  <2>5. L[h].op = "message"
    <3>1. L[h].op \in {"channel", "message"}
      <4>1. L[h] \in Record
        BY <2>4
      <4> QED BY <4>1 DEF Record
    <3>2. WellPlaced(L, h)
      BY <2>4 DEF Orderly
    <3> QED BY <1>11, <3>1, <3>2 DEF WellPlaced
  <2>6. h < b
    <3>1. p[a] # 0 /\ p[j] # 0 /\ L[p[a]].op = "message" /\ L[p[j]].op = "message"
      BY <1>5, <2>1, <2>2, <2>5
    <3>2. p[a] < p[j]
      BY <1>3, <2>2, <3>1, PromisedOrder
    <3> QED BY <1>5, <2>2, <3>2
  <2>7. h \in Earlier(L, b)
    BY <1>7, <2>4, <2>6 DEF Earlier
  <2> QED BY <1>6, <1>11, <2>5, <2>7 DEF Opens, IsOn
<1> QED BY <1>4, <1>6, <1>8, <1>10, <1>11 DEF Opens, SameEpisode

(* The first message is /meta ...                                          *)
LEMMA FirstSent ==
  ASSUME NEW L \in Seq(Record), Orderly(L), NEW r, NEW m \in 0 .. Len(L), NEW p, p = Promised(L, r, m),
         NEW j \in DOMAIN p, Sent(L, p, j), \A i \in DOMAIN p : i < j => ~Sent(L, p, i)
  PROVE  L[p[j]].topic = "/meta"
<1> SUFFICES ASSUME L[p[j]].topic # "/meta" PROVE FALSE
  OBVIOUS
<1>1. p[j] \in CachedOf(L, r, m) \cup LiveOf(L, r, m) /\ L[p[j]].op = "message"
  BY PromisedOrder DEF Sent
<1>2. PICK k \in Promises(L, r, m) : k < p[j] /\ IsOn(L, k, "/meta")
  BY <1>1, MetaPromised
<1>3. PICK i \in DOMAIN p : i < j /\ p[i] = k
  BY <1>2, PromisedOrder DEF Promises, Sent
<1>4. k # 0
  BY <1>2, PromisedSets DEF Promises
<1> QED BY <1>2, <1>3, <1>4 DEF Sent, IsOn

(* ... and of two messages in turn the second opens an episode or belongs  *)
(* to that of the first.                                                   *)
LEMMA NextSent ==
  ASSUME NEW L \in Seq(Record), Orderly(L), NEW r, NEW m \in 0 .. Len(L), NEW p, p = Promised(L, r, m),
         NEW i \in DOMAIN p, NEW j \in DOMAIN p, i < j, Sent(L, p, i), Sent(L, p, j),
         \A h \in DOMAIN p : i < h /\ h < j => ~Sent(L, p, h)
  PROVE  /\ L[p[i]].run = L[p[j]].run
         /\ L[p[j]].topic = "/episode" \/ (L[p[i]].topic # "/meta" /\ SameEpisode(L[p[i]], L[p[j]]))
<1>1. PICK a, b : a = p[i] /\ b = p[j]
  OBVIOUS
<1>2. PICK n : n \in Nat /\ n = Len(L) /\ DOMAIN L = 1 .. n
  OBVIOUS
<1>3. /\ a < b /\ a \in 1 .. n /\ b \in 1 .. n /\ L[a].run = r /\ L[b].run = r
      /\ L[a].op = "message" /\ L[b].op = "message" /\ WellPlaced(L, a) /\ WellPlaced(L, b)
  <2>1. a \in OfRun(L, r, n) /\ b \in OfRun(L, r, n)
    BY <1>1, <1>2, PromisedOrder DEF Sent
  <2>2. a < b
    BY <1>1, PromisedOrder DEF Sent
  <2> QED BY <1>1, <1>2, <2>1, <2>2 DEF OfRun, Sent, Orderly
<1>4. a \in Earlier(L, b)
  BY <1>3 DEF Earlier
<1>5. L[b].topic # "/meta"
  BY <1>3, <1>4 DEF WellPlaced
<1>6. L[a].topic \in Topics /\ L[b].topic \in Topics
  <2>1. \A h \in DOMAIN L : L[h] \in Record
    OBVIOUS
  <2>2. L[a] \in Record /\ L[b] \in Record
    BY <1>2, <1>3, <2>1
  <2> QED BY <2>2 DEF Record
<1>7. CASE L[b].topic \in {"/route", "/state"}
  <2>1. b \in CachedOf(L, r, m) \cup LiveOf(L, r, m)
    BY <1>1, PromisedOrder DEF Sent
  <2>2. PICK e \in Promises(L, r, m) : e \in Earlier(L, b) /\ Opens(L, e, b)
    BY <1>3, <1>7, <2>1, EpisodePromised
  <2>3. e \in 1 .. n /\ e < b /\ L[e].run = r /\ IsOn(L, e, "/episode") /\ SameEpisode(L[e], L[b])
    BY <1>2, <1>3, <2>2 DEF Earlier, Opens
  <2>4. PICK h \in DOMAIN p : h < j /\ p[h] = e
    BY <1>1, <2>2, <2>3, PromisedOrder DEF Promises, Sent
  <2>5. Sent(L, p, h) /\ ~(i < h) /\ i \in Nat /\ h \in Nat
    BY <2>3, <2>4, PromisedOrder DEF Sent, IsOn
  <2>6. e = a \/ e < a
    <3>1. CASE h = i
      BY <1>1, <2>4, <3>1
    <3>2. CASE h < i
      BY <1>1, <2>4, <2>5, <3>2, PromisedOrder DEF Sent
    <3> QED BY <2>5, <3>1, <3>2
  <2>7. CASE e = a
    BY <1>1, <1>3, <2>3, <2>7 DEF IsOn
  <2>8. CASE e < a
    <3>1. e \in Earlier(L, a)
      BY <1>3, <2>3, <2>8 DEF Earlier
    <3>2. L[a].topic # "/meta"
      BY <1>3, <2>3, <3>1 DEF WellPlaced, IsOn
    <3>3. L[a].topic # "/episode"
      BY <1>3, <1>4, <2>2, <2>3, <2>8 DEF Opens, IsOn
    <3>4. L[a].topic \in {"/route", "/state"}
      BY <1>6, <3>2, <3>3 DEF Topics
    <3>5. PICK f \in Earlier(L, a) : Opens(L, f, a)
      BY <1>3, <3>4 DEF WellPlaced
    <3>6. f \in 1 .. n /\ f < a /\ L[f].run = r /\ IsOn(L, f, "/episode") /\ SameEpisode(L[f], L[a]) /\ e <= f
      <4>1. f \in 1 .. (a - 1) /\ L[f].run = r /\ IsOn(L, f, "/episode") /\ SameEpisode(L[f], L[a])
        BY <1>3, <3>5 DEF Earlier, Opens
      <4>2. e <= f
        BY <2>3, <3>1, <3>5 DEF Opens
      <4> QED BY <1>2, <1>3, <4>1, <4>2
    <3>7. f \in Earlier(L, b)
      BY <1>3, <3>6 DEF Earlier
    <3>8. f <= e
      BY <2>2, <3>6, <3>7 DEF Opens
    <3>9. f = e
      BY <2>3, <3>6, <3>8
    <3> QED BY <1>1, <1>3, <2>3, <3>2, <3>6, <3>9 DEF SameEpisode
  <2> QED BY <2>6, <2>7, <2>8
<1> QED BY <1>1, <1>3, <1>5, <1>6, <1>7 DEF Topics

(* A record that says which route the recorded agent has.                  *)
Routing(L, i) == IsOn(L, i, "/episode") \/ IsOn(L, i, "/route")

(* Between a and b nothing of b's run does.                                *)
Between(L, a, b) == a < b /\ \A h \in Earlier(L, b) : Routing(L, h) => h <= a

(* Of two messages in turn, the second of no route, all the records of one *)
(* before the second come before the first, sent or superseded.            *)
LEMMA StateSent ==
  ASSUME NEW L \in Seq(Record), Orderly(L), NEW r, NEW m \in 0 .. Len(L), NEW p, p = Promised(L, r, m),
         NEW i \in DOMAIN p, NEW j \in DOMAIN p, i < j, Sent(L, p, i), Sent(L, p, j),
         \A h \in DOMAIN p : i < h /\ h < j => ~Sent(L, p, h),
         L[p[j]].topic \notin {"/episode", "/route"}
  PROVE  Between(L, p[i], p[j])
<1>1. PICK a, b : a = p[i] /\ b = p[j]
  OBVIOUS
<1>2. PICK n : n \in Nat /\ n = Len(L) /\ DOMAIN L = 1 .. n /\ m \in Nat /\ m <= n
  OBVIOUS
<1>3. /\ a < b /\ a \in 1 .. n /\ b \in 1 .. n /\ L[b].run = r
      /\ L[a].op = "message" /\ L[b].op = "message" /\ L[b].topic = "/state"
  <2>1. a \in OfRun(L, r, n) /\ b \in OfRun(L, r, n)
    BY <1>1, <1>2, PromisedOrder DEF Sent
  <2>2. a < b
    BY <1>1, PromisedOrder DEF Sent
  <2>3. /\ a \in 1 .. n /\ b \in 1 .. n /\ L[a].run = r /\ L[b].run = r
        /\ L[a].op = "message" /\ L[b].op = "message"
    BY <1>1, <1>2, <2>1 DEF OfRun, Sent
  <2>4. L[b].topic # "/meta"
    <3>1. a \in Earlier(L, b) /\ WellPlaced(L, b)
      BY <1>2, <2>2, <2>3 DEF Earlier, Orderly
    <3> QED BY <2>3, <3>1 DEF WellPlaced
  <2>5. L[b].topic \in Topics
    <3>1. L[b] \in Record
      BY <1>2, <2>3
    <3> QED BY <3>1 DEF Record
  <2> QED BY <1>1, <2>2, <2>3, <2>4, <2>5 DEF Topics
<1>4. b \in LiveOf(L, r, m) /\ m < b
  <2>1. b \in CachedOf(L, r, m) \cup LiveOf(L, r, m)
    BY <1>1, PromisedOrder DEF Sent
  <2>2. b \notin CachedOf(L, r, m)
    BY <1>3 DEF CachedOf, Newest, Later, OnTopic, IsOn
  <2> QED BY <1>2, <2>1, <2>2 DEF LiveOf, OfRun
(* A message promised before b was sent with a or before.                  *)
<1>5. ASSUME NEW h \in Promises(L, r, m), h < b, h \in 1 .. n, L[h].op = "message" PROVE h <= a
  <2>1. PICK g \in DOMAIN p : g < j /\ p[g] = h
    BY <1>1, <1>5, PromisedOrder DEF Promises, Sent
  <2>2. Sent(L, p, g) /\ ~(i < g) /\ i \in Nat /\ g \in Nat
    BY <1>5, <2>1, PromisedOrder DEF Sent
  <2>3. CASE g = i
    BY <1>1, <1>3, <2>1, <2>3
  <2>4. CASE g < i
    <3>1. /\ g \in DOMAIN p /\ i \in DOMAIN p /\ p[g] # 0 /\ p[i] # 0
          /\ L[p[g]].op = "message" /\ L[p[i]].op = "message"
      BY <2>1, <2>2 DEF Sent
    <3>2. p[g] < p[i]
      BY <2>4, <3>1, PromisedOrder
    <3> QED BY <1>1, <1>3, <1>5, <2>1, <3>2
  <2> QED BY <2>2, <2>3, <2>4
<1>6. PICK e \in Promises(L, r, m) : e \in Earlier(L, b) /\ Opens(L, e, b)
  BY <1>3, <1>4, EpisodePromised
<1>7. e \in 1 .. n /\ e < b /\ IsOn(L, e, "/episode") /\ e <= a
  <2>1. e \in 1 .. n /\ e < b /\ IsOn(L, e, "/episode")
    BY <1>2, <1>3, <1>6 DEF Earlier, Opens
  <2> QED BY <1>5, <2>1 DEF IsOn
<1>8. ASSUME NEW h \in Earlier(L, b), Routing(L, h) PROVE h <= a
  <2>1. h \in 1 .. n /\ h < b /\ L[h].run = r
    BY <1>2, <1>3 DEF Earlier
  <2>2. CASE h <= e
    BY <1>3, <1>7, <2>1, <2>2
  <2>3. CASE e < h
    <3>1. IsOn(L, h, "/route")
      BY <1>6, <1>7, <1>8, <2>1, <2>3 DEF Opens, Routing
    <3>2. CASE m < h
      <4>1. h \in LiveOf(L, r, m)
        BY <1>2, <2>1, <3>2 DEF LiveOf, OfRun
      <4> QED BY <1>5, <2>1, <3>1, <4>1 DEF Promises, IsOn
    <3>3. CASE h <= m
      <4>1. h \in OnTopic(L, r, m, "/route")
        BY <1>2, <2>1, <3>1, <3>3 DEF OnTopic, OfRun
      <4>2. ASSUME NEW g \in OnTopic(L, r, m, "/episode") PROVE g < h
        <5>1. g \in 1 .. m /\ L[g].run = r /\ IsOn(L, g, "/episode")
          BY <1>2 DEF OnTopic, OfRun
        <5>2. g \in Earlier(L, b)
          BY <1>2, <1>3, <1>4, <5>1 DEF Earlier
        <5> QED BY <1>6, <1>7, <2>1, <2>3, <5>1, <5>2 DEF Opens
      <4>3. ASSUME NEW g \in OnTopic(L, r, m, "/meta") PROVE g < h
        <5>1. g \in 1 .. n /\ L[g].run = r /\ IsOn(L, g, "/meta")
          BY <1>2 DEF OnTopic, OfRun
        <5>2. \A f \in Earlier(L, g) : L[f].op = "channel"
          BY <1>2, <5>1 DEF Orderly, WellPlaced, IsOn
        <5>3. h \notin Earlier(L, g) /\ h # g
          BY <3>1, <5>1, <5>2 DEF IsOn
        <5> QED BY <1>2, <2>1, <5>1, <5>3 DEF Earlier
      <4>4. h \in CachedOf(L, r, m)
        BY <4>1, <4>2, <4>3 DEF CachedOf, Later
      <4> QED BY <1>5, <2>1, <3>1, <4>4 DEF Promises, IsOn
    <3> QED BY <1>2, <2>1, <3>2, <3>3
  <2> QED BY <1>7, <2>1, <2>2, <2>3
<1> QED BY <1>1, <1>3, <1>8 DEF Between

LEMMA RunOfOneScenario ==
  ASSUME NEW L \in Seq(Record), Orderly(L), NEW i \in DOMAIN L, NEW k \in DOMAIN L, L[i].run = L[k].run
  PROVE  L[i].scenario = L[k].scenario
<1>1. i \in Nat /\ k \in Nat /\ i \in DOMAIN L /\ i # 0 /\ k # 0
  OBVIOUS
<1>2. i \in Earlier(L, k) \/ k \in Earlier(L, i) \/ i = k
  BY <1>1 DEF Earlier
<1> QED BY <1>2 DEF Orderly, WellPlaced

=============================================================================
