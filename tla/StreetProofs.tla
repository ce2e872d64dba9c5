----------------------------- MODULE StreetProofs ------------------------------
(***************************************************************************)
(* What is proved of the street (module Simulation): of the signals that   *)
(* SignalController::build makes of any junction, of the crowd, of the     *)
(* followed vehicle's track, of the bus on its line and of the drivers at  *)
(* the junction's lights.                                                  *)
(*                                                                         *)
(* The phases are made by folds, so first come what sums and folds over    *)
(* sequences are, then what a pass, a group and the plan of all groups are *)
(* made of, when the phases run, and what lights and walk lights show.     *)
(***************************************************************************)
EXTENDS Simulation, TLAPS, FiniteSetTheorems, WellFoundedInduction

-----------------------------------------------------------------------------
(* Sums and folds over sets                                                *)

(* The order of the induction.                                             *)
Less == {ss \in Nat \X Nat : ss[1] < ss[2]}

(* A set that holds 0 and with each number the next holds all.             *)
LEMMA Induction ==
  ASSUME NEW T, 0 \in T, \A n \in Nat : n \in T => n + 1 \in T
  PROVE  \A n \in Nat : n \in T
<1> DEFINE U == Nat \ T
<1>1. SUFFICES ASSUME U # {} PROVE FALSE
  OBVIOUS
<1>2. IsWellFoundedOn(Less, Nat)
  BY NatLessThanWellFounded DEF OpToRel, Less
<1>3. PICK x \in U : \A y \in U : ~(<<y, x>> \in Less)
  BY <1>1, <1>2, WFMin
<1>4. x \in Nat /\ x # 0 /\ x - 1 \in Nat /\ (x - 1) + 1 = x /\ x - 1 < x
  BY <1>3
<1>5. <<x - 1, x>> \in Less
  BY <1>4 DEF Less
<1> QED BY <1>3, <1>4, <1>5

(* The function by which a fold over the subsets of S is defined.          *)
Folding(g, F, base, s, pick, D, A) ==
  /\ g \in [D -> A]
  /\ \A T \in D : g[T] = IF T = {} THEN base ELSE F[<<s[pick[T]], g[T \ {pick[T]}]>>]

(* And one of which it is known only as far as it is of type A.             *)
FoldRule(h, F, base, s, pick, S, A) ==
  /\ h[{}] = base
  /\ \A T \in SUBSET S : T # {} /\ h[T \ {pick[T]}] \in A
       => h[T] = F[<<s[pick[T]], h[T \ {pick[T]}]>>]

Picks(pick, S) == \A T \in SUBSET S : T # {} => pick[T] \in T

LEMMA FoldingExists ==
  ASSUME NEW A, NEW B, NEW base \in A, NEW F \in [B \X A -> A],
         NEW S, IsFiniteSet(S), NEW s \in [S -> B],
         NEW pick, Picks(pick, S)
  PROVE  \E g : Folding(g, F, base, s, pick, SUBSET S, A)
<1> DEFINE Small(m) == {T \in SUBSET S : Cardinality(T) <= m}
           U == {m \in Nat : \E g : Folding(g, F, base, s, pick, Small(m), A)}
<1>0. \A T \in SUBSET S : IsFiniteSet(T) /\ Cardinality(T) \in Nat
  BY FS_Subset, FS_CardinalityType
<1>1. 0 \in U
  <2>1. ASSUME NEW T \in Small(0) PROVE T = {}
    BY <1>0, <2>1, FS_EmptySet
  <2>2. Folding([T \in Small(0) |-> base], F, base, s, pick, Small(0), A)
    BY <2>1 DEF Folding
  <2> QED BY <2>2
<1>2. ASSUME NEW m \in Nat, m \in U PROVE m + 1 \in U
  <2>1. PICK g : Folding(g, F, base, s, pick, Small(m), A)
    BY <1>2
  <2> DEFINE val(T) == IF T = {} THEN base ELSE F[<<s[pick[T]], g[T \ {pick[T]}]>>]
             h == [T \in Small(m + 1) |-> val(T)]
  <2>2. ASSUME NEW T \in Small(m + 1), T # {}
        PROVE  T \ {pick[T]} \in Small(m) /\ pick[T] \in S
    <3>1. pick[T] \in T
      BY <2>2 DEF Picks
    <3>2. Cardinality(T \ {pick[T]}) = Cardinality(T) - 1
      BY <3>1, <1>0, FS_RemoveElement
    <3> QED BY <3>1, <3>2, <1>0
  <2>3. ASSUME NEW T \in Small(m + 1) PROVE val(T) \in A
    <3>1. CASE T # {}
      <4>1. g[T \ {pick[T]}] \in A /\ s[pick[T]] \in B
        BY <2>1, <2>2, <3>1 DEF Folding
      <4> QED BY <4>1, <3>1
    <3> QED BY <3>1
  <2>4. ASSUME NEW T \in Small(m) PROVE T \in Small(m + 1) /\ h[T] = g[T]
    <3>1. T \in Small(m + 1)
      BY <1>0
    <3> QED BY <3>1, <2>1 DEF Folding
  <2>5. ASSUME NEW T \in Small(m + 1)
        PROVE  h[T] = IF T = {} THEN base ELSE F[<<s[pick[T]], h[T \ {pick[T]}]>>]
    BY <2>2, <2>4
  <2>6. h \in [Small(m + 1) -> A]
    BY <2>3
  <2>7. Folding(h, F, base, s, pick, Small(m + 1), A)
    BY <2>5, <2>6 DEF Folding
  <2> HIDE DEF h, Small
  <2> QED BY <2>7
<1> HIDE DEF U
<1>3. Cardinality(S) \in U
  BY <1>0, <1>1, <1>2, Induction
<1>4. Small(Cardinality(S)) = SUBSET S
  BY FS_Subset
<1>5. PICK g : Folding(g, F, base, s, pick, Small(Cardinality(S)), A)
  BY <1>3 DEF U
<1> HIDE DEF Small
<1> QED BY <1>4, <1>5

LEMMA FoldingOnly ==
  ASSUME NEW A, NEW B, NEW base \in A, NEW F \in [B \X A -> A],
         NEW S, IsFiniteSet(S), NEW s \in [S -> B],
         NEW pick, Picks(pick, S),
         NEW g, Folding(g, F, base, s, pick, SUBSET S, A),
         NEW h, FoldRule(h, F, base, s, pick, S, A)
  PROVE  \A T \in SUBSET S : h[T] = g[T] /\ h[T] \in A
<1> DEFINE U == {m \in Nat : \A T \in SUBSET S : Cardinality(T) <= m => h[T] = g[T]}
<1>0. \A T \in SUBSET S : IsFiniteSet(T) /\ Cardinality(T) \in Nat /\ g[T] \in A
  BY FS_Subset, FS_CardinalityType DEF Folding
<1>1. 0 \in U
  <2>1. \A T \in SUBSET S : Cardinality(T) <= 0 => T = {}
    BY <1>0, FS_EmptySet
  <2>2. g[{}] = base /\ h[{}] = base
    BY DEF Folding, FoldRule
  <2> QED BY <2>1, <2>2
<1>2. ASSUME NEW m \in Nat, m \in U PROVE m + 1 \in U
  <2>0. h[{}] = g[{}]
    BY DEF Folding, FoldRule
  <2>1. ASSUME NEW T \in SUBSET S, Cardinality(T) <= m + 1, T # {} PROVE h[T] = g[T]
    <3>1. pick[T] \in T /\ T \ {pick[T]} \in SUBSET S
      BY <2>1 DEF Picks
    <3>2. Cardinality(T \ {pick[T]}) = Cardinality(T) - 1
      BY <3>1, <1>0, FS_RemoveElement
    <3>3. h[T \ {pick[T]}] = g[T \ {pick[T]}]
      BY <1>0, <1>2, <2>1, <3>1, <3>2
    <3>4. h[T] = F[<<s[pick[T]], h[T \ {pick[T]}]>>]
      BY <2>1, <3>1, <3>3, <1>0 DEF FoldRule
    <3>5. g[T] = F[<<s[pick[T]], g[T \ {pick[T]}]>>]
      BY <2>1 DEF Folding
    <3> QED BY <3>3, <3>4, <3>5
  <2>2. \A T \in SUBSET S : Cardinality(T) <= m + 1 => h[T] = g[T]
    BY <2>0, <2>1
  <2> QED BY <2>2
<1> HIDE DEF U
<1>3. ASSUME NEW T \in SUBSET S PROVE h[T] = g[T]
  <2>1. Cardinality(T) \in U /\ Cardinality(T) <= Cardinality(T)
    BY <1>0, <1>1, <1>2, Induction
  <2> QED BY <2>1 DEF U
<1> QED BY <1>0, <1>3

-----------------------------------------------------------------------------
(* Starts of phases                                                        *)

SpansOK(ps) == DOMAIN ps = 1 .. Len(ps) /\ Len(ps) \in Nat /\ \A k \in DOMAIN ps : Span(ps[k]) \in Nat

(* g sums the spans of any of the phases of S.                             *)
Sums(g, ps, S) ==
  /\ g \in [SUBSET S -> Nat] /\ g[{}] = 0
  /\ \A T \in SUBSET S : \A x \in T : g[T] = Span(ps[x]) + g[T \ {x}]

(* In whatever order they are added.                                       *)
LEMMA AnyOrder ==
  ASSUME NEW ps, NEW S, IsFiniteSet(S), NEW g \in [SUBSET S -> Nat], g[{}] = 0,
         \A k \in S : Span(ps[k]) \in Nat,
         \A T \in SUBSET S : T # {} => \E x \in T : g[T] = Span(ps[x]) + g[T \ {x}]
  PROVE  Sums(g, ps, S)
<1> DEFINE P(T) == \A x \in T : g[T] = Span(ps[x]) + g[T \ {x}]
           U == {m \in Nat : \A T \in SUBSET S : Cardinality(T) <= m => P(T)}
<1>0. \A T \in SUBSET S : IsFiniteSet(T) /\ Cardinality(T) \in Nat
  BY FS_Subset, FS_CardinalityType
<1>1. 0 \in U
  <2>1. \A T \in SUBSET S : Cardinality(T) <= 0 => T = {}
    BY <1>0, FS_EmptySet
  <2> QED BY <2>1
<1>2. ASSUME NEW m \in Nat, m \in U PROVE m + 1 \in U
  <2>1. ASSUME NEW T \in SUBSET S, Cardinality(T) <= m + 1, NEW x \in T
        PROVE  g[T] = Span(ps[x]) + g[T \ {x}]
    <3>0. IsFiniteSet(T) /\ Cardinality(T) \in Nat
      BY <1>0
    <3>1. PICK y \in T : g[T] = Span(ps[y]) + g[T \ {y}]
      BY <2>1
    <3>2. CASE x = y
      BY <3>1, <3>2
    <3>3. CASE x # y
      <4>1. Cardinality(T \ {x}) = Cardinality(T) - 1 /\ Cardinality(T \ {y}) = Cardinality(T) - 1
        BY <3>0, FS_RemoveElement
      <4>2. T \ {x} \in SUBSET S /\ T \ {y} \in SUBSET S /\ x \in T \ {y} /\ y \in T \ {x}
        BY <3>3
      <4>3. Cardinality(T \ {x}) <= m /\ Cardinality(T \ {y}) <= m
        BY <2>1, <3>0, <4>1
      <4>4. g[T \ {y}] = Span(ps[x]) + g[(T \ {y}) \ {x}]
        BY <1>2, <4>2, <4>3
      <4>5. g[T \ {x}] = Span(ps[y]) + g[(T \ {x}) \ {y}]
        BY <1>2, <4>2, <4>3
      <4>6. (T \ {y}) \ {x} = (T \ {x}) \ {y} /\ (T \ {x}) \ {y} \in SUBSET S
        OBVIOUS
      <4> DEFINE r == g[(T \ {x}) \ {y}]
                 sx == Span(ps[x])
                 sy == Span(ps[y])
      <4>7. g[T \ {y}] = sx + r /\ g[T \ {x}] = sy + r /\ g[T] = sy + g[T \ {y}]
        BY <3>1, <4>4, <4>5, <4>6
      <4>8. r \in Nat /\ sx \in Nat /\ sy \in Nat
        BY <4>6
      <4> HIDE DEF r, sx, sy
      <4>9. g[T] = sx + g[T \ {x}]
        BY <4>7, <4>8
      <4> QED BY <4>9 DEF sx
    <3> QED BY <3>2, <3>3
  <2>2. \A T \in SUBSET S : Cardinality(T) <= m + 1 => P(T)
    BY <2>1
  <2> HIDE DEF P
  <2> QED BY <2>2
<1> HIDE DEF U
<1>3. ASSUME NEW T \in SUBSET S PROVE P(T)
  <2>1. Cardinality(T) \in U /\ Cardinality(T) <= Cardinality(T)
    BY <1>0, <1>1, <1>2, Induction
  <2> HIDE DEF P
  <2> QED BY <2>1 DEF U
<1> QED BY <1>3 DEF Sums

SpanSum(ps, S) == MapThenSumSet(LAMBDA k : Span(ps[k]), S)

LEMMA SumIs ==
  ASSUME NEW ps, NEW S, IsFiniteSet(S), \A k \in S : Span(ps[k]) \in Nat
  PROVE  \E g : Sums(g, ps, S) /\ SpanSum(ps, S) = g[S]
<1> DEFINE F == [x \in Nat \X Nat |-> x[1] + x[2]]
           s == [k \in S |-> Span(ps[k])]
           pick == [T \in SUBSET S |-> CHOOSE x \in T : TRUE]
           Iter(g) == g = [T \in SUBSET S |-> IF T = {} THEN 0
                            ELSE Span(ps[CHOOSE x \in T : TRUE]) + g[T \ {CHOOSE x \in T : TRUE}]]
<1>1. F \in [Nat \X Nat -> Nat] /\ s \in [S -> Nat] /\ 0 \in Nat
  OBVIOUS
<1>2. Picks(pick, S)
  BY DEF Picks
<1>3. \E g : Folding(g, F, 0, s, pick, SUBSET S, Nat)
  <2> HIDE DEF F, s, pick
  <2> QED BY <1>1, <1>2, FoldingExists
<1>4. ASSUME NEW g, Folding(g, F, 0, s, pick, SUBSET S, Nat) PROVE Iter(g)
  <2>1. ASSUME NEW T \in SUBSET S, T # {}
        PROVE  g[T] = Span(ps[CHOOSE x \in T : TRUE]) + g[T \ {CHOOSE x \in T : TRUE}]
    <3> DEFINE x == CHOOSE y \in T : TRUE
    <3>1. x \in T /\ x \in S /\ pick[T] = x
      BY <2>1
    <3> HIDE DEF x
    <3>2. g[T \ {x}] \in Nat /\ s[x] \in Nat /\ s[x] = Span(ps[x])
      BY <3>1, <1>1, <1>4 DEF Folding
    <3>3. g[T] = F[<<s[x], g[T \ {x}]>>]
      BY <1>4, <2>1, <3>1 DEF Folding
    <3>4. g[T] = Span(ps[x]) + g[T \ {x}]
      BY <3>2, <3>3
    <3> QED BY <3>4 DEF x
  <2>2. \A T \in SUBSET S : T = {} => g[T] = 0
    BY <1>4 DEF Folding
  <2>3. g \in [SUBSET S -> Nat]
    BY <1>4 DEF Folding
  <2> QED BY <2>1, <2>2, <2>3
<1> DEFINE h == CHOOSE g : Iter(g)
<1>5. SpanSum(ps, S) = h[S]
  BY DEF SpanSum, MapThenSumSet, MapThenFoldSet
<1>6. Iter(h)
  <2>1. \E g : Iter(g)
    BY <1>3, <1>4
  <2> HIDE DEF Iter
  <2> QED BY <2>1
<1>7. PICK g : Folding(g, F, 0, s, pick, SUBSET S, Nat)
  BY <1>3
<1>8. \A T \in SUBSET S : h[T] = g[T] /\ h[T] \in Nat
  <2>1. h[{}] = 0
    BY <1>6
  <2>2. ASSUME NEW T \in SUBSET S, T # {}, h[T \ {pick[T]}] \in Nat
        PROVE  h[T] = F[<<s[pick[T]], h[T \ {pick[T]}]>>]
    <3> DEFINE x == CHOOSE y \in T : TRUE
    <3>1. x \in T /\ x \in S /\ pick[T] = x
      BY <2>2
    <3>2. h[T] = Span(ps[x]) + h[T \ {x}]
      BY <1>6, <2>2
    <3> HIDE DEF x, h
    <3>3. s[x] \in Nat /\ s[x] = Span(ps[x]) /\ h[T \ {x}] \in Nat
      BY <3>1, <2>2, <1>1
    <3>4. F[<<s[x], h[T \ {x}]>>] = Span(ps[x]) + h[T \ {x}]
      BY <3>3
    <3> QED BY <3>1, <3>2, <3>4
  <2>3. FoldRule(h, F, 0, s, pick, S, Nat)
    <3> HIDE DEF h, F, s, pick
    <3> QED BY <2>1, <2>2 DEF FoldRule
  <2> HIDE DEF h, F, s, pick
  <2> QED BY <2>3, <1>1, <1>2, <1>7, FoldingOnly
<1>9. h \in [SUBSET S -> Nat] /\ h[{}] = 0
  BY <1>6, <1>8
<1>10. \A T \in SUBSET S : T # {} => \E x \in T : h[T] = Span(ps[x]) + h[T \ {x}]
  BY <1>6
<1>11. Sums(h, ps, S)
  <2> HIDE DEF h
  <2> QED BY <1>9, <1>10, AnyOrder
<1> HIDE DEF h
<1> QED BY <1>5, <1>11

(* One after the other.                                                    *)
LEMMA SumsAgree ==
  ASSUME NEW ps, SpansOK(ps), NEW k \in Nat, NEW l \in Nat, NEW g, NEW h,
         Sums(g, ps, 1 .. k), Sums(h, ps, 1 .. l)
  PROVE  \A i \in Nat : i <= k /\ i <= l => g[1 .. i] = h[1 .. i]
<1> DEFINE U == {i \in Nat : i <= k /\ i <= l => g[1 .. i] = h[1 .. i]}
<1>1. 0 \in U
  <2>1. 1 .. 0 = {}
    OBVIOUS
  <2> QED BY <2>1 DEF Sums
<1>2. ASSUME NEW i \in Nat, i \in U PROVE i + 1 \in U
  <2> SUFFICES ASSUME i + 1 <= k, i + 1 <= l PROVE g[1 .. (i + 1)] = h[1 .. (i + 1)]
    OBVIOUS
  <2>1. (1 .. (i + 1)) \ {i + 1} = 1 .. i /\ i + 1 \in 1 .. (i + 1)
    OBVIOUS
  <2>2. 1 .. (i + 1) \in SUBSET (1 .. k) /\ 1 .. (i + 1) \in SUBSET (1 .. l)
    OBVIOUS
  <2> DEFINE T == 1 .. (i + 1)
  <2>3. T \ {i + 1} = 1 .. i /\ i + 1 \in T /\ T \in SUBSET (1 .. k) /\ T \in SUBSET (1 .. l)
    BY <2>1, <2>2
  <2> HIDE DEF T
  <2>4. g[T] = Span(ps[i + 1]) + g[T \ {i + 1}]
    BY <2>3 DEF Sums
  <2>5. h[T] = Span(ps[i + 1]) + h[T \ {i + 1}]
    BY <2>3 DEF Sums
  <2>6. g[1 .. i] = h[1 .. i]
    BY <1>2
  <2> QED BY <2>3, <2>4, <2>5, <2>6 DEF T
<1> HIDE DEF U
<1>3. \A i \in Nat : i \in U
  BY <1>1, <1>2, Induction
<1> QED BY <1>3 DEF U

(* A sum over the first k phases is the k-th and the sum over those before.*)
LEMMA SumsTop ==
  ASSUME NEW ps, NEW k \in Nat, k >= 1, NEW h, Sums(h, ps, 1 .. k)
  PROVE  h[1 .. k] = Span(ps[k]) + h[1 .. (k - 1)] /\ h[1 .. (k - 1)] \in Nat
<1>1. h \in [SUBSET (1 .. k) -> Nat]
      /\ \A T \in SUBSET (1 .. k) : \A x \in T : h[T] = Span(ps[x]) + h[T \ {x}]
  BY DEF Sums
<1>2. k \in 1 .. k /\ (1 .. k) \ {k} = 1 .. (k - 1) /\ 1 .. k \in SUBSET (1 .. k)
      /\ 1 .. (k - 1) \in SUBSET (1 .. k)
  OBVIOUS
<1> QED BY <1>1, <1>2

LEMMA StartsAdd ==
  ASSUME NEW ps, SpansOK(ps)
  PROVE  /\ Start(ps, 1) = 0
         /\ \A k \in DOMAIN ps : Start(ps, k) \in Nat /\ Start(ps, k + 1) = Start(ps, k) + Span(ps[k])
         /\ Length(ps) = Start(ps, Len(ps) + 1) /\ Length(ps) \in Nat
<1>1. ASSUME NEW k \in Nat, k <= Len(ps)
      PROVE  \E g : Sums(g, ps, 1 .. k) /\ Start(ps, k + 1) = g[1 .. k]
  <2>1. IsFiniteSet(1 .. k) /\ 1 .. k \in SUBSET DOMAIN ps /\ (k + 1) - 1 = k
    BY FS_Interval, <1>1 DEF SpansOK
  <2>2. \A i \in 1 .. k : Span(ps[i]) \in Nat
    BY <2>1 DEF SpansOK
  <2>3. Start(ps, k + 1) = SpanSum(ps, 1 .. k)
    BY <2>1 DEF Start, SpanSum
  <2>4. PICK g : Sums(g, ps, 1 .. k) /\ SpanSum(ps, 1 .. k) = g[1 .. k]
    BY <2>1, <2>2, SumIs
  <2> QED BY <2>3, <2>4
<1>2. Start(ps, 1) = 0
  <2>1. PICK g : Sums(g, ps, 1 .. 0) /\ Start(ps, 0 + 1) = g[1 .. 0]
    BY <1>1 DEF SpansOK
  <2>2. 1 .. 0 = {} /\ 0 + 1 = 1
    OBVIOUS
  <2> QED BY <2>1, <2>2 DEF Sums
<1>3. ASSUME NEW k \in DOMAIN ps
      PROVE  Start(ps, k) \in Nat /\ Start(ps, k + 1) = Start(ps, k) + Span(ps[k])
  <2>1. k \in Nat /\ k - 1 \in Nat /\ k <= Len(ps) /\ (k - 1) + 1 = k /\ k - 1 <= k /\ k >= 1
    BY DEF SpansOK
  <2>2. PICK g : Sums(g, ps, 1 .. (k - 1)) /\ Start(ps, k) = g[1 .. (k - 1)]
    BY <2>1, <1>1
  <2>3. PICK h : Sums(h, ps, 1 .. k) /\ Start(ps, k + 1) = h[1 .. k]
    BY <2>1, <1>1
  <2>4. g[1 .. (k - 1)] = h[1 .. (k - 1)]
    BY <2>1, <2>2, <2>3, SumsAgree
  <2>5. (1 .. k) \ {k} = 1 .. (k - 1) /\ k \in 1 .. k /\ 1 .. k \in SUBSET (1 .. k)
    BY <2>1
  <2>6. h[1 .. k] = Span(ps[k]) + h[1 .. (k - 1)] /\ h[1 .. (k - 1)] \in Nat
    BY <2>1, <2>3, SumsTop
  <2> QED BY <2>2, <2>3, <2>4, <2>6 DEF SpansOK
<1>4. Length(ps) = Start(ps, Len(ps) + 1) /\ Length(ps) \in Nat
  <2>1. (Len(ps) + 1) - 1 = Len(ps) /\ DOMAIN ps = 1 .. Len(ps) /\ Len(ps) \in Nat
    BY DEF SpansOK
  <2>2. Length(ps) = Start(ps, Len(ps) + 1)
    BY <2>1 DEF Start, Length
  <2>3. PICK g : Sums(g, ps, 1 .. Len(ps)) /\ Start(ps, Len(ps) + 1) = g[1 .. Len(ps)]
    BY <2>1, <1>1
  <2> QED BY <2>2, <2>3 DEF Sums
<1> QED BY <1>2, <1>3, <1>4

-----------------------------------------------------------------------------
(* Folds from left to right                                                *)

LEMMA Greatest ==
  ASSUME NEW n \in Nat, NEW T \in SUBSET (1 .. n), T # {}
  PROVE  Max(T) \in T /\ \A j \in T : j <= Max(T)
<1> DEFINE U == {m \in Nat : \A S \in SUBSET (1 .. m) : S # {} => \E i \in S : \A j \in S : i >= j}
<1>1. 0 \in U
  <2>1. 1 .. 0 = {}
    OBVIOUS
  <2> QED BY <2>1
<1>2. ASSUME NEW m \in Nat, m \in U PROVE m + 1 \in U
  <2> SUFFICES ASSUME NEW S \in SUBSET (1 .. (m + 1)), S # {} PROVE \E i \in S : \A j \in S : i >= j
    OBVIOUS
  <2>1. CASE m + 1 \in S
    BY <2>1
  <2>2. CASE m + 1 \notin S
    <3>1. S \in SUBSET (1 .. m)
      BY <2>2
    <3> QED BY <1>2, <3>1
  <2> QED BY <2>1, <2>2
<1> HIDE DEF U
<1>3. n \in U
  BY <1>1, <1>2, Induction
<1>4. \E i \in T : \A j \in T : i >= j
  BY <1>3 DEF U
<1>5. Max(T) \in T /\ \A j \in T : Max(T) >= j
  BY <1>4 DEF Max
<1> QED BY <1>5

LEMMA WithoutLast == ASSUME NEW n \in Nat, NEW i \in 1 .. n PROVE (1 .. i) \ {i} = 1 .. (i - 1)
  OBVIOUS

(* u[i] is what the fold makes of the first i elements of s.               *)
Steps(u, F, base, s, n, A) ==
  /\ u \in [0 .. n -> A] /\ u[0] = base
  /\ \A i \in 1 .. n : u[i] = F[<<s[i], u[i - 1]>>]

Greatests(n) == [T \in SUBSET (1 .. n) |-> Max(T)]

LEMMA GreatestsPick == ASSUME NEW n \in Nat PROVE Picks(Greatests(n), 1 .. n)
  BY Greatest DEF Picks, Greatests

LEMMA GreatestIn ==
  ASSUME NEW n \in Nat
  PROVE  \A T \in SUBSET (1 .. n) : T # {} => Greatests(n)[T] = Max(T) /\ Max(T) \in 1 .. n
  BY Greatest DEF Greatests

LEMMA FoldingSteps ==
  ASSUME NEW A, NEW F, NEW base, NEW n \in Nat, NEW s, NEW g,
         Folding(g, F, base, s, Greatests(n), SUBSET (1 .. n), A),
         NEW u, u = [i \in 0 .. n |-> g[1 .. i]]
  PROVE  Steps(u, F, base, s, n, A)
<1>1. u \in [0 .. n -> A] /\ u[0] = base
  <2>1. 1 .. 0 = {}
    OBVIOUS
  <2>2. \A i \in 0 .. n : 1 .. i \in SUBSET (1 .. n)
    OBVIOUS
  <2>3. g \in [SUBSET (1 .. n) -> A] /\ g[{}] = base
    BY DEF Folding
  <2>4. \A i \in 0 .. n : g[1 .. i] \in A
    BY <2>2, <2>3
  <2>5. 0 \in 0 .. n
    OBVIOUS
  <2> QED BY <2>1, <2>3, <2>4, <2>5
<1>2. ASSUME NEW i \in 1 .. n PROVE u[i] = F[<<s[i], u[i - 1]>>]
  <2> DEFINE T == 1 .. i
  <2>a. T \ {i} = 1 .. (i - 1)
    BY WithoutLast
  <2>b. T \in SUBSET (1 .. n) /\ i \in T /\ T # {} /\ \A j \in T : j <= i
    OBVIOUS
  <2>1. T \in SUBSET (1 .. n) /\ i \in T /\ T # {} /\ T \ {i} = 1 .. (i - 1) /\ \A j \in T : j <= i
    BY <2>a, <2>b
  <2>0. i \in 0 .. n /\ i - 1 \in 0 .. n
    OBVIOUS
  <2>2. u[i] = g[T] /\ u[i - 1] = g[T \ {i}]
    BY <2>0, <2>1
  <2> HIDE DEF T
  <2>3. Max(T) = i
    <3>1. Max(T) \in T /\ i <= Max(T)
      BY <2>1, Greatest
    <3>2. Max(T) <= i /\ Max(T) \in Int /\ i \in Int
      BY <2>1, <3>1
    <3> QED BY <3>1, <3>2
  <2>4. g[T] = F[<<s[i], g[T \ {i}]>>]
    BY <2>1, <2>3 DEF Folding, Greatests
  <2> QED BY <2>2, <2>4
<1> QED BY <1>1, <1>2 DEF Steps

(* A fold whose function h follows F is the last of its steps.             *)
FoldOf(h, F, base, s, n, A, B) ==
  /\ base \in A /\ F \in [B \X A -> A]
  /\ n \in Nat /\ s \in [1 .. n -> B]
  /\ FoldRule(h, F, base, s, Greatests(n), 1 .. n, A)

LEMMA FoldSteps ==
  ASSUME NEW A, NEW B, NEW base, NEW F, NEW n, NEW s, NEW h, FoldOf(h, F, base, s, n, A, B)
  PROVE  \E u : Steps(u, F, base, s, n, A) /\ u[n] = h[1 .. n]
<1> DEFINE S == 1 .. n
           pick == Greatests(n)
<1>0. base \in A /\ F \in [B \X A -> A] /\ n \in Nat
  BY DEF FoldOf
<1>1. IsFiniteSet(S) /\ s \in [S -> B] /\ Picks(pick, S)
  BY <1>0, FS_Interval, GreatestsPick DEF FoldOf
<1>2. FoldRule(h, F, base, s, pick, S, A)
  BY DEF FoldOf
<1> HIDE DEF S, pick
<1>3. PICK g : Folding(g, F, base, s, pick, SUBSET S, A)
  BY <1>0, <1>1, FoldingExists
<1>4. \A T \in SUBSET S : h[T] = g[T] /\ h[T] \in A
  BY <1>0, <1>1, <1>2, <1>3, FoldingOnly
<1> DEFINE u == [i \in 0 .. n |-> g[1 .. i]]
<1>6. u[n] = h[1 .. n]
  BY <1>0, <1>4 DEF S
<1>7. u = [i \in 0 .. n |-> g[1 .. i]]
  OBVIOUS
<1> HIDE DEF u
<1>5. Steps(u, F, base, s, n, A)
  BY <1>0, <1>3, <1>7, FoldingSteps DEF S, pick
<1> QED BY <1>5, <1>6

(* The folds of Signals are such steps.                                    *)
LEMMA Numbered ==
  /\ Len(Connectors) \in Nat /\ Movement = 1 .. Len(Connectors)
  /\ InTurn \in [1 .. Len(Connectors) -> Movement] /\ DOMAIN InTurn = 1 .. Len(Connectors)
<1>1. Len(Connectors) \in Nat /\ Movement = 1 .. Len(Connectors)
  BY SignalsAssumption DEF Movement
<1> QED BY <1>1 DEF InTurn

Passes == [phase : Seq(Movement), rest : Seq(Movement)]
PassStep == [x \in Movement \X Passes |-> Put(x[2], x[1])]

LEMMA PassIs ==
  ASSUME NEW n \in Nat, NEW left \in [1 .. n -> Movement]
  PROVE  \E u : Steps(u, PassStep, [phase |-> <<>>, rest |-> <<>>], left, n, Passes) /\ Pass(left) = u[n]
<1> DEFINE A == Passes
           F == PassStep
           base == [phase |-> <<>>, rest |-> <<>>]
           S == 1 .. n
           Iter(h) == h = [T \in SUBSET S |-> IF T = {} THEN base ELSE Put(h[T \ {Max(T)}], left[Max(T)])]
<1>0. ASSUME NEW p \in A, NEW c \in Movement PROVE Put(p, c) \in A
  <2>1. Append(p.phase, c) \in Seq(Movement) /\ Append(p.rest, c) \in Seq(Movement)
    BY DEF Passes
  <2>2. [p EXCEPT !.phase = Append(p.phase, c)] \in A /\ [p EXCEPT !.rest = Append(p.rest, c)] \in A
    BY <2>1 DEF Passes
  <2> HIDE DEF A
  <2> QED BY <2>2 DEF Put
<1>1. F \in [Movement \X A -> A] /\ base \in A
  <2>1. base \in A
    BY DEF Passes
  <2> QED BY <2>1, <1>0 DEF PassStep
<1>2. \A p \in A : \A c \in Movement : F[<<c, p>>] = Put(p, c)
  BY DEF PassStep
<1>3. \A T \in SUBSET S : T # {} => Greatests(n)[T] = Max(T) /\ left[Max(T)] \in Movement
  BY GreatestIn
<1>4. ASSUME NEW g, Folding(g, F, base, left, Greatests(n), SUBSET S, A) PROVE Iter(g)
  <2> HIDE DEF F, base, S, A
  <2>1. g \in [SUBSET S -> A]
    BY <1>4 DEF Folding
  <2>2. ASSUME NEW T \in SUBSET S, T # {} PROVE g[T] = Put(g[T \ {Max(T)}], left[Max(T)])
    <3>1. g[T] = F[<<left[Greatests(n)[T]], g[T \ {Greatests(n)[T]}]>>]
      BY <1>4, <2>2 DEF Folding
    <3>2. T \ {Max(T)} \in SUBSET S
      OBVIOUS
    <3>3. F[<<left[Max(T)], g[T \ {Max(T)}]>>] = Put(g[T \ {Max(T)}], left[Max(T)])
      BY <1>2, <1>3, <2>1, <2>2, <3>2
    <3> QED BY <1>3, <2>2, <3>1, <3>3
  <2>3. {} \in SUBSET S /\ g[{}] = base
    BY <1>4 DEF Folding
  <2>4. \A T \in SUBSET S : g[T] = IF T = {} THEN base ELSE Put(g[T \ {Max(T)}], left[Max(T)])
    BY <2>2, <2>3
  <2> QED BY <2>1, <2>4
<1>5. ASSUME NEW h, Iter(h) PROVE FoldRule(h, F, base, left, Greatests(n), S, A)
  <2> HIDE DEF F, base, S, A
  <2>1. h[{}] = base
    BY <1>5
  <2>2. ASSUME NEW T \in SUBSET S, T # {}, h[T \ {Greatests(n)[T]}] \in A
        PROVE  h[T] = F[<<left[Greatests(n)[T]], h[T \ {Greatests(n)[T]}]>>]
    <3>1. h[T] = Put(h[T \ {Max(T)}], left[Max(T)])
      BY <1>5, <2>2
    <3>2. Greatests(n)[T] = Max(T) /\ left[Max(T)] \in Movement
      BY <1>3, <2>2
    <3>3. F[<<left[Max(T)], h[T \ {Max(T)}]>>] = Put(h[T \ {Max(T)}], left[Max(T)])
      BY <1>2, <2>2, <3>2
    <3> QED BY <3>1, <3>2, <3>3
  <2> QED BY <2>1, <2>2 DEF FoldRule
<1> DEFINE h == CHOOSE x : Iter(x)
<1>6. Pass(left) = h[S]
  BY DEF Pass, FoldLeft, MapThenFoldSet
<1>7. Iter(h)
  <2>1. \E g : Folding(g, F, base, left, Greatests(n), SUBSET S, A)
    <3>1. IsFiniteSet(S) /\ left \in [S -> Movement] /\ Picks(Greatests(n), S)
      BY FS_Interval, GreatestsPick
    <3> HIDE DEF F, base, S, A
    <3> QED BY <1>1, <3>1, FoldingExists
  <2>2. \E g : Iter(g)
    <3> HIDE DEF F, base, S, A, Iter
    <3> QED BY <1>4, <2>1
  <2> HIDE DEF Iter
  <2> QED BY <2>2
<1>8. FoldRule(h, F, base, left, Greatests(n), 1 .. n, A)
  <2> HIDE DEF h, F, base, A, Iter
  <2> QED BY <1>5, <1>7
<1>9. \E u : Steps(u, F, base, left, n, A) /\ u[n] = h[1 .. n]
  <2> HIDE DEF h, F, base, A
  <2>1. FoldOf(h, F, base, left, n, A, Movement)
    BY <1>1, <1>8 DEF FoldOf
  <2> QED BY <2>1, FoldSteps
<1> HIDE DEF h
<1> QED BY <1>6, <1>9

Took(q, c, lanes, order) ==
  IF Connectors[c].from \in lanes /\ TurnOrder(c) = order THEN Append(q, c) ELSE q
Queues == Seq(Movement)
ArrivingStep(lanes, order) == [x \in Movement \X Queues |-> Took(x[2], x[1], lanes, order)]

LEMMA ArrivingIs ==
  ASSUME NEW lanes, NEW order, NEW n, n = Len(Connectors)
  PROVE  \E u : Steps(u, ArrivingStep(lanes, order), <<>>, InTurn, n, Queues) /\ Arriving(lanes, order) = u[n]
<1> DEFINE A == Queues
           F == ArrivingStep(lanes, order)
           base == <<>>
           S == 1 .. n
           Iter(h) == h = [T \in SUBSET S |-> IF T = {} THEN base ELSE Took(h[T \ {Max(T)}], InTurn[Max(T)], lanes, order)]
<1>t. n \in Nat /\ InTurn \in [1 .. n -> Movement] /\ DOMAIN InTurn = 1 .. n
  BY Numbered
<1>0. ASSUME NEW p \in A, NEW c \in Movement PROVE Took(p, c, lanes, order) \in A
  <2>1. Append(p, c) \in A
    BY DEF Queues
  <2> QED BY <2>1 DEF Took
<1>1. F \in [Movement \X A -> A] /\ base \in A
  <2>1. base \in A
    BY DEF Queues
  <2> QED BY <2>1, <1>0 DEF ArrivingStep
<1>2. \A p \in A : \A c \in Movement : F[<<c, p>>] = Took(p, c, lanes, order)
  BY DEF ArrivingStep
<1>3. \A T \in SUBSET S : T # {} => Greatests(n)[T] = Max(T) /\ InTurn[Max(T)] \in Movement
  BY <1>t, GreatestIn
<1>4. ASSUME NEW g, Folding(g, F, base, InTurn, Greatests(n), SUBSET S, A) PROVE Iter(g)
  <2> HIDE DEF F, base, S, A
  <2>1. g \in [SUBSET S -> A]
    BY <1>4 DEF Folding
  <2>2. ASSUME NEW T \in SUBSET S, T # {} PROVE g[T] = Took(g[T \ {Max(T)}], InTurn[Max(T)], lanes, order)
    <3>1. g[T] = F[<<InTurn[Greatests(n)[T]], g[T \ {Greatests(n)[T]}]>>]
      BY <1>4, <2>2 DEF Folding
    <3>2. T \ {Max(T)} \in SUBSET S
      OBVIOUS
    <3>3. F[<<InTurn[Max(T)], g[T \ {Max(T)}]>>] = Took(g[T \ {Max(T)}], InTurn[Max(T)], lanes, order)
      BY <1>2, <1>3, <2>1, <2>2, <3>2
    <3> QED BY <1>3, <2>2, <3>1, <3>3
  <2>3. {} \in SUBSET S /\ g[{}] = base
    BY <1>4 DEF Folding
  <2>4. \A T \in SUBSET S : g[T] = IF T = {} THEN base ELSE Took(g[T \ {Max(T)}], InTurn[Max(T)], lanes, order)
    BY <2>2, <2>3
  <2> QED BY <2>1, <2>4
<1>5. ASSUME NEW h, Iter(h) PROVE FoldRule(h, F, base, InTurn, Greatests(n), S, A)
  <2> HIDE DEF F, base, S, A
  <2>1. h[{}] = base
    BY <1>5
  <2>2. ASSUME NEW T \in SUBSET S, T # {}, h[T \ {Greatests(n)[T]}] \in A
        PROVE  h[T] = F[<<InTurn[Greatests(n)[T]], h[T \ {Greatests(n)[T]}]>>]
    <3>1. h[T] = Took(h[T \ {Max(T)}], InTurn[Max(T)], lanes, order)
      BY <1>5, <2>2
    <3>2. Greatests(n)[T] = Max(T) /\ InTurn[Max(T)] \in Movement
      BY <1>3, <2>2
    <3>3. F[<<InTurn[Max(T)], h[T \ {Max(T)}]>>] = Took(h[T \ {Max(T)}], InTurn[Max(T)], lanes, order)
      BY <1>2, <2>2, <3>2
    <3> QED BY <3>1, <3>2, <3>3
  <2> QED BY <2>1, <2>2 DEF FoldRule
<1> DEFINE h == CHOOSE x : Iter(x)
<1>6. Arriving(lanes, order) = h[S]
  BY <1>t DEF Arriving, FoldLeft, MapThenFoldSet, Took
<1>7. Iter(h)
  <2>1. \E g : Folding(g, F, base, InTurn, Greatests(n), SUBSET S, A)
    <3>1. IsFiniteSet(S) /\ InTurn \in [S -> Movement] /\ Picks(Greatests(n), S)
      BY <1>t, FS_Interval, GreatestsPick
    <3> HIDE DEF F, base, S, A
    <3> QED BY <1>1, <3>1, FoldingExists
  <2>2. \E g : Iter(g)
    <3> HIDE DEF F, base, S, A, Iter
    <3> QED BY <1>4, <2>1
  <2> HIDE DEF Iter
  <2> QED BY <2>2
<1>8. FoldRule(h, F, base, InTurn, Greatests(n), 1 .. n, A)
  <2> HIDE DEF h, F, base, A, Iter
  <2> QED BY <1>5, <1>7
<1>9. \E u : Steps(u, F, base, InTurn, n, A) /\ u[n] = h[1 .. n]
  <2> HIDE DEF h, F, base, A
  <2>1. FoldOf(h, F, base, InTurn, n, A, Movement)
    BY <1>t, <1>1, <1>8 DEF FoldOf
  <2> QED BY <2>1, FoldSteps
<1> HIDE DEF h
<1> QED BY <1>6, <1>9

-----------------------------------------------------------------------------
(* What a pass takes and leaves                                            *)
LEMMA ToSetAppend ==
  ASSUME NEW S, NEW s \in Seq(S), NEW c \in S
  PROVE  ToSet(Append(s, c)) = ToSet(s) \cup {c}
<1>1. DOMAIN Append(s, c) = DOMAIN s \cup {Len(s) + 1}
  OBVIOUS
<1>2. Append(s, c)[Len(s) + 1] = c /\ \A i \in DOMAIN s : Append(s, c)[i] = s[i]
  OBVIOUS
<1> QED BY <1>1, <1>2 DEF ToSet

LEMMA ToSetConcat ==
  ASSUME NEW S, NEW s \in Seq(S), NEW t \in Seq(S)
  PROVE  ToSet(s \o t) = ToSet(s) \cup ToSet(t)
<1>1. \A i \in DOMAIN s : i \in DOMAIN (s \o t) /\ (s \o t)[i] = s[i]
  OBVIOUS
<1>2. \A i \in DOMAIN t : Len(s) + i \in DOMAIN (s \o t) /\ (s \o t)[Len(s) + i] = t[i]
  OBVIOUS
<1>3. \A i \in DOMAIN (s \o t) : i \in DOMAIN s \/ (i - Len(s) \in DOMAIN t /\ (s \o t)[i] = t[i - Len(s)])
  OBVIOUS
<1>4. \A x : x \in ToSet(s \o t) => x \in ToSet(s) \/ x \in ToSet(t)
  BY <1>3 DEF ToSet
<1>5. \A x : x \in ToSet(s) => x \in ToSet(s \o t)
  BY <1>1 DEF ToSet
<1>6. \A x : x \in ToSet(t) => x \in ToSet(s \o t)
  BY <1>2 DEF ToSet
<1> QED BY <1>4, <1>5, <1>6

(* No two of the movements may not go together.                            *)
Harmless(X) == \A a, b \in X : a # b => ~ConflictsWith(a, b)

LEMMA ConflictsSymmetric == \A a, b : ConflictsWith(a, b) <=> ConflictsWith(b, a)
<1>1. \A a, b : {a, b} = {b, a}
  OBVIOUS
<1> QED BY <1>1 DEF ConflictsWith

PassOK(p, X) ==
  /\ Harmless(ToSet(p.phase))
  /\ ToSet(p.phase) \cup ToSet(p.rest) = X

LEMMA PutOK ==
  ASSUME NEW p \in Passes, NEW X, PassOK(p, X), NEW c \in Movement
  PROVE  /\ PassOK(Put(p, c), X \cup {c})
         /\ Len(Put(p, c).phase) + Len(Put(p, c).rest) = Len(p.phase) + Len(p.rest) + 1
         /\ Len(Put(p, c).phase) >= 1 
<1>0. p.phase \in Seq(Movement) /\ p.rest \in Seq(Movement) /\ Len(p.phase) \in Nat /\ Len(p.rest) \in Nat
  BY DEF Passes
<1>1. CASE Fits(p.phase, c)
  <2>1. Put(p, c) = [p EXCEPT !.phase = Append(p.phase, c)]
    BY <1>1 DEF Put
  <2>2. Put(p, c).phase = Append(p.phase, c) /\ Put(p, c).rest = p.rest
    BY <2>1 DEF Passes
  <2>3. ToSet(Append(p.phase, c)) = ToSet(p.phase) \cup {c} /\ Len(Append(p.phase, c)) = Len(p.phase) + 1
    BY <1>0, ToSetAppend
  <2>4. \A a \in ToSet(p.phase) : ~ConflictsWith(c, a) /\ ~ConflictsWith(a, c)
    BY <1>1, ConflictsSymmetric DEF Fits, ToSet
  <2>5. Harmless(ToSet(p.phase) \cup {c})
    BY <2>4 DEF Harmless, PassOK
  <2>6. (ToSet(p.phase) \cup {c}) \cup ToSet(p.rest) = X \cup {c}
    BY DEF PassOK
  <2>7. PassOK(Put(p, c), X \cup {c})
    BY <2>2, <2>3, <2>5, <2>6 DEF PassOK
  <2>8. Len(Put(p, c).phase) = Len(p.phase) + 1 /\ Len(Put(p, c).rest) = Len(p.rest)
    BY <2>2, <2>3
  <2> DEFINE x == Len(p.phase)
             y == Len(p.rest)
  <2>9. x \in Nat /\ y \in Nat /\ Len(Put(p, c).phase) = x + 1 /\ Len(Put(p, c).rest) = y
    BY <1>0, <2>8
  <2> HIDE DEF x, y
  <2>10. (x + 1) + y = x + y + 1 /\ x + 1 >= 1
    BY <2>9
  <2> QED BY <2>7, <2>9, <2>10 DEF x, y
<1>2. CASE ~Fits(p.phase, c)
  <2>1. Put(p, c) = [p EXCEPT !.rest = Append(p.rest, c)]
    BY <1>2 DEF Put
  <2>2. Put(p, c).phase = p.phase /\ Put(p, c).rest = Append(p.rest, c)
    BY <2>1 DEF Passes
  <2>3. ToSet(Append(p.rest, c)) = ToSet(p.rest) \cup {c} /\ Len(Append(p.rest, c)) = Len(p.rest) + 1
    BY <1>0, ToSetAppend
  <2>4. ToSet(p.phase) \cup (ToSet(p.rest) \cup {c}) = X \cup {c}
    BY DEF PassOK
  <2>5. PassOK(Put(p, c), X \cup {c})
    BY <2>2, <2>3, <2>4 DEF PassOK
  <2>6. Len(p.phase) >= 1
    <3>1. PICK k \in DOMAIN p.phase : TRUE
      BY <1>2 DEF Fits
    <3>2. DOMAIN p.phase = 1 .. Len(p.phase)
      BY <1>0
    <3> QED BY <1>0, <3>1, <3>2
  <2>7. Len(Put(p, c).phase) = Len(p.phase) /\ Len(Put(p, c).rest) = Len(p.rest) + 1
    BY <2>2, <2>3
  <2> DEFINE x == Len(p.phase)
             y == Len(p.rest)
  <2>9. x \in Nat /\ y \in Nat /\ x >= 1 /\ Len(Put(p, c).phase) = x /\ Len(Put(p, c).rest) = y + 1
    BY <1>0, <2>6, <2>7
  <2> HIDE DEF x, y
  <2>10. x + (y + 1) = x + y + 1
    BY <2>9
  <2> QED BY <2>5, <2>9, <2>10 DEF x, y
<1> QED BY <1>1, <1>2

LEMMA PassSplits ==
  ASSUME NEW left \in Seq(Movement)
  PROVE  /\ Pass(left) \in Passes /\ PassOK(Pass(left), ToSet(left))
         /\ Len(Pass(left).rest) <= Len(left)
         /\ left # <<>> => Len(Pass(left).rest) < Len(left)
<1> DEFINE n == Len(left)
           Upto(i) == {left[j] : j \in 1 .. i}
<1>0. n \in Nat /\ left \in [1 .. n -> Movement] /\ DOMAIN left = 1 .. n /\ ToSet(left) = Upto(n)
      /\ (left # <<>> => n >= 1)
  BY DEF ToSet
<1>1. PICK u : Steps(u, PassStep, [phase |-> <<>>, rest |-> <<>>], left, n, Passes) /\ Pass(left) = u[n]
  <2> HIDE DEF n
  <2> QED BY <1>0, PassIs
<1>2. /\ u \in [0 .. n -> Passes] /\ u[0] = [phase |-> <<>>, rest |-> <<>>]
      /\ \A i \in 1 .. n : u[i] = PassStep[<<left[i], u[i - 1]>>]
  BY <1>1 DEF Steps
<1>3. \A i \in 0 .. n : u[i].phase \in Seq(Movement) /\ u[i].rest \in Seq(Movement)
                      /\ Len(u[i].phase) \in Nat /\ Len(u[i].rest) \in Nat
  <2>1. \A p \in Passes : p.phase \in Seq(Movement) /\ p.rest \in Seq(Movement)
    BY DEF Passes
  <2> HIDE DEF n
  <2>2. \A i \in 0 .. n : u[i] \in Passes
    BY <1>2
  <2> QED BY <2>1, <2>2
<1>4. ASSUME NEW i \in 1 .. n PROVE u[i] = Put(u[i - 1], left[i])
  <2>1. i - 1 \in 0 .. n /\ u[i - 1] \in Passes /\ left[i] \in Movement
    BY <1>0, <1>2
  <2> QED BY <1>2, <2>1 DEF PassStep
<1> DEFINE Good(i) == /\ PassOK(u[i], Upto(i)) /\ Len(u[i].phase) + Len(u[i].rest) = i
                      /\ (i >= 1 => Len(u[i].phase) >= 1)
           U == {i \in Nat : i <= n => Good(i)}
<1>5. 0 \in U
  <2>1. Upto(0) = {} /\ ToSet(<<>>) = {} /\ Len(<<>>) = 0
    BY DEF ToSet
  <2>2. u[0].phase = <<>> /\ u[0].rest = <<>>
    BY <1>2
  <2>3. PassOK(u[0], Upto(0))
    BY <2>1, <2>2 DEF PassOK, Harmless
  <2>4. Len(u[0].phase) + Len(u[0].rest) = 0
    BY <2>1, <2>2
  <2> HIDE DEF Upto
  <2>6. ~(0 >= 1)
    OBVIOUS
  <2>5. Good(0)
    BY <2>3, <2>4, <2>6, Zenon
  <2> HIDE DEF Good
  <2> QED BY <2>5
<1>6. ASSUME NEW i \in Nat, i \in U PROVE i + 1 \in U
  <2> HIDE DEF Good
  <2> SUFFICES ASSUME i + 1 <= n PROVE Good(i + 1)
    OBVIOUS
  <2>1. i + 1 \in 1 .. n /\ i \in 0 .. n /\ (i + 1) - 1 = i /\ i + 1 \in 0 .. n
    BY <1>0
  <2>0. Good(i)
    BY <1>6, <2>1
  <2> USE DEF Good
  <2>2. Good(i)
    BY <2>0
  <2>3. u[i + 1] = Put(u[i], left[i + 1]) /\ u[i] \in Passes /\ left[i + 1] \in Movement
    BY <1>0, <1>2, <1>4, <2>1
  <2>4. Upto(i + 1) = Upto(i) \cup {left[i + 1]}
    OBVIOUS
  <2> HIDE DEF Upto, n
  <2>5. /\ PassOK(u[i + 1], Upto(i) \cup {left[i + 1]})
        /\ Len(u[i + 1].phase) + Len(u[i + 1].rest) = Len(u[i].phase) + Len(u[i].rest) + 1
        /\ Len(u[i + 1].phase) >= 1
    BY <2>2, <2>3, PutOK
  <2> QED BY <2>2, <2>4, <2>5
<1>7. Good(n)
  <2> HIDE DEF U
  <2>1. n \in U /\ n <= n
    BY <1>0, <1>5, <1>6, Induction
  <2> HIDE DEF Good
  <2> QED BY <2>1 DEF U
<1>8. Pass(left) \in Passes /\ Len(Pass(left).rest) \in Nat /\ Len(Pass(left).phase) \in Nat
  BY <1>0, <1>1, <1>2, <1>3
<1>9. PassOK(Pass(left), ToSet(left))
  BY <1>0, <1>1, <1>7
<1>10. Len(Pass(left).phase) + Len(Pass(left).rest) = n /\ (n >= 1 => Len(Pass(left).phase) >= 1)
  BY <1>0, <1>1, <1>7
<1> HIDE DEF n
<1>11. n \in Nat
  BY <1>0
<1>12. Len(Pass(left).rest) <= n /\ (n >= 1 => Len(Pass(left).rest) < n)
  <2> DEFINE x == Len(Pass(left).phase)
             y == Len(Pass(left).rest)
  <2>1. x \in Nat /\ y \in Nat /\ x + y = n /\ (n >= 1 => x >= 1)
    BY <1>8, <1>10
  <2> HIDE DEF x, y
  <2>2. y <= n /\ (n >= 1 => y < n)
    BY <2>1, <1>11
  <2> QED BY <2>2 DEF y
<1> QED BY <1>0, <1>8, <1>9, <1>12 DEF n

-----------------------------------------------------------------------------
(* The movements of a group                                                *)
LEMMA QueueIs ==
  ASSUME NEW lanes
  PROVE  /\ Queue(lanes) \in Seq(Movement) /\ Len(Queue(lanes)) <= Len(Connectors)
         /\ ToSet(Queue(lanes)) = {c \in Movement : Connectors[c].from \in lanes}
<1> DEFINE n == Len(Connectors)
           Of(c, order) == Connectors[c].from \in lanes /\ TurnOrder(c) = order
           Upto(i, order) == {c \in 1 .. i : Of(c, order)}
<1>0. n \in Nat /\ Movement = 1 .. n /\ \A i \in 1 .. n : InTurn[i] = i
  BY Numbered DEF InTurn
<1> DEFINE IsQueue(u, order) ==
             /\ Steps(u, ArrivingStep(lanes, order), <<>>, InTurn, n, Queues)
             /\ Arriving(lanes, order) = u[n]
<1>1. ASSUME NEW order, NEW u, IsQueue(u, order)
      PROVE  /\ \A i \in 0 .. n : u[i] \in Seq(Movement) /\ Len(u[i]) \in Nat
             /\ u[0] = <<>>
             /\ \A i \in 1 .. n : u[i] = IF Of(i, order) THEN Append(u[i - 1], i) ELSE u[i - 1]
  <2>1. /\ u \in [0 .. n -> Queues] /\ u[0] = <<>>
        /\ \A i \in 1 .. n : u[i] = ArrivingStep(lanes, order)[<<InTurn[i], u[i - 1]>>]
    BY <1>1 DEF Steps
  <2>2. \A i \in 0 .. n : u[i] \in Seq(Movement) /\ Len(u[i]) \in Nat
    <3> HIDE DEF n
    <3> QED BY <2>1 DEF Queues
  <2>3. ASSUME NEW i \in 1 .. n PROVE u[i] = IF Of(i, order) THEN Append(u[i - 1], i) ELSE u[i - 1]
    <3> HIDE DEF n
    <3>1. i - 1 \in 0 .. n /\ i \in Movement
      BY <1>0
    <3>2. u[i - 1] \in Queues /\ InTurn[i] = i
      BY <1>0, <2>1, <3>1
    <3>3. u[i] = Took(u[i - 1], i, lanes, order)
      BY <2>1, <3>1, <3>2 DEF ArrivingStep
    <3> QED BY <3>3 DEF Took
  <2> QED BY <2>1, <2>2, <2>3
<1>2. \A order : \E u : IsQueue(u, order)
  BY ArrivingIs
<1>3. ASSUME NEW order, NEW u, IsQueue(u, order) PROVE ToSet(u[n]) = Upto(n, order)
  <2> DEFINE U == {i \in Nat : i <= n => ToSet(u[i]) = Upto(i, order)}
  <2>1. 0 \in U
    <3>1. ToSet(<<>>) = {} /\ Upto(0, order) = {}
      BY DEF ToSet
    <3> QED BY <1>1, <1>3, <3>1
  <2>2. ASSUME NEW i \in Nat, i \in U PROVE i + 1 \in U
    <3> SUFFICES ASSUME i + 1 <= n PROVE ToSet(u[i + 1]) = Upto(i + 1, order)
      OBVIOUS
    <3>1. i + 1 \in 1 .. n /\ i \in 0 .. n /\ (i + 1) - 1 = i /\ i + 1 \in Movement
      BY <1>0
    <3>2. u[i + 1] = IF Of(i + 1, order) THEN Append(u[i], i + 1) ELSE u[i]
      BY <1>1, <1>3, <3>1
    <3>3. ToSet(u[i]) = Upto(i, order) /\ u[i] \in Seq(Movement)
      BY <1>0, <1>1, <1>3, <2>2, <3>1
    <3>4. ToSet(Append(u[i], i + 1)) = ToSet(u[i]) \cup {i + 1}
      BY <3>1, <3>3, ToSetAppend
    <3>5. Upto(i + 1, order) = IF Of(i + 1, order) THEN Upto(i, order) \cup {i + 1} ELSE Upto(i, order)
      <4>1. 1 .. (i + 1) = (1 .. i) \cup {i + 1}
        OBVIOUS
      <4> HIDE DEF Of
      <4> QED BY <4>1
    <3> HIDE DEF Upto, Of
    <3> QED BY <3>2, <3>3, <3>4, <3>5
  <2> HIDE DEF U
  <2>3. n \in U
    BY <1>0, <2>1, <2>2, Induction
  <2> QED BY <1>0, <2>3 DEF U
<1>4. ASSUME NEW u, NEW v, NEW w, IsQueue(u, 0), IsQueue(v, 1), IsQueue(w, 2)
      PROVE  Len(u[n]) + Len(v[n]) + Len(w[n]) <= n
  <2> DEFINE Short(i) == Len(u[i]) + Len(v[i]) + Len(w[i]) <= i
             U == {i \in Nat : i <= n => Short(i)}
  <2>1. 0 \in U
    <3>1. u[0] = <<>> /\ v[0] = <<>> /\ w[0] = <<>> /\ Len(<<>>) = 0
      BY <1>1, <1>4
    <3>2. Len(u[0]) = 0 /\ Len(v[0]) = 0 /\ Len(w[0]) = 0
      BY <3>1
    <3>3. Short(0)
      BY <3>2
    <3> HIDE DEF Short
    <3> QED BY <3>3
  <2>2. ASSUME NEW i \in Nat, i \in U PROVE i + 1 \in U
    <3> HIDE DEF Short
    <3> SUFFICES ASSUME i + 1 <= n PROVE Short(i + 1)
      OBVIOUS
    <3>1. i + 1 \in 1 .. n /\ i \in 0 .. n /\ (i + 1) - 1 = i
      BY <1>0
    <3>2. Short(i)
      BY <2>2, <3>1
    <3>3. /\ u[i + 1] = IF Of(i + 1, 0) THEN Append(u[i], i + 1) ELSE u[i]
          /\ v[i + 1] = IF Of(i + 1, 1) THEN Append(v[i], i + 1) ELSE v[i]
          /\ w[i + 1] = IF Of(i + 1, 2) THEN Append(w[i], i + 1) ELSE w[i]
      BY <1>1, <1>4, <3>1
    <3>4. u[i] \in Seq(Movement) /\ v[i] \in Seq(Movement) /\ w[i] \in Seq(Movement)
          /\ Len(u[i]) \in Nat /\ Len(v[i]) \in Nat /\ Len(w[i]) \in Nat
      BY <1>1, <1>4, <3>1
    <3>5. /\ ~(Of(i + 1, 0) /\ Of(i + 1, 1)) /\ ~(Of(i + 1, 0) /\ Of(i + 1, 2))
          /\ ~(Of(i + 1, 1) /\ Of(i + 1, 2))
      OBVIOUS
    <3>6. /\ Len(Append(u[i], i + 1)) = Len(u[i]) + 1
          /\ Len(Append(v[i], i + 1)) = Len(v[i]) + 1
          /\ Len(Append(w[i], i + 1)) = Len(w[i]) + 1
      BY <3>4
    <3> HIDE DEF Of
    <3>7. /\ Len(u[i + 1]) = IF Of(i + 1, 0) THEN Len(u[i]) + 1 ELSE Len(u[i])
          /\ Len(v[i + 1]) = IF Of(i + 1, 1) THEN Len(v[i]) + 1 ELSE Len(v[i])
          /\ Len(w[i + 1]) = IF Of(i + 1, 2) THEN Len(w[i]) + 1 ELSE Len(w[i])
      BY <3>3, <3>6
    <3> DEFINE x == Len(u[i])
               y == Len(v[i])
               z == Len(w[i])
               xx == Len(u[i + 1])
               yy == Len(v[i + 1])
               zz == Len(w[i + 1])
    <3>8. x \in Nat /\ y \in Nat /\ z \in Nat /\ x + y + z <= i
      BY <3>2, <3>4 DEF Short
    <3>9. /\ xx = IF Of(i + 1, 0) THEN x + 1 ELSE x
          /\ yy = IF Of(i + 1, 1) THEN y + 1 ELSE y
          /\ zz = IF Of(i + 1, 2) THEN z + 1 ELSE z
      BY <3>7
    <3> HIDE DEF x, y, z, xx, yy, zz
    <3>10. xx + yy + zz <= i + 1
      BY <3>5, <3>8, <3>9
    <3>11. Len(u[i + 1]) + Len(v[i + 1]) + Len(w[i + 1]) <= i + 1
      BY <3>10 DEF xx, yy, zz
    <3> QED BY <3>11 DEF Short
  <2> HIDE DEF U
  <2>3. n \in U /\ n <= n
    BY <1>0, <2>1, <2>2, Induction
  <2>4. Short(n)
    <3> HIDE DEF Short
    <3> QED BY <2>3 DEF U
  <2> QED BY <2>4
<1>5. PICK u, v, w : IsQueue(u, 0) /\ IsQueue(v, 1) /\ IsQueue(w, 2)
  BY <1>2
<1>6. /\ u[n] \in Seq(Movement) /\ v[n] \in Seq(Movement) /\ w[n] \in Seq(Movement)
  BY <1>0, <1>1, <1>5
<1>7. Queue(lanes) = (u[n] \o v[n]) \o w[n]
  BY <1>5 DEF Queue
<1>8. /\ ToSet(u[n]) = Upto(n, 0) /\ ToSet(v[n]) = Upto(n, 1) /\ ToSet(w[n]) = Upto(n, 2)
      /\ Len(u[n]) + Len(v[n]) + Len(w[n]) <= n
  BY <1>3, <1>4, <1>5
<1> HIDE DEF IsQueue, Upto
<1>9. u[n] \o v[n] \in Seq(Movement) /\ Queue(lanes) \in Seq(Movement)
      /\ Len(u[n] \o v[n]) = Len(u[n]) + Len(v[n]) /\ Len(Queue(lanes)) = Len(u[n] \o v[n]) + Len(w[n])
  BY <1>6, <1>7
<1>10. ToSet(Queue(lanes)) = (Upto(n, 0) \cup Upto(n, 1)) \cup Upto(n, 2)
  <2>1. ToSet(u[n] \o v[n]) = ToSet(u[n]) \cup ToSet(v[n])
    BY <1>6, ToSetConcat
  <2>2. ToSet((u[n] \o v[n]) \o w[n]) = ToSet(u[n] \o v[n]) \cup ToSet(w[n])
    BY <1>6, <1>9, ToSetConcat
  <2> QED BY <1>7, <1>8, <2>1, <2>2
<1>11. \A c \in Movement : TurnOrder(c) = 0 \/ TurnOrder(c) = 1 \/ TurnOrder(c) = 2
  BY DEF TurnOrder
<1>12. (Upto(n, 0) \cup Upto(n, 1)) \cup Upto(n, 2) = {c \in Movement : Connectors[c].from \in lanes}
  BY <1>0, <1>11 DEF Upto
<1> QED BY <1>8, <1>9, <1>10, <1>12

-----------------------------------------------------------------------------
(* The phases of a group                                                   *)
Splits == [phases : Seq(Queues), rest : Queues]
AnotherStep(queue) == [x \in Movement \X Splits |-> Another(x[2], x[1])]

LEMMA AnotherTyped == ASSUME NEW p \in Splits, NEW c \in Movement PROVE Another(p, c) \in Splits
<1>1. p.phases \in Seq(Queues) /\ p.rest \in Queues
  BY DEF Splits
<1>2. Pass(p.rest) \in Passes
  BY <1>1, PassSplits DEF Queues
<1>3. Pass(p.rest).phase \in Queues /\ Pass(p.rest).rest \in Queues
  BY <1>2 DEF Passes, Queues
<1>4. Append(p.phases, Pass(p.rest).phase) \in Seq(Queues)
  BY <1>1, <1>3
<1>5. [phases |-> Append(p.phases, Pass(p.rest).phase), rest |-> Pass(p.rest).rest] \in Splits
  BY <1>3, <1>4 DEF Splits
<1> QED BY <1>5 DEF Another

LEMMA AnotherIs ==
  ASSUME NEW queue \in Queues, NEW n, n = Len(Connectors)
  PROVE  \E u : Steps(u, AnotherStep(queue), [phases |-> <<>>, rest |-> queue], InTurn, n, Splits) /\ FoldLeft(Another, [phases |-> <<>>, rest |-> queue], InTurn) = u[n]
<1> DEFINE A == Splits
           F == AnotherStep(queue)
           base == [phases |-> <<>>, rest |-> queue]
           S == 1 .. n
           Iter(h) == h = [T \in SUBSET S |-> IF T = {} THEN base ELSE Another(h[T \ {Max(T)}], InTurn[Max(T)])]
<1>t. n \in Nat /\ InTurn \in [1 .. n -> Movement] /\ DOMAIN InTurn = 1 .. n
  BY Numbered
<1>1. F \in [Movement \X A -> A] /\ base \in A
  <2>1. base \in A
    BY DEF Splits
  <2> QED BY <2>1, AnotherTyped DEF AnotherStep
<1>2. \A p \in A : \A c \in Movement : F[<<c, p>>] = Another(p, c)
  BY DEF AnotherStep
<1>3. \A T \in SUBSET S : T # {} => Greatests(n)[T] = Max(T) /\ InTurn[Max(T)] \in Movement
  BY <1>t, GreatestIn
<1>4. ASSUME NEW g, Folding(g, F, base, InTurn, Greatests(n), SUBSET S, A) PROVE Iter(g)
  <2> HIDE DEF F, base, S, A
  <2>1. g \in [SUBSET S -> A]
    BY <1>4 DEF Folding
  <2>2. ASSUME NEW T \in SUBSET S, T # {} PROVE g[T] = Another(g[T \ {Max(T)}], InTurn[Max(T)])
    <3>1. g[T] = F[<<InTurn[Greatests(n)[T]], g[T \ {Greatests(n)[T]}]>>]
      BY <1>4, <2>2 DEF Folding
    <3>2. T \ {Max(T)} \in SUBSET S
      OBVIOUS
    <3>3. F[<<InTurn[Max(T)], g[T \ {Max(T)}]>>] = Another(g[T \ {Max(T)}], InTurn[Max(T)])
      BY <1>2, <1>3, <2>1, <2>2, <3>2
    <3> QED BY <1>3, <2>2, <3>1, <3>3
  <2>3. {} \in SUBSET S /\ g[{}] = base
    BY <1>4 DEF Folding
  <2>4. \A T \in SUBSET S : g[T] = IF T = {} THEN base ELSE Another(g[T \ {Max(T)}], InTurn[Max(T)])
    BY <2>2, <2>3
  <2> QED BY <2>1, <2>4
<1>5. ASSUME NEW h, Iter(h) PROVE FoldRule(h, F, base, InTurn, Greatests(n), S, A)
  <2> HIDE DEF F, base, S, A
  <2>1. h[{}] = base
    BY <1>5
  <2>2. ASSUME NEW T \in SUBSET S, T # {}, h[T \ {Greatests(n)[T]}] \in A
        PROVE  h[T] = F[<<InTurn[Greatests(n)[T]], h[T \ {Greatests(n)[T]}]>>]
    <3>1. h[T] = Another(h[T \ {Max(T)}], InTurn[Max(T)])
      BY <1>5, <2>2
    <3>2. Greatests(n)[T] = Max(T) /\ InTurn[Max(T)] \in Movement
      BY <1>3, <2>2
    <3>3. F[<<InTurn[Max(T)], h[T \ {Max(T)}]>>] = Another(h[T \ {Max(T)}], InTurn[Max(T)])
      BY <1>2, <2>2, <3>2
    <3> QED BY <3>1, <3>2, <3>3
  <2> QED BY <2>1, <2>2 DEF FoldRule
<1> DEFINE h == CHOOSE x : Iter(x)
<1>6. FoldLeft(Another, [phases |-> <<>>, rest |-> queue], InTurn) = h[S]
  BY <1>t DEF FoldLeft, MapThenFoldSet
<1>7. Iter(h)
  <2>1. \E g : Folding(g, F, base, InTurn, Greatests(n), SUBSET S, A)
    <3>1. IsFiniteSet(S) /\ InTurn \in [S -> Movement] /\ Picks(Greatests(n), S)
      BY <1>t, FS_Interval, GreatestsPick
    <3> HIDE DEF F, base, S, A
    <3> QED BY <1>1, <3>1, FoldingExists
  <2>2. \E g : Iter(g)
    <3> HIDE DEF F, base, S, A, Iter
    <3> QED BY <1>4, <2>1
  <2> HIDE DEF Iter
  <2> QED BY <2>2
<1>8. FoldRule(h, F, base, InTurn, Greatests(n), 1 .. n, A)
  <2> HIDE DEF h, F, base, A, Iter
  <2> QED BY <1>5, <1>7
<1>9. \E u : Steps(u, F, base, InTurn, n, A) /\ u[n] = h[1 .. n]
  <2> HIDE DEF h, F, base, A
  <2>1. FoldOf(h, F, base, InTurn, n, A, Movement)
    BY <1>t, <1>1, <1>8 DEF FoldOf
  <2> QED BY <2>1, FoldSteps
<1> HIDE DEF h
<1> QED BY <1>6, <1>9

SplitOK(p, X) ==
  /\ \A k \in DOMAIN p.phases : Harmless(ToSet(p.phases[k]))
  /\ \A c \in X : c \in ToSet(p.rest) \/ \E k \in DOMAIN p.phases : c \in ToSet(p.phases[k])

LEMMA AnotherOK ==
  ASSUME NEW p \in Splits, NEW c, NEW X, SplitOK(p, X)
  PROVE  /\ SplitOK(Another(p, c), X)
         /\ p.rest = <<>> => Another(p, c) = p
         /\ p.rest # <<>> => Len(Another(p, c).rest) < Len(p.rest)
<1>1. CASE p.rest = <<>>
  BY <1>1 DEF Another
<1>2. CASE p.rest # <<>>
  <2> DEFINE q == Pass(p.rest)
  <2>1. p.phases \in Seq(Queues) /\ p.rest \in Seq(Movement)
    BY DEF Splits, Queues
  <2>2. q \in Passes /\ PassOK(q, ToSet(p.rest)) /\ Len(q.rest) < Len(p.rest)
    BY <1>2, <2>1, PassSplits
  <2>3. q.phase \in Queues
    BY <2>2 DEF Passes, Queues
  <2>4. Another(p, c).phases = Append(p.phases, q.phase) /\ Another(p, c).rest = q.rest
    BY <1>2 DEF Another
  <2> HIDE DEF q
  <2>5. /\ DOMAIN Append(p.phases, q.phase) = DOMAIN p.phases \cup {Len(p.phases) + 1}
        /\ \A k \in DOMAIN p.phases : Append(p.phases, q.phase)[k] = p.phases[k]
        /\ Append(p.phases, q.phase)[Len(p.phases) + 1] = q.phase
    BY <2>1, <2>3
  <2>6. Harmless(ToSet(q.phase)) /\ ToSet(q.phase) \cup ToSet(q.rest) = ToSet(p.rest)
    BY <2>2 DEF PassOK
  <2>7. \A k \in DOMAIN Append(p.phases, q.phase) : Harmless(ToSet(Append(p.phases, q.phase)[k]))
    BY <2>5, <2>6 DEF SplitOK
  <2>8. ASSUME NEW d \in X
        PROVE  \/ d \in ToSet(q.rest)
               \/ \E k \in DOMAIN Append(p.phases, q.phase) : d \in ToSet(Append(p.phases, q.phase)[k])
    <3>1. CASE d \in ToSet(p.rest)
      BY <3>1, <2>5, <2>6
    <3>2. CASE \E k \in DOMAIN p.phases : d \in ToSet(p.phases[k])
      BY <3>2, <2>5
    <3> QED BY <3>1, <3>2 DEF SplitOK
  <2>9. SplitOK(Another(p, c), X)
    BY <2>4, <2>7, <2>8 DEF SplitOK
  <2> QED BY <1>2, <2>2, <2>4, <2>9
<1> QED BY <1>1, <1>2

LEMMA SplitCovers ==
  ASSUME NEW queue \in Seq(Movement), Len(queue) <= Len(Connectors)
  PROVE  /\ Split(queue) \in Seq(Queues)
         /\ \A k \in DOMAIN Split(queue) : Harmless(ToSet(Split(queue)[k]))
         /\ \A c \in ToSet(queue) : \E k \in DOMAIN Split(queue) : c \in ToSet(Split(queue)[k])
<1> DEFINE n == Len(Connectors)
           X == ToSet(queue)
<1>0. n \in Nat /\ \A i \in 1 .. n : InTurn[i] \in Movement
  BY Numbered
<1>1. PICK u : /\ Steps(u, AnotherStep(queue), [phases |-> <<>>, rest |-> queue], InTurn, n, Splits)
               /\ FoldLeft(Another, [phases |-> <<>>, rest |-> queue], InTurn) = u[n]
  BY AnotherIs DEF Queues
<1>2. Split(queue) = u[n].phases
  BY <1>1 DEF Split
<1>3. /\ u \in [0 .. n -> Splits] /\ u[0] = [phases |-> <<>>, rest |-> queue]
      /\ \A i \in 1 .. n : u[i] = AnotherStep(queue)[<<InTurn[i], u[i - 1]>>]
  BY <1>1 DEF Steps
<1> HIDE DEF n, X
<1>4. ASSUME NEW i \in 1 .. n PROVE u[i] = Another(u[i - 1], InTurn[i])
  <2>1. i - 1 \in 0 .. n /\ u[i - 1] \in Splits /\ InTurn[i] \in Movement
    BY <1>0, <1>3
  <2> QED BY <1>3, <2>1 DEF AnotherStep
<1>5. \A p \in Splits : p.rest \in Seq(Movement) /\ Len(p.rest) \in Nat /\ (Len(p.rest) = 0 => p.rest = <<>>)
  BY DEF Splits, Queues
<1> DEFINE Short(i) == u[i].rest = <<>> \/ Len(u[i].rest) + i <= n
           Good(i) == SplitOK(u[i], X) /\ Short(i)
           U == {i \in Nat : i <= n => Good(i)}
<1>6. 0 \in U
  <2>1. u[0].rest = queue /\ u[0].phases = <<>> /\ Len(queue) \in Nat /\ DOMAIN <<>> = {}
    BY <1>3
  <2>2. SplitOK(u[0], X)
    BY <2>1 DEF SplitOK, X
  <2>3. Short(0)
    BY <2>1 DEF n
  <2> HIDE DEF Short
  <2>4. Good(0)
    BY <2>2, <2>3
  <2> HIDE DEF Good
  <2> QED BY <2>4
<1>7. ASSUME NEW i \in Nat, i \in U PROVE i + 1 \in U
  <2> HIDE DEF Good
  <2> SUFFICES ASSUME i + 1 <= n PROVE Good(i + 1)
    OBVIOUS
  <2>1. i + 1 \in 1 .. n /\ i \in 0 .. n /\ (i + 1) - 1 = i
    BY <1>0
  <2>2. Good(i)
    BY <1>7, <2>1
  <2>3. u[i + 1] = Another(u[i], InTurn[i + 1]) /\ u[i] \in Splits
    BY <1>3, <1>4, <2>1
  <2>4. SplitOK(u[i], X) /\ Short(i)
    BY <2>2 DEF Good
  <2>5. /\ SplitOK(u[i + 1], X)
        /\ u[i].rest = <<>> => u[i + 1] = u[i]
        /\ u[i].rest # <<>> => Len(u[i + 1].rest) < Len(u[i].rest)
    BY <2>3, <2>4, AnotherOK
  <2>6. Short(i + 1)
    <3>1. CASE u[i].rest = <<>>
      BY <3>1, <2>5
    <3>2. CASE u[i].rest # <<>>
      <4> DEFINE x == Len(u[i].rest)
                 y == Len(u[i + 1].rest)
      <4>1. u[i + 1] \in Splits
        BY <1>3, <2>1
      <4>2. x \in Nat /\ y \in Nat /\ y < x /\ x + i <= n
        BY <1>5, <2>3, <2>4, <2>5, <3>2, <4>1
      <4> HIDE DEF x, y
      <4>3. y + (i + 1) <= n
        BY <1>0, <4>2
      <4> QED BY <4>3 DEF y
    <3> QED BY <3>1, <3>2
  <2> HIDE DEF Short
  <2> QED BY <2>5, <2>6 DEF Good
<1>8. Good(n)
  <2> HIDE DEF Good, U
  <2>1. n \in U /\ n <= n
    BY <1>0, <1>6, <1>7, Induction
  <2> QED BY <2>1 DEF U
<1>9. u[n] \in Splits
  BY <1>0, <1>3
<1>10. u[n].rest = <<>>
  <2> DEFINE x == Len(u[n].rest)
  <2>1. u[n].rest = <<>> \/ x + n <= n
    BY <1>8
  <2>2. x \in Nat /\ (x = 0 => u[n].rest = <<>>)
    BY <1>5, <1>9
  <2> HIDE DEF x
  <2> QED BY <1>0, <2>1, <2>2
<1>11. SplitOK(u[n], X) /\ ToSet(u[n].rest) = {}
  BY <1>8, <1>10 DEF ToSet
<1>12. Split(queue) \in Seq(Queues)
  BY <1>2, <1>9 DEF Splits
<1> QED BY <1>2, <1>11, <1>12 DEF SplitOK, X

PhasePlans == [connectors : SUBSET Movement, protected : BOOLEAN]
Timetables == Seq(PhasePlans)

(* No phase of the plan has movements that may not go together, and the    *)
(* movements of X all get a phase.                                         *)
PlanOK(ps, X) ==
  /\ \A k \in DOMAIN ps : Harmless(ps[k].connectors)
  /\ \A c \in X : \E k \in DOMAIN ps : c \in ps[k].connectors

LEMMA MarkedOK ==
  ASSUME NEW split \in Seq(Queues), NEW X,
         \A k \in DOMAIN split : Harmless(ToSet(split[k])),
         \A c \in X : \E k \in DOMAIN split : c \in ToSet(split[k])
  PROVE  Marked(split) \in Timetables /\ PlanOK(Marked(split), X)
<1>1. \A k \in DOMAIN split : ToSet(split[k]) \in SUBSET Movement
  <2>1. \A q \in Queues : ToSet(q) \in SUBSET Movement
    BY DEF Queues, ToSet
  <2>2. \A k \in DOMAIN split : split[k] \in Queues
    OBVIOUS
  <2> QED BY <2>1, <2>2
<1>2. DOMAIN split = 1 .. Len(split) /\ Len(split) \in Nat
  OBVIOUS
<1> DEFINE m == Marked(split)
<1>3. /\ DOMAIN m = DOMAIN split
      /\ \A k \in DOMAIN split : m[k] \in PhasePlans /\ m[k].connectors = ToSet(split[k])
  <2>1. \A k \in DOMAIN split : [connectors |-> ToSet(split[k]), protected |-> k > 1] \in PhasePlans
    BY <1>1 DEF PhasePlans
  <2> QED BY <2>1 DEF Marked
<1>4. m \in [1 .. Len(split) -> PhasePlans]
  BY <1>2, <1>3 DEF Marked
<1> HIDE DEF m
<1>5. m \in Timetables
  BY <1>2, <1>4 DEF Timetables
<1>6. PlanOK(m, X)
  BY <1>3 DEF PlanOK
<1> QED BY <1>5, <1>6 DEF m

LEMMA MainLastOK ==
  ASSUME NEW ps \in Timetables, NEW X, PlanOK(ps, X)
  PROVE  MainLast(ps) \in Timetables /\ PlanOK(MainLast(ps), X)
<1>1. CASE ps = <<>>
  BY <1>1 DEF MainLast
<1>2. CASE ps # <<>>
  <2> DEFINE m == Tail(ps) \o <<Head(ps)>>
             n == Len(ps)
  <2>1. n \in Nat /\ n >= 1 /\ ps \in Seq(PhasePlans) /\ DOMAIN ps = 1 .. n
    BY <1>2 DEF Timetables
  <2>2. m \in Seq(PhasePlans) /\ DOMAIN m = 1 .. n
    BY <1>2, <2>1
  <2>3. \A k \in 1 .. (n - 1) : m[k] = ps[k + 1]
    BY <1>2, <2>1
  <2>4. m[n] = ps[1]
    BY <1>2, <2>1
  <2> HIDE DEF m, n
  <2>5. \A k \in 1 .. n : \E j \in 1 .. n : m[k] = ps[j]
    <3>1. \A k \in 1 .. (n - 1) : k + 1 \in 1 .. n
      BY <2>1
    <3>2. \A k \in 1 .. n : k \in 1 .. (n - 1) \/ k = n
      BY <2>1
    <3> QED BY <2>1, <2>3, <2>4, <3>1, <3>2
  <2>6. \A j \in 1 .. n : \E k \in 1 .. n : m[k] = ps[j]
    <3>1. ASSUME NEW j \in 1 .. n, j # 1 PROVE j - 1 \in 1 .. (n - 1) /\ (j - 1) + 1 = j /\ j - 1 \in 1 .. n
      BY <2>1, <3>1
    <3>2. n \in 1 .. n
      BY <2>1
    <3>3. ASSUME NEW j \in 1 .. n, j # 1 PROVE \E k \in 1 .. n : m[k] = ps[j]
      BY <3>1, <3>3, <2>3
    <3> QED BY <3>2, <3>3, <2>4
  <2>7. PlanOK(m, X)
    BY <2>1, <2>2, <2>5, <2>6 DEF PlanOK
  <2> QED BY <1>2, <2>2, <2>7 DEF m, MainLast, Timetables
<1> QED BY <1>1, <1>2

LEMMA GroupPhasesOK ==
  ASSUME NEW lanes
  PROVE  /\ GroupPhases(lanes) \in Timetables
         /\ PlanOK(GroupPhases(lanes), {c \in Movement : Connectors[c].from \in lanes})
<1> DEFINE X == {c \in Movement : Connectors[c].from \in lanes}
           q == Queue(lanes)
<1>1. q \in Seq(Movement) /\ Len(q) <= Len(Connectors) /\ ToSet(q) = X
  BY QueueIs
<1> HIDE DEF q, X
<1>2. /\ Split(q) \in Seq(Queues)
      /\ \A k \in DOMAIN Split(q) : Harmless(ToSet(Split(q)[k]))
      /\ \A c \in X : \E k \in DOMAIN Split(q) : c \in ToSet(Split(q)[k])
  BY <1>1, SplitCovers
<1>3. Marked(Split(q)) \in Timetables /\ PlanOK(Marked(Split(q)), X)
  BY <1>2, MarkedOK
<1>4. MainLast(Marked(Split(q))) \in Timetables /\ PlanOK(MainLast(Marked(Split(q))), X)
  BY <1>3, MainLastOK
<1> QED BY <1>4 DEF GroupPhases, q, X

-----------------------------------------------------------------------------
(* The controller                                                          *)
PlannedStep == [x \in ToSet(Groups) \X Timetables |-> x[2] \o GroupPhases(x[1])]

LEMMA PlannedIs ==
  ASSUME NEW n, n = Len(Groups)
  PROVE  \E u : Steps(u, PlannedStep, <<>>, Groups, n, Timetables) /\ Planned = u[n]
<1> DEFINE A == Timetables
           F == PlannedStep
           base == <<>>
           S == 1 .. n
           Iter(h) == h = [T \in SUBSET S |-> IF T = {} THEN base ELSE h[T \ {Max(T)}] \o GroupPhases(Groups[Max(T)])]
<1>t. n \in Nat /\ Groups \in [1 .. n -> ToSet(Groups)] /\ DOMAIN Groups = 1 .. n
  BY SignalsAssumption
<1>0. ASSUME NEW p \in A, NEW c \in ToSet(Groups) PROVE p \o GroupPhases(c) \in A
  <2>1. GroupPhases(c) \in Timetables
    BY GroupPhasesOK
  <2> QED BY <2>1 DEF Timetables
<1>1. F \in [ToSet(Groups) \X A -> A] /\ base \in A
  <2>1. base \in A
    BY DEF Timetables
  <2> QED BY <2>1, <1>0 DEF PlannedStep
<1>2. \A p \in A : \A c \in ToSet(Groups) : F[<<c, p>>] = p \o GroupPhases(c)
  BY DEF PlannedStep
<1>3. \A T \in SUBSET S : T # {} => Greatests(n)[T] = Max(T) /\ Groups[Max(T)] \in ToSet(Groups)
  BY <1>t, GreatestIn
<1>4. ASSUME NEW g, Folding(g, F, base, Groups, Greatests(n), SUBSET S, A) PROVE Iter(g)
  <2> HIDE DEF F, base, S, A
  <2>1. g \in [SUBSET S -> A]
    BY <1>4 DEF Folding
  <2>2. ASSUME NEW T \in SUBSET S, T # {} PROVE g[T] = g[T \ {Max(T)}] \o GroupPhases(Groups[Max(T)])
    <3>1. g[T] = F[<<Groups[Greatests(n)[T]], g[T \ {Greatests(n)[T]}]>>]
      BY <1>4, <2>2 DEF Folding
    <3>2. T \ {Max(T)} \in SUBSET S
      OBVIOUS
    <3>3. F[<<Groups[Max(T)], g[T \ {Max(T)}]>>] = g[T \ {Max(T)}] \o GroupPhases(Groups[Max(T)])
      BY <1>2, <1>3, <2>1, <2>2, <3>2
    <3> QED BY <1>3, <2>2, <3>1, <3>3
  <2>3. {} \in SUBSET S /\ g[{}] = base
    BY <1>4 DEF Folding
  <2>4. \A T \in SUBSET S : g[T] = IF T = {} THEN base ELSE g[T \ {Max(T)}] \o GroupPhases(Groups[Max(T)])
    BY <2>2, <2>3
  <2> QED BY <2>1, <2>4
<1>5. ASSUME NEW h, Iter(h) PROVE FoldRule(h, F, base, Groups, Greatests(n), S, A)
  <2> HIDE DEF F, base, S, A
  <2>1. h[{}] = base
    BY <1>5
  <2>2. ASSUME NEW T \in SUBSET S, T # {}, h[T \ {Greatests(n)[T]}] \in A
        PROVE  h[T] = F[<<Groups[Greatests(n)[T]], h[T \ {Greatests(n)[T]}]>>]
    <3>1. h[T] = h[T \ {Max(T)}] \o GroupPhases(Groups[Max(T)])
      BY <1>5, <2>2
    <3>2. Greatests(n)[T] = Max(T) /\ Groups[Max(T)] \in ToSet(Groups)
      BY <1>3, <2>2
    <3>3. F[<<Groups[Max(T)], h[T \ {Max(T)}]>>] = h[T \ {Max(T)}] \o GroupPhases(Groups[Max(T)])
      BY <1>2, <2>2, <3>2
    <3> QED BY <3>1, <3>2, <3>3
  <2> QED BY <2>1, <2>2 DEF FoldRule
<1> DEFINE h == CHOOSE x : Iter(x)
<1>6. Planned = h[S]
  BY <1>t DEF Planned, FoldLeft, MapThenFoldSet
<1>7. Iter(h)
  <2>1. \E g : Folding(g, F, base, Groups, Greatests(n), SUBSET S, A)
    <3>1. IsFiniteSet(S) /\ Groups \in [S -> ToSet(Groups)] /\ Picks(Greatests(n), S)
      BY <1>t, FS_Interval, GreatestsPick
    <3> HIDE DEF F, base, S, A
    <3> QED BY <1>1, <3>1, FoldingExists
  <2>2. \E g : Iter(g)
    <3> HIDE DEF F, base, S, A, Iter
    <3> QED BY <1>4, <2>1
  <2> HIDE DEF Iter
  <2> QED BY <2>2
<1>8. FoldRule(h, F, base, Groups, Greatests(n), 1 .. n, A)
  <2> HIDE DEF h, F, base, A, Iter
  <2> QED BY <1>5, <1>7
<1>9. \E u : Steps(u, F, base, Groups, n, A) /\ u[n] = h[1 .. n]
  <2> HIDE DEF h, F, base, A
  <2>1. FoldOf(h, F, base, Groups, n, A, ToSet(Groups))
    BY <1>t, <1>1, <1>8 DEF FoldOf
  <2> QED BY <2>1, FoldSteps
<1> HIDE DEF h
<1> QED BY <1>6, <1>9

LEMMA ConcatOK ==
  ASSUME NEW p \in Timetables, NEW q \in Timetables, NEW X, NEW Y, PlanOK(p, X), PlanOK(q, Y)
  PROVE  PlanOK(p \o q, X \cup Y)
<1>0. p \in Seq(PhasePlans) /\ q \in Seq(PhasePlans)
  BY DEF Timetables
<1>1. \A i \in DOMAIN p : i \in DOMAIN (p \o q) /\ (p \o q)[i] = p[i]
  BY <1>0
<1>2. \A i \in DOMAIN q : Len(p) + i \in DOMAIN (p \o q) /\ (p \o q)[Len(p) + i] = q[i]
  BY <1>0
<1>3. \A i \in DOMAIN (p \o q) :
        i \in DOMAIN p \/ (i - Len(p) \in DOMAIN q /\ (p \o q)[i] = q[i - Len(p)])
  BY <1>0
<1>4. \A i \in DOMAIN (p \o q) : Harmless((p \o q)[i].connectors)
  BY <1>1, <1>3 DEF PlanOK
<1>5. \A c \in X : \E k \in DOMAIN (p \o q) : c \in (p \o q)[k].connectors
  BY <1>1 DEF PlanOK
<1>6. \A c \in Y : \E k \in DOMAIN (p \o q) : c \in (p \o q)[k].connectors
  BY <1>2 DEF PlanOK
<1> QED BY <1>4, <1>5, <1>6 DEF PlanOK

LEMMA PlannedOK == Planned \in Timetables /\ PlanOK(Planned, Movement)
<1> DEFINE n == Len(Groups)
           Of(i) == {c \in Movement : Connectors[c].from \in Groups[i]}
           Upto(i) == {c \in Movement : \E j \in 1 .. i : Connectors[c].from \in Groups[j]}
<1>0. n \in Nat /\ DOMAIN Groups = 1 .. n /\ \A i \in 1 .. n : Groups[i] \in ToSet(Groups)
  BY SignalsAssumption DEF ToSet
<1>1. PICK u : Steps(u, PlannedStep, <<>>, Groups, n, Timetables) /\ Planned = u[n]
  BY PlannedIs
<1>2. /\ u \in [0 .. n -> Timetables] /\ u[0] = <<>>
      /\ \A i \in 1 .. n : u[i] = PlannedStep[<<Groups[i], u[i - 1]>>]
  BY <1>1 DEF Steps
<1> HIDE DEF n
<1>3. ASSUME NEW i \in 1 .. n PROVE u[i] = u[i - 1] \o GroupPhases(Groups[i])
  <2>1. i - 1 \in 0 .. n /\ u[i - 1] \in Timetables /\ Groups[i] \in ToSet(Groups)
    BY <1>0, <1>2
  <2> QED BY <1>2, <2>1 DEF PlannedStep
<1> DEFINE Good(i) == PlanOK(u[i], Upto(i))
           U == {i \in Nat : i <= n => Good(i)}
<1>4. 0 \in U
  <2>1. Upto(0) = {} /\ DOMAIN <<>> = {}
    OBVIOUS
  <2>2. Good(0)
    BY <1>2, <2>1 DEF PlanOK
  <2> HIDE DEF Good
  <2> QED BY <2>2
<1>5. ASSUME NEW i \in Nat, i \in U PROVE i + 1 \in U
  <2> HIDE DEF Good
  <2> SUFFICES ASSUME i + 1 <= n PROVE Good(i + 1)
    OBVIOUS
  <2>1. i + 1 \in 1 .. n /\ i \in 0 .. n /\ (i + 1) - 1 = i
    BY <1>0
  <2>2. Good(i)
    BY <1>5, <2>1
  <2>3. Upto(i + 1) = Upto(i) \cup Of(i + 1)
    <3>1. 1 .. (i + 1) = (1 .. i) \cup {i + 1}
      OBVIOUS
    <3> QED BY <3>1
  <2>4. GroupPhases(Groups[i + 1]) \in Timetables /\ PlanOK(GroupPhases(Groups[i + 1]), Of(i + 1))
    BY GroupPhasesOK
  <2>5. PlanOK(u[i], Upto(i)) /\ u[i] \in Timetables
    BY <1>2, <2>1, <2>2 DEF Good
  <2>6. u[i + 1] = u[i] \o GroupPhases(Groups[i + 1])
    BY <1>3, <2>1
  <2> HIDE DEF Upto, Of
  <2>7. PlanOK(u[i + 1], Upto(i + 1))
    BY <2>3, <2>4, <2>5, <2>6, ConcatOK
  <2> QED BY <2>7 DEF Good
<1>6. Good(n)
  <2> HIDE DEF Good, U
  <2>1. n \in U /\ n <= n
    BY <1>0, <1>4, <1>5, Induction
  <2> QED BY <2>1 DEF U
<1>7. Upto(n) = Movement
  BY <1>0, SignalsAssumption
<1>8. Planned \in Timetables
  BY <1>0, <1>1, <1>2
<1> QED BY <1>1, <1>6, <1>7, <1>8

LEMMA MaxOfTwo ==
  ASSUME NEW a \in Int, NEW b \in Int
  PROVE  Max({a, b}) \in {a, b} /\ Max({a, b}) >= a /\ Max({a, b}) >= b
<1>1. \E x \in {a, b} : \A y \in {a, b} : x >= y
  OBVIOUS
<1>2. Max({a, b}) \in {a, b} /\ \A y \in {a, b} : Max({a, b}) >= y
  BY <1>1 DEF Max
<1> QED BY <1>2

LEMMA MainGreenLong ==
  ASSUME NEW n \in Nat, NEW protected \in Nat
  PROVE  MainGreen(n, protected) \in Nat /\ MainGreen(n, protected) >= MinGreen
<1> DEFINE d == Max({n - protected, 1})
           x == TargetCycle(n) - n * (Amber + AllRed) - protected * ProtectedGreen
<1>1. d \in Int /\ d >= 1
  BY MaxOfTwo
<1>2. TargetCycle(n) \in Int
  BY DEF TargetCycle
<1>3. x \in Int
  BY <1>2 DEF Amber, AllRed, ProtectedGreen
<1> HIDE DEF d, x
<1>4. x \div d \in Int
  BY <1>1, <1>3
<1>5. Max({x \div d, MinGreen}) \in {x \div d, MinGreen} /\ Max({x \div d, MinGreen}) >= MinGreen
  <2>1. MinGreen \in Int
    BY DEF MinGreen
  <2> QED BY <1>4, <2>1, MaxOfTwo
<1>6. MainGreen(n, protected) = Max({x \div d, MinGreen})
  BY DEF MainGreen, x, d
<1> QED BY <1>4, <1>5, <1>6 DEF MinGreen

(* The controller's phases have greens, hold no movements that may not go  *)
(* together, and leave no movement out.                                    *)
LEMMA PhasesOK ==
  /\ SpansOK(Phases) /\ PlanOK(Phases, Movement)
  /\ \A k \in DOMAIN Phases : Phases[k].green \in Nat /\ Phases[k].green >= ProtectedGreen
<1>1. Planned \in Seq(PhasePlans) /\ PlanOK(Planned, Movement)
  BY PlannedOK DEF Timetables
<1>2. DOMAIN Planned = 1 .. Len(Planned) /\ Len(Planned) \in Nat
  BY <1>1
<1> DEFINE p == Cardinality({j \in DOMAIN Planned : Planned[j].protected})
           ps == Phases
<1>3. p \in Nat
  <2>1. IsFiniteSet(DOMAIN Planned)
    BY <1>2, FS_Interval
  <2>2. IsFiniteSet({j \in DOMAIN Planned : Planned[j].protected})
    BY <2>1, FS_Subset
  <2> QED BY <2>2, FS_CardinalityType
<1>4. /\ DOMAIN ps = DOMAIN Planned
      /\ \A k \in DOMAIN Planned : /\ ps[k].connectors = Planned[k].connectors
                                   /\ ps[k].green = IF Planned[k].protected THEN ProtectedGreen
                                                    ELSE MainGreen(Len(Planned), p)
  BY DEF Phases, Timed
<1>5. ps = [k \in 1 .. Len(Planned) |-> ps[k]]
  BY <1>2, <1>4 DEF Phases, Timed
<1> HIDE DEF p, ps
<1>6. Len(ps) = Len(Planned)
  <2>1. ps \in [1 .. Len(Planned) -> {ps[k] : k \in 1 .. Len(Planned)}]
    BY <1>5
  <2> QED BY <1>2, <2>1
<1>7. MainGreen(Len(Planned), p) \in Nat /\ MainGreen(Len(Planned), p) >= MinGreen
  BY <1>2, <1>3, MainGreenLong
<1>8. \A k \in DOMAIN ps : ps[k].green \in Nat /\ ps[k].green >= ProtectedGreen
  BY <1>4, <1>7 DEF ProtectedGreen, MinGreen
<1>9. SpansOK(ps)
  BY <1>2, <1>4, <1>6, <1>8 DEF SpansOK, Span, Amber, AllRed
<1>10. PlanOK(ps, Movement)
  BY <1>1, <1>4 DEF PlanOK
<1> QED BY <1>8, <1>9, <1>10 DEF ps

-----------------------------------------------------------------------------
(* When phases run                                                         *)
LEMMA StartsGrow ==
  ASSUME NEW ps, SpansOK(ps)
  PROVE  \A j, k \in 1 .. Len(ps) + 1 : j <= k => Start(ps, j) <= Start(ps, k) /\ Start(ps, j) \in Nat /\ Start(ps, k) \in Nat
<1> DEFINE n == Len(ps)
           S(k) == Start(ps, k)
<1>0. n \in Nat /\ DOMAIN ps = 1 .. n
  BY DEF SpansOK
<1>1. \A k \in 1 .. n : S(k + 1) = S(k) + Span(ps[k]) /\ Span(ps[k]) \in Nat
  BY <1>0, StartsAdd DEF SpansOK
<1>2. \A k \in 1 .. n + 1 : S(k) \in Nat
  <2>1. \A k \in 1 .. n + 1 : k \in 1 .. n \/ k = n + 1
    BY <1>0
  <2>2. \A k \in 1 .. n : S(k) \in Nat
    BY <1>0, StartsAdd
  <2>3. S(n + 1) \in Nat
    BY <1>0, StartsAdd
  <2> QED BY <2>1, <2>2, <2>3
<1> HIDE DEF n, S
<1> DEFINE P(m) == \A j \in 1 .. n + 1 : j + m <= n + 1 => S(j) <= S(j + m)
           U == {m \in Nat : P(m)}
<1>3. 0 \in U
  <2>1. P(0)
    BY <1>0, <1>2
  <2> HIDE DEF P
  <2> QED BY <2>1
<1>4. ASSUME NEW m \in Nat, m \in U PROVE m + 1 \in U
  <2>1. P(m)
    BY <1>4
  <2>2. ASSUME NEW j \in 1 .. n + 1, j + (m + 1) <= n + 1 PROVE S(j) <= S(j + (m + 1))
    <3>1. j + m \in 1 .. n /\ (j + m) + 1 = j + (m + 1) /\ j + m <= n + 1 /\ j + m \in 1 .. n + 1
      BY <1>0, <2>2
    <3>2. S(j) <= S(j + m)
      BY <2>1, <3>1
    <3>3. S((j + m) + 1) = S(j + m) + Span(ps[j + m]) /\ Span(ps[j + m]) \in Nat
      BY <1>1, <3>1
    <3>4. S(j) \in Nat /\ S(j + m) \in Nat
      BY <1>2, <3>1
    <3>5. S(j) <= S((j + m) + 1)
      BY <3>2, <3>3, <3>4
    <3> QED BY <3>1, <3>5
  <2>3. P(m + 1)
    BY <2>2
  <2> HIDE DEF P
  <2> QED BY <2>3
<1>5. ASSUME NEW j \in 1 .. n + 1, NEW k \in 1 .. n + 1, j <= k PROVE S(j) <= S(k)
  <2>1. k - j \in Nat /\ j + (k - j) = k /\ j + (k - j) <= n + 1
    BY <1>0, <1>5
  <2>2. P(k - j)
    <3> HIDE DEF P, U
    <3>1. \A m \in Nat : m \in U
      BY <1>3, <1>4, Induction
    <3>2. k - j \in U
      BY <2>1, <3>1
    <3> QED BY <3>2 DEF U
  <2> QED BY <2>1, <2>2
<1> QED BY <1>2, <1>5 DEF n, S

Runs(ps, k, u) == Start(ps, k) <= u /\ u <= Start(ps, k) + Span(ps[k]) - 1

LEMMA PhasesApart ==
  ASSUME NEW ps, SpansOK(ps)
  PROVE  /\ \A j, k \in DOMAIN ps : j < k => Start(ps, j) + Span(ps[j]) <= Start(ps, k)
         /\ \A k \in DOMAIN ps : Start(ps, k) + Span(ps[k]) <= Length(ps) /\ Start(ps, k) \in Nat /\ Span(ps[k]) \in Nat
         /\ Length(ps) \in Nat
<1>0. Len(ps) \in Nat /\ DOMAIN ps = 1 .. Len(ps) /\ \A k \in DOMAIN ps : Span(ps[k]) \in Nat
  BY DEF SpansOK
<1>1. /\ \A k \in DOMAIN ps : Start(ps, k) \in Nat /\ Start(ps, k + 1) = Start(ps, k) + Span(ps[k])
      /\ Length(ps) = Start(ps, Len(ps) + 1) /\ Length(ps) \in Nat
  BY StartsAdd
<1>2. ASSUME NEW j \in DOMAIN ps, NEW k \in DOMAIN ps, j < k PROVE Start(ps, j) + Span(ps[j]) <= Start(ps, k)
  <2>1. j + 1 \in 1 .. Len(ps) + 1 /\ k \in 1 .. Len(ps) + 1 /\ j + 1 <= k
    BY <1>0, <1>2
  <2>2. Start(ps, j + 1) <= Start(ps, k)
    BY <2>1, StartsGrow
  <2> QED BY <1>1, <2>2
<1>3. ASSUME NEW k \in DOMAIN ps PROVE Start(ps, k) + Span(ps[k]) <= Length(ps)
  <2>1. k + 1 \in 1 .. Len(ps) + 1 /\ Len(ps) + 1 \in 1 .. Len(ps) + 1 /\ k + 1 <= Len(ps) + 1
    BY <1>0, <1>3
  <2>2. Start(ps, k + 1) <= Start(ps, Len(ps) + 1)
    BY <2>1, StartsGrow
  <2> QED BY <1>1, <2>2
<1> QED BY <1>0, <1>1, <1>2, <1>3

(* At every time just one phase runs.                                      *)
LEMMA ActiveRuns ==
  ASSUME NEW ps, SpansOK(ps), NEW u \in 0 .. Length(ps) - 1
  PROVE  /\ u % Length(ps) = u
         /\ Active(ps, u) \in DOMAIN ps
         /\ \A k \in DOMAIN ps : Active(ps, u) = k <=> Runs(ps, k, u)
<1> DEFINE n == Len(ps)
           C == Length(ps)
           S(k) == Start(ps, k)
<1>0. n \in Nat /\ DOMAIN ps = 1 .. n
  BY DEF SpansOK
<1>1. C \in Nat /\ u \in Nat /\ u < C
  BY PhasesApart
<1>2. u % C = u
  <2> HIDE DEF C
  <2> QED BY <1>1
<1>3. /\ S(1) = 0 /\ S(n + 1) = C
      /\ \A k \in 1 .. n : S(k) \in Nat /\ S(k + 1) = S(k) + Span(ps[k]) /\ Span(ps[k]) \in Nat
  BY <1>0, StartsAdd DEF SpansOK
<1>4. \A j, k \in 1 .. n : j < k => S(j) + Span(ps[j]) <= S(k)
  BY <1>0, PhasesApart
<1> HIDE DEF n, C, S
<1> DEFINE Covers(k) == S(k) <= u /\ u <= S(k) + Span(ps[k]) - 1
           P(m) == m <= n /\ u < S(m + 1) => \E k \in 1 .. n : Covers(k)
           U == {m \in Nat : P(m)}
<1>5. 0 \in U
  <2>1. P(0)
    BY <1>1, <1>3
  <2> HIDE DEF P
  <2> QED BY <2>1
<1>6. ASSUME NEW m \in Nat, m \in U PROVE m + 1 \in U
  <2> HIDE DEF P
  <2>0. P(m)
    BY <1>6
  <2>1. ASSUME m + 1 <= n, u < S((m + 1) + 1) PROVE \E k \in 1 .. n : Covers(k)
    <3>1. m + 1 \in 1 .. n /\ m <= n
      BY <1>0, <2>1
    <3>2. S(m + 1) \in Nat /\ S((m + 1) + 1) = S(m + 1) + Span(ps[m + 1]) /\ Span(ps[m + 1]) \in Nat
      BY <1>3, <3>1
    <3>3. CASE u < S(m + 1)
      <4> HIDE DEF Covers
      <4> QED BY <2>0, <3>1, <3>3 DEF P
    <3>4. CASE ~(u < S(m + 1))
      <4>1. Covers(m + 1)
        BY <1>1, <2>1, <3>2, <3>4
      <4> HIDE DEF Covers
      <4> QED BY <3>1, <4>1
    <3> QED BY <3>3, <3>4
  <2>2. P(m + 1)
    <3> HIDE DEF Covers
    <3> QED BY <2>1 DEF P
  <2> QED BY <2>2
<1>7. \E k \in 1 .. n : Covers(k)
  <2> HIDE DEF Covers
  <2>1. P(n)
    <3> HIDE DEF P, U
    <3>1. n \in U
      BY <1>0, <1>5, <1>6, Induction
    <3> QED BY <3>1 DEF U
  <2> QED BY <1>0, <1>1, <1>3, <2>1
<1>8. ASSUME NEW j \in 1 .. n, NEW k \in 1 .. n, Covers(j), Covers(k) PROVE j = k
  <2>1. S(j) \in Nat /\ S(k) \in Nat /\ Span(ps[j]) \in Nat /\ Span(ps[k]) \in Nat
    BY <1>3
  <2>2. ~(j < k)
    BY <1>1, <1>4, <1>8, <2>1
  <2>3. ~(k < j)
    BY <1>1, <1>4, <1>8, <2>1
  <2> QED BY <1>0, <2>2, <2>3
<1>9. \A k \in 1 .. n : u % C \in S(k) .. S(k) + Span(ps[k]) - 1 <=> Covers(k)
  BY <1>1, <1>2, <1>3
<1>10. Active(ps, u) = CHOOSE k \in 1 .. n : u % C \in S(k) .. S(k) + Span(ps[k]) - 1
  BY <1>0 DEF Active, C, S
<1> HIDE DEF Covers
<1>11. Active(ps, u) \in 1 .. n /\ Covers(Active(ps, u))
  BY <1>7, <1>9, <1>10
<1>12. \A k \in 1 .. n : Active(ps, u) = k <=> Covers(k)
  BY <1>8, <1>11
<1> QED BY <1>0, <1>2, <1>11, <1>12 DEF C, S, Covers, Runs

(* What a light is at u, and for how long.                                 *)
LightIs(ps, k, u) ==
  IF Start(ps, k) <= u /\ u < Start(ps, k) + ps[k].green
    THEN <<"green", Start(ps, k) + ps[k].green - u>>
  ELSE IF Start(ps, k) <= u /\ u < Start(ps, k) + ps[k].green + Amber
    THEN <<"amber", Start(ps, k) + ps[k].green + Amber - u>>
  ELSE <<"red", (Start(ps, k) - u) % Length(ps)>>

LEMMA LightLeftIs ==
  ASSUME NEW ps, SpansOK(ps), NEW u \in 0 .. Length(ps) - 1, NEW k \in DOMAIN ps, ps[k].green \in Nat
  PROVE  LightLeft(ps, k, u) = LightIs(ps, k, u)
<1> DEFINE s == Start(ps, k)
           C == Length(ps)
           g == ps[k].green
           run == Active(ps, u) = k
           into == Into(ps, k, u)
<1>1. s \in Nat /\ C \in Nat /\ Span(ps[k]) = g + 5 /\ g \in Nat /\ u \in Nat
  BY PhasesApart DEF Span, Amber, AllRed
<1>2. u % C = u /\ (run <=> Runs(ps, k, u))
  BY ActiveRuns
<1>3. into = u - s
  BY <1>2 DEF Into
<1>4. run <=> s <= u /\ u <= s + (g + 5) - 1
  BY <1>1, <1>2 DEF Runs
<1>5. LightLeft(ps, k, u) = IF run /\ into < g THEN <<"green", g - into>>
                            ELSE IF run /\ into < g + 3 THEN <<"amber", g + 3 - into>>
                            ELSE <<"red", (-into) % C>>
  BY DEF LightLeft, Amber
<1>6. LightIs(ps, k, u) = IF s <= u /\ u < s + g THEN <<"green", s + g - u>>
                          ELSE IF s <= u /\ u < s + g + 3 THEN <<"amber", s + g + 3 - u>>
                          ELSE <<"red", (s - u) % C>>
  BY DEF LightIs, Amber
<1> HIDE DEF s, C, g, run, into
<1>7. /\ (run /\ into < g) <=> (s <= u /\ u < s + g)
      /\ (run /\ into < g + 3) <=> (s <= u /\ u < s + g + 3)
      /\ g - into = s + g - u /\ g + 3 - into = s + g + 3 - u /\ -into = s - u
  BY <1>1, <1>3, <1>4
<1> QED BY <1>5, <1>6, <1>7

LEMMA PhaseOfIn ==
  ASSUME NEW c \in Movement
  PROVE  PhaseOf(Phases, c) \in DOMAIN Phases /\ c \in Phases[PhaseOf(Phases, c)].connectors
<1>1. \E k \in DOMAIN Phases : c \in Phases[k].connectors
  BY PhasesOK DEF PlanOK
<1> QED BY <1>1 DEF PhaseOf

LEMMA CycleNat == Cycle \in Nat
  BY PhasesOK, PhasesApart DEF Cycle

LEMMA ShownIs ==
  ASSUME NEW c \in Movement, NEW t \in Int, Cycle > 0
  PROVE  /\ t % Cycle \in 0 .. Cycle - 1
         /\ Light(c, t) = LightIs(Phases, PhaseOf(Phases, c), t % Cycle)[1]
         /\ Left(c, t) = LightIs(Phases, PhaseOf(Phases, c), t % Cycle)[2]
<1> DEFINE u == t % Cycle
           k == PhaseOf(Phases, c)
<1>1. u \in 0 .. Cycle - 1
  <2> DEFINE C == Cycle
  <2>1. C \in Nat /\ C > 0
    BY CycleNat
  <2> HIDE DEF C
  <2>2. t % C \in 0 .. C - 1
    BY <2>1
  <2> QED BY <2>2 DEF C
<1>2. Shown[c][u] = LightLeft(Phases, k, u)
  <2> HIDE DEF u
  <2>1. u \in 0 .. Length(Phases) - 1
    BY <1>1 DEF Cycle
  <2> QED BY <2>1 DEF Shown, ShownBy
<1>3. LightLeft(Phases, k, u) = LightIs(Phases, k, u)
  <2> HIDE DEF u, k
  <2>1. u \in 0 .. Length(Phases) - 1 /\ k \in DOMAIN Phases /\ Phases[k].green \in Nat
    BY <1>1, PhaseOfIn, PhasesOK DEF Cycle, k
  <2> QED BY <2>1, PhasesOK, LightLeftIs
<1> QED BY <1>1, <1>2, <1>3 DEF Light, Left

LEMMA ExclusiveApart ==
  ASSUME NEW e \in Exclusive, NEW a \in e, NEW b \in e, a # b
  PROVE  a \in Movement /\ b \in Movement /\ PhaseOf(Phases, a) # PhaseOf(Phases, b)
<1>1. e \subseteq Movement /\ Cardinality(e) = 2
  BY SignalsAssumption
<1>2. IsFiniteSet(e)
  <2>1. IsFiniteSet(Movement)
    BY Numbered, FS_Interval
  <2> QED BY <1>1, <2>1, FS_Subset
<1>3. Cardinality({a, b}) = 2
  <2>1. {a} \cup {b} = {a, b}
    OBVIOUS
  <2>2. Cardinality({a}) = 1 /\ IsFiniteSet({a})
    BY FS_Singleton
  <2> QED BY <2>1, <2>2, FS_AddElement
<1>4. {a, b} = e
  BY <1>1, <1>2, <1>3, FS_Subset
<1>5. ConflictsWith(a, b)
  BY <1>4 DEF ConflictsWith
<1>6. \A k \in DOMAIN Phases : ~(a \in Phases[k].connectors /\ b \in Phases[k].connectors)
  BY <1>5, PhasesOK DEF PlanOK, Harmless
<1>7. a \in Movement /\ b \in Movement
  BY <1>1
<1> QED BY <1>6, <1>7, PhaseOfIn

(* The clock stays within the cycle.                                       *)
InCycle == now \in 0 .. Cycle - 1

LEMMA ClearedAt == InCycle => Cleared
<1> SUFFICES ASSUME InCycle,
                    NEW e \in Exclusive, NEW a \in e, NEW b \in e, a # b, Light(a, now) # "red",
                    NEW d \in 0 .. AllRed, Light(b, now - d) # "red"
             PROVE  FALSE
  BY DEF Cleared
<1> DEFINE ps == Phases
           C == Cycle
           k == PhaseOf(ps, a)
           l == PhaseOf(ps, b)
           v == (now - d) % C
           sk == Start(ps, k)
           sl == Start(ps, l)
           gk == ps[k].green
           gl == ps[l].green
<1>1. a \in Movement /\ b \in Movement /\ k # l
  BY ExclusiveApart
<1>2. k \in DOMAIN ps /\ l \in DOMAIN ps
  BY <1>1, PhaseOfIn
<1>3. C \in Nat /\ now \in Nat /\ now < C /\ d \in Nat /\ d <= 2
  BY CycleNat DEF AllRed, InCycle
<1>4. now % C = now /\ now - d \in Int /\ C > 0
  <2> HIDE DEF C
  <2> QED BY <1>3
<1>5. sk <= now /\ now < sk + gk + 3
  <2>1. LightIs(ps, k, now)[1] # "red"
    BY <1>1, <1>3, <1>4, ShownIs
  <2> HIDE DEF k, ps
  <2>2. sk \in Nat /\ gk \in Nat
    BY <1>2, PhasesOK, PhasesApart DEF ps
  <2> QED BY <1>3, <2>1, <2>2 DEF LightIs, Amber
<1>6. sl <= v /\ v < sl + gl + 3 /\ v \in 0 .. C - 1
  <2>1. LightIs(ps, l, v)[1] # "red" /\ v \in 0 .. C - 1
    BY <1>1, <1>4, ShownIs
  <2> HIDE DEF l, ps, v, C
  <2>2. sl \in Nat /\ gl \in Nat /\ v \in Int
    BY <1>2, <1>3, <2>1, PhasesOK, PhasesApart DEF ps
  <2> QED BY <2>1, <2>2 DEF LightIs, Amber
<1>7. /\ sk \in Nat /\ sl \in Nat /\ gk \in Nat /\ gl \in Nat
      /\ k < l => sk + gk + 5 <= sl
      /\ l < k => sl + gl + 5 <= sk
      /\ sk + gk + 5 <= C /\ sl + gl + 5 <= C
      /\ k \in Int /\ l \in Int
  <2>1. SpansOK(ps) /\ gk \in Nat /\ gl \in Nat
    BY <1>2, PhasesOK
  <2>2. Span(ps[k]) = gk + 5 /\ Span(ps[l]) = gl + 5
    BY <2>1 DEF Span, Amber, AllRed
  <2>3. k \in Int /\ l \in Int
    BY <1>2, <2>1 DEF SpansOK
  <2> HIDE DEF k, l, ps
  <2>4. C = Length(ps)
    BY DEF Cycle, ps
  <2>5. sk + (gk + 5) <= C /\ sl + (gl + 5) <= C /\ sk \in Nat /\ sl \in Nat
    BY <1>2, <2>1, <2>2, <2>4, PhasesApart
  <2>6. (k < l => sk + (gk + 5) <= sl) /\ (l < k => sl + (gl + 5) <= sk)
    BY <1>2, <2>1, <2>2, PhasesApart
  <2> QED BY <2>1, <2>3, <2>5, <2>6
<1> HIDE DEF ps, k, l, sk, sl, gk, gl
<1>8. CASE d <= now
  <2>1. v = now - d
    <3>1. now - d \in Nat /\ now - d < C
      BY <1>3, <1>8
    <3> HIDE DEF C
    <3> QED BY <1>3, <3>1
  <2> HIDE DEF v, C
  <2>2. k < l \/ l < k
    BY <1>1, <1>7
  <2> QED BY <1>3, <1>5, <1>6, <1>7, <2>1, <2>2
<1>9. CASE ~(d <= now)
  <2>1. v = now - d + C
    <3> DEFINE w == now - d + C
    <3>1. w \in Nat /\ w < C /\ now - d = w + (-1) * C
      <4>1. C >= d
        BY <1>3, <1>7
      <4> HIDE DEF C
      <4> QED BY <1>3, <1>9, <4>1
    <3> HIDE DEF C
    <3> QED BY <1>3, <1>4, <3>1
  <2> HIDE DEF v, C
  <2> QED BY <1>3, <1>6, <1>7, <1>9, <2>1
<1> QED BY <1>8, <1>9, <1>3

LEMMA TickInCycle == InCycle /\ Tick => InCycle'
<1> SUFFICES ASSUME InCycle, Tick PROVE InCycle'
  OBVIOUS
<1> DEFINE C == Cycle
<1>1. C \in Nat /\ now \in 0 .. C - 1 /\ now' = (now + 1) % C
  BY CycleNat DEF InCycle, Tick
<1> HIDE DEF C
<1>2. now' \in 0 .. C - 1
  BY <1>1
<1> QED BY <1>2 DEF C, InCycle

LEMMA StaysInCycle == Spec => []InCycle
<1>1. Init => InCycle
  BY DEF Init, LightsInit, SignalsInit, InCycle
<1>2. InCycle /\ [Next]_vars => InCycle'
  <2> SUFFICES ASSUME InCycle, [Next]_vars PROVE InCycle'
    OBVIOUS
  <2>1. Tick \/ UNCHANGED now
    BY DEF Next, vars, streetVars, Drives, Walks, Traffic, Changing, Serving, Trains, LightsNext
  <2> QED BY <2>1, TickInCycle DEF InCycle
<1> QED BY <1>1, <1>2, PTL DEF Spec

(* Whatever the junction, the phases that SignalController::build makes of *)
(* it never let movements go together that cross or merge, and give one    *)
(* green only after the other has been red for the all-red time, also from *)
(* the cycle's end to its start.                                           *)
THEOREM ClearedAlways == Spec => []Cleared
  BY StaysInCycle, ClearedAt, PTL

-----------------------------------------------------------------------------
(* The crowd: only those who committed themselves at the curb (or were hit)*)
(* are on a crossing leg, and the list is up to date.                      *)
PedType ==
  [state : {"walking", "waiting", "crossing", "dwelling", "hit"}, leg : DOMAIN Legs, at : Int,
   need : Needs, timer : Int, attentive : BOOLEAN, jaywalking : BOOLEAN, decided : BOOLEAN]
PedOK(p) == p \in PedType /\ (IsCrossing(p.leg) => p.state \in {"crossing", "hit"})
CrowdOK == PedOK(ped) /\ users = OnCrossing(ped)

LEMMA MinOfTwo ==
  ASSUME NEW a \in Int, NEW b \in Int
  PROVE  Min({a, b}) \in {a, b} /\ Min({a, b}) <= a /\ Min({a, b}) <= b
<1>1. \E x \in {a, b} : \A y \in {a, b} : x <= y
  OBVIOUS
<1>2. Min({a, b}) \in {a, b} /\ \A y \in {a, b} : Min({a, b}) <= y
  BY <1>1 DEF Min
<1> QED BY <1>2

LEMMA WayTyped ==
  /\ Len(Legs) \in Nat /\ Len(Legs) >= 1 /\ DOMAIN Legs = 1 .. Len(Legs)
  /\ ~IsCrossing(1) /\ ~IsCrossing(Len(Legs))
  /\ (\A x \in Needs : x \in Int) /\ (\A x \in Dwells : x \in Int)
  /\ WalkLong \in Nat /\ Kerb \in Nat /\ Curb \in Nat /\ Clear \in Nat /\ Stuck \in Nat /\ HitHold \in Nat
<1>1. Len(Legs) \in Nat /\ DOMAIN Legs = 1 .. Len(Legs) /\ Legs # <<>>
  BY CrowdAssumption
<1>2. Len(Legs) >= 1
  BY CrowdAssumption
<1>3. Needs \subseteq Nat /\ Dwells \subseteq Nat
  BY CrowdAssumption
<1> QED BY <1>1, <1>2, <1>3, CrowdAssumption DEF IsCrossing

LEMMA LegLongTyped == ASSUME NEW p \in PedType PROVE LegLong(p) \in Int
  BY WayTyped DEF LegLong, PedType

LEMMA SpotsOK == ASSUME NEW need \in Needs, NEW p \in Spots(need) PROVE PedOK(p)
<1>1. PICK k \in {i \in DOMAIN Legs : ~IsCrossing(i)}, s \in 0 .. WalkLong - 1 :
        p = [state |-> "walking", leg |-> k, at |-> s, need |-> need, timer |-> 0,
             attentive |-> TRUE, jaywalking |-> FALSE, decided |-> FALSE]
  BY DEF Spots
<1>2. s \in Int /\ 0 \in Int
  BY WayTyped
<1> QED BY <1>1, <1>2 DEF PedOK, PedType

LEMMA UndecidedOK ==
  ASSUME NEW p \in PedType
  PROVE  Undecided(p) \in PedType /\ Undecided(p).state = p.state /\ Undecided(p).leg = p.leg
  BY DEF Undecided, PedType

LEMMA OnwardOK ==
  ASSUME NEW p, PedOK(p), p.state # "hit"
  PROVE  PedOK(Onward(p)) /\ Onward(p).state # "hit"
<1>0. p \in PedType /\ p.leg \in 1 .. Len(Legs) /\ Len(Legs) \in Nat /\ p.at \in Int /\ LegLong(p) \in Int
  BY WayTyped, LegLongTyped DEF PedOK, PedType
<1>1. CASE p.at < LegLong(p) \/ AtEnd(p) \/ (IsCrossing(p.leg + 1) /\ p.state # "crossing")
  BY <1>1 DEF Onward
<1>2. CASE ~(p.at < LegLong(p) \/ AtEnd(p) \/ (IsCrossing(p.leg + 1) /\ p.state # "crossing"))
  <2> DEFINE q == [p EXCEPT !.leg = p.leg + 1, !.at = p.at - LegLong(p)]
             w == [q EXCEPT !.state = "walking"]
  <2>1. p.leg + 1 \in DOMAIN Legs /\ p.at - LegLong(p) \in Int
    BY <1>0, <1>2, WayTyped DEF AtEnd
  <2>2. q \in PedType /\ q.leg = p.leg + 1 /\ q.state = p.state
    BY <1>0, <2>1 DEF PedType
  <2>3. Onward(p) = IF IsCrossing(p.leg) /\ ~IsCrossing(p.leg + 1) THEN Undecided(w) ELSE q
    BY <1>2 DEF Onward
  <2> HIDE DEF q
  <2>4. w \in PedType /\ w.leg = p.leg + 1 /\ w.state = "walking"
    BY <2>2 DEF PedType
  <2> HIDE DEF w
  <2>5. CASE IsCrossing(p.leg) /\ ~IsCrossing(p.leg + 1)
    <3>1. Undecided(w) \in PedType /\ Undecided(w).state = "walking" /\ Undecided(w).leg = p.leg + 1
      BY <2>4, UndecidedOK
    <3> QED BY <2>3, <2>5, <3>1 DEF PedOK
  <2>6. CASE ~(IsCrossing(p.leg) /\ ~IsCrossing(p.leg + 1))
    <3>1. Onward(p) = q
      BY <2>3, <2>6
    <3>2. IsCrossing(p.leg + 1) => p.state = "crossing"
      BY <1>2
    <3> QED BY <2>2, <3>1, <3>2 DEF PedOK
  <2> QED BY <2>5, <2>6
<1> QED BY <1>1, <1>2

LEMMA DrawnOK ==
  ASSUME NEW q \in PedType, NEW d \in Drawn(q)
  PROVE  d \in PedType /\ d.leg = q.leg
<1>1. CASE q.decided
  BY <1>1 DEF Drawn
<1>2. CASE ~q.decided
  <2>1. PICK mood \in Moods : d = [q EXCEPT !.attentive = mood.attentive, !.jaywalking = mood.jaywalking,
                                          !.decided = TRUE, !.timer = 0]
    BY <1>2 DEF Drawn
  <2>2. 0 \in Int /\ mood.attentive \in BOOLEAN /\ mood.jaywalking \in BOOLEAN
    BY DEF Moods
  <2> QED BY <2>1, <2>2 DEF PedType
<1> QED BY <1>1, <1>2

LEMMA DecideOK ==
  ASSUME NEW d \in PedType, NEW t, NEW gap
  PROVE  Decide(d, t, gap) \in PedType /\ Decide(d, t, gap).leg = d.leg
<1>1. CASE (Green(d, t) \/ d.jaywalking) /\ (~d.attentive \/ gap)
  <2>1. Decide(d, t, gap) = [d EXCEPT !.state = "crossing", !.timer = 0]
    BY <1>1 DEF Decide
  <2> DEFINE r == Decide(d, t, gap)
  <2>2. 0 \in Int
    OBVIOUS
  <2>3. r = [d EXCEPT !.state = "crossing", !.timer = 0]
    BY <2>1
  <2> HIDE DEF r
  <2>4. r \in PedType /\ r.leg = d.leg
    BY <2>2, <2>3 DEF PedType
  <2> QED BY <2>4 DEF r
<1>2. CASE ~((Green(d, t) \/ d.jaywalking) /\ (~d.attentive \/ gap))
  <2> DEFINE m == Min({d.timer + 1, Stuck + 1})
  <2>1. Decide(d, t, gap) = [d EXCEPT !.state = "waiting", !.timer = m]
    BY <1>2 DEF Decide
  <2>2. d.timer \in Int
    BY DEF PedType
  <2>3. d.timer + 1 \in Int /\ Stuck + 1 \in Int
    BY <2>2, WayTyped
  <2>4. m \in Int
    BY <2>3, MinOfTwo
  <2> HIDE DEF m
  <2> QED BY <2>1, <2>4 DEF PedType
<1> QED BY <1>1, <1>2

LEMMA SteerOK ==
  ASSUME NEW p, PedOK(p), p.state # "hit", NEW t, NEW r \in Steer(p, t)
  PROVE  PedOK(r)
<1> DEFINE q == Onward(p)
           dwell == AtEnd(q) /\ q.at >= LegLong(q) - 1
<1>1. PedOK(q) /\ q.state # "hit" /\ q \in PedType
  BY OnwardOK DEF PedOK
<1>s. Steer(p, t) = IF dwell THEN {Undecided([q EXCEPT !.state = "dwelling", !.timer = d]) : d \in Dwells}
                    ELSE IF AtCurb(q) THEN UNION {Decisions(d, t) : d \in Drawn(q)}
                    ELSE {q}
  BY Zenon DEF Steer
<1>e. dwell => ~IsCrossing(q.leg)
  BY WayTyped DEF AtEnd
<1> HIDE DEF q, dwell
<1>2. CASE dwell
  <2>1. PICK d \in Dwells : r = Undecided([q EXCEPT !.state = "dwelling", !.timer = d])
    BY <1>2, <1>s
  <2> DEFINE w == [q EXCEPT !.state = "dwelling", !.timer = d]
  <2>2. w \in PedType /\ w.leg = q.leg /\ w.state = "dwelling"
    BY <1>1, WayTyped DEF PedType
  <2>4. r = Undecided(w)
    BY <2>1
  <2> HIDE DEF w
  <2>3. r \in PedType /\ r.leg = q.leg
    BY <2>4, <2>2, UndecidedOK
  <2> QED BY <2>3, <1>2, <1>e DEF PedOK
<1>3. CASE ~dwell /\ AtCurb(q)
  <2>0. r \in UNION {Decisions(d, t) : d \in Drawn(q)}
    BY <1>3, <1>s
  <2>1. PICK d \in Drawn(q) : r \in Decisions(d, t)
    BY <2>0
  <2>2. PICK gap \in BOOLEAN : r = Decide(d, t, gap)
    BY <2>1 DEF Decisions
  <2>3. d \in PedType /\ d.leg = q.leg
    BY <1>1, DrawnOK
  <2>4. r \in PedType /\ r.leg = q.leg
    BY <2>2, <2>3, DecideOK
  <2>5. ~IsCrossing(q.leg)
    BY <1>1, <1>3 DEF AtCurb, PedOK
  <2> QED BY <2>4, <2>5 DEF PedOK
<1>4. CASE ~dwell /\ ~AtCurb(q)
  <2>1. r = q
    BY <1>4, <1>s
  <2> QED BY <1>1, <2>1
<1> QED BY <1>2, <1>3, <1>4

LEMMA DepartOK == ASSUME NEW p, PedOK(p), NEW r \in Depart(p) PROVE PedOK(r)
<1>1. CASE r = p
  BY <1>1
<1>2. CASE r \in Spots(p.need)
  BY <1>2, SpotsOK DEF PedOK, PedType
<1>3. CASE r = [p EXCEPT !.state = "walking", !.leg = 1, !.at = 0]
  <2>1. 1 \in DOMAIN Legs /\ 0 \in Int /\ ~IsCrossing(1)
    BY WayTyped
  <2>2. r \in PedType /\ r.leg = 1
    BY <1>3, <2>1 DEF PedOK, PedType
  <2> QED BY <2>1, <2>2 DEF PedOK
<1> QED BY <1>1, <1>2, <1>3 DEF Depart

LEMMA CrowdUpdateOK == ASSUME CrowdOK, CrowdUpdate PROVE CrowdOK'
<1> DEFINE timed == IF ped.state \in {"dwelling", "hit"} THEN {[ped EXCEPT !.timer = Max({ped.timer - 1, 0})]}
                    ELSE Steer(ped, now')
           moved(q, stride) == [q EXCEPT !.at = Min({q.at + stride, LegLong(q)})]
           struck(q, stride, hit) == IF hit /\ q.state # "hit" THEN Hit(moved(q, stride)) ELSE moved(q, stride)
<1>1. PICK q \in timed : \E stride \in Strides(q), hit \in BOOLEAN :
        ped' \in Depart(struck(q, stride, hit)) /\ users' = OnCrossing(ped')
  BY DEF CrowdUpdate
<1>2. PICK stride \in Strides(q), hit \in BOOLEAN :
        ped' \in Depart(struck(q, stride, hit)) /\ users' = OnCrossing(ped')
  BY <1>1
<1>3. PedOK(ped) /\ ped \in PedType
  BY DEF CrowdOK, PedOK
<1>4. PedOK(q)
  <2>1. CASE ped.state \in {"dwelling", "hit"}
    <3>1. q = [ped EXCEPT !.timer = Max({ped.timer - 1, 0})]
      BY <2>1
    <3>2. Max({ped.timer - 1, 0}) \in Int
      <4>1. ped.timer - 1 \in Int
        BY <1>3 DEF PedType
      <4>2. 0 \in Int
        OBVIOUS
      <4> QED BY <4>1, <4>2, MaxOfTwo
    <3>3. q \in PedType /\ q.leg = ped.leg /\ q.state = ped.state
      BY <1>3, <3>1, <3>2 DEF PedType
    <3> QED BY <1>3, <3>3 DEF PedOK
  <2>2. CASE ped.state \notin {"dwelling", "hit"}
    <3>1. q \in Steer(ped, now') /\ ped.state # "hit"
      BY <2>2
    <3> QED BY <1>3, <3>1, SteerOK
  <2> QED BY <2>1, <2>2
<1> HIDE DEF timed
<1> DEFINE m == moved(q, stride)
<1>5. stride \in Int
  BY <1>2 DEF Strides
<1>6. m \in PedType /\ m.leg = q.leg /\ m.state = q.state
  <2>1. q \in PedType /\ LegLong(q) \in Int /\ q.at + stride \in Int
    BY <1>4, <1>5, LegLongTyped DEF PedOK, PedType
  <2>2. Min({q.at + stride, LegLong(q)}) \in Int
    BY <2>1, MinOfTwo
  <2> QED BY <2>1, <2>2 DEF PedType
<1> HIDE DEF m
<1>7. PedOK(struck(q, stride, hit))
  <2>1. PedOK(m)
    BY <1>4, <1>6 DEF PedOK
  <2>2. PedOK(Hit(m))
    <3> DEFINE w == [m EXCEPT !.state = "hit", !.timer = HitHold]
    <3>0. HitHold \in Int
      BY WayTyped
    <3>1. w \in PedType /\ w.state = "hit"
      BY <1>6, <3>0 DEF PedType
    <3>2. Hit(m) = Undecided(w)
      BY DEF Hit
    <3> HIDE DEF w
    <3>3. Hit(m) \in PedType /\ Hit(m).state = "hit"
      BY <3>1, <3>2, UndecidedOK
    <3> QED BY <3>3 DEF PedOK
  <2> QED BY <2>1, <2>2 DEF m
<1> HIDE DEF struck
<1>8. PedOK(ped')
  BY <1>2, <1>7, DepartOK
<1> QED BY <1>2, <1>8 DEF CrowdOK, PedOK, OnCrossing, IsCrossing

LEMMA CrowdInitOK == CrowdInit => CrowdOK
<1> SUFFICES ASSUME CrowdInit PROVE CrowdOK
  OBVIOUS
<1>1. PICK need \in Needs : ped \in Spots(need)
  BY DEF CrowdInit
<1>2. PedOK(ped) /\ ped.state = "walking"
  BY <1>1, SpotsOK DEF Spots
<1> QED BY <1>2 DEF CrowdOK, CrowdInit, OnCrossing

(* Who is on the carriageway and was not hit there is in crossing_users    *)
(* after every Crowd::update, for any way, pace and draws: steer lets      *)
(* nobody onto a crossing who has not committed itself at the curb.        *)
THEOREM CarriagewayKnownAlways == Spec => []CarriagewayKnown
<1>1. Init => CrowdOK
  BY CrowdInitOK DEF Init
<1>2. CrowdOK /\ [Next]_vars => CrowdOK'
  <2> SUFFICES ASSUME CrowdOK, [Next]_vars PROVE CrowdOK'
    OBVIOUS
  <2>1. CrowdUpdate \/ UNCHANGED crowdVars
    BY DEF Next, vars, streetVars, Drives, Walks, Traffic, Changing, Serving, Trains
  <2>2. CASE UNCHANGED crowdVars
    BY <2>2 DEF CrowdOK, crowdVars, PedOK, OnCrossing, IsCrossing
  <2> QED BY <2>1, <2>2, CrowdUpdateOK
<1>3. CrowdOK => CarriagewayKnown
  <2> SUFFICES ASSUME CrowdOK, OnCarriageway(ped), ped.state # "hit" PROVE users
    BY DEF CarriagewayKnown
  <2>1. IsCrossing(ped.leg) /\ ped.state = "crossing" /\ ped.leg \in DOMAIN Legs
    BY DEF CrowdOK, PedOK, PedType, OnCarriageway
  <2> QED BY <2>1 DEF CrowdOK, OnCrossing
<1> QED BY <1>1, <1>2, <1>3, PTL DEF Spec

-----------------------------------------------------------------------------
(* The walk light's windows                                                *)
LEMMA LeastOf ==
  ASSUME NEW T \in SUBSET Nat, T # {}
  PROVE  Min(T) \in T /\ \A y \in T : Min(T) <= y
<1>1. IsWellFoundedOn(Less, Nat)
  BY NatLessThanWellFounded DEF OpToRel, Less
<1>2. PICK x \in T : \A y \in T : ~(<<y, x>> \in Less)
  BY <1>1, WFMin
<1>3. \A y \in T : x <= y
  <2> SUFFICES ASSUME NEW y \in T PROVE x <= y
    OBVIOUS
  <2>1. x \in Nat /\ y \in Nat /\ ~(y < x)
    BY <1>2 DEF Less
  <2> QED BY <2>1
<1> QED BY <1>3 DEF Min

LEMMA GreatestOf ==
  ASSUME NEW n \in Nat, NEW T \in SUBSET (0 .. n), T # {}
  PROVE  Max(T) \in T /\ \A j \in T : j <= Max(T)
<1> DEFINE U == {n - j : j \in T}
<1>1. \A j \in T : n - j \in Nat /\ j \in Nat
  OBVIOUS
<1>2. U \in SUBSET Nat /\ U # {}
  BY <1>1
<1>3. Min(U) \in U /\ \A y \in U : Min(U) <= y
  BY <1>2, LeastOf
<1>4. PICK x \in T : Min(U) = n - x
  BY <1>3
<1>5. \A j \in T : x >= j
  <2> SUFFICES ASSUME NEW j \in T PROVE x >= j
    OBVIOUS
  <2>1. n - j \in U
    OBVIOUS
  <2>2. n - x <= n - j
    BY <1>3, <1>4, <2>1
  <2> QED BY <1>1, <2>2
<1>6. Max(T) \in T /\ \A j \in T : Max(T) >= j
  BY <1>5 DEF Max
<1> QED BY <1>1, <1>6

(* The phase i after the k-th of n.                                        *)
Round(n, k, i) == IF k + i <= n THEN k + i ELSE k + i - n

LEMMA RoundIs ==
  ASSUME NEW n \in Nat, NEW k \in 1 .. n, NEW i \in 0 .. n - 1
  PROVE  ((k - 1 + i) % n) + 1 = Round(n, k, i) /\ Round(n, k, i) \in 1 .. n
<1>1. CASE k + i <= n
  <2>1. k - 1 + i \in Nat /\ k - 1 + i < n
    BY <1>1
  <2>2. (k - 1 + i) % n = k - 1 + i
    BY <2>1
  <2> QED BY <1>1, <2>2 DEF Round
<1>2. CASE ~(k + i <= n)
  <2> DEFINE r == k - 1 + i - n
  <2>1. r \in Nat /\ r < n /\ k - 1 + i = r + 1 * n
    BY <1>2
  <2>2. (k - 1 + i) % n = r
    BY <2>1
  <2> QED BY <1>2, <2>2 DEF Round
<1> QED BY <1>1, <1>2

(* The run of walk phases from k on: m more of them, then none or all.     *)
IsRun(n, walks, k, m) ==
  /\ m \in 0 .. n - 1
  /\ \A i \in 0 .. m : Round(n, k, i) \in walks
  /\ m = n - 1 \/ Round(n, k, m + 1) \notin walks

LEMMA RunIs ==
  ASSUME NEW ps, Len(ps) \in Nat, NEW walks \in SUBSET (1 .. Len(ps)), NEW k \in walks
  PROVE  \E m : IsRun(Len(ps), walks, k, m) /\ RunOf(ps, walks, k) = Round(Len(ps), k, m)
<1> DEFINE n == Len(ps)
           run(m) == \A j \in 0 .. m : ((k - 1 + j) % n) + 1 \in walks
           T == {m \in 0 .. n - 1 : run(m)}
           x == Max(T)
<1>0. n \in Nat /\ k \in 1 .. n /\ n - 1 \in Nat
  OBVIOUS
<1>1. RunOf(ps, walks, k) = ((k - 1 + x) % n) + 1
  BY DEF RunOf
<1> HIDE DEF n
<1>2. \A m \in 0 .. n - 1 : run(m) <=> \A j \in 0 .. m : Round(n, k, j) \in walks
  <2> SUFFICES ASSUME NEW m \in 0 .. n - 1 PROVE run(m) <=> \A j \in 0 .. m : Round(n, k, j) \in walks
    OBVIOUS
  <2>1. \A j \in 0 .. m : j \in 0 .. n - 1
    BY <1>0
  <2>2. \A j \in 0 .. m : ((k - 1 + j) % n) + 1 = Round(n, k, j)
    BY <1>0, <2>1, RoundIs
  <2> QED BY <2>2
<1>3. 0 \in T
  <2>1. Round(n, k, 0) = k /\ 0 \in 0 .. n - 1
    BY <1>0 DEF Round
  <2>2. \A j \in 0 .. 0 : Round(n, k, j) \in walks
    BY <2>1
  <2>3. run(0)
    BY <1>2, <2>1, <2>2
  <2> HIDE DEF run
  <2> QED BY <2>1, <2>3
<1> HIDE DEF run
<1>4. x \in T /\ \A j \in T : j <= x
  <2>1. T \in SUBSET (0 .. n - 1) /\ T # {}
    BY <1>3
  <2> HIDE DEF T
  <2> QED BY <1>0, <2>1, GreatestOf
<1>5. x \in 0 .. n - 1 /\ run(x)
  BY <1>4
<1>6. \A i \in 0 .. x : Round(n, k, i) \in walks
  BY <1>2, <1>5
<1>7. ASSUME x # n - 1, Round(n, k, x + 1) \in walks PROVE FALSE
  <2>1. x + 1 \in 0 .. n - 1
    BY <1>0, <1>5, <1>7
  <2>2. \A j \in 0 .. x + 1 : j \in 0 .. x \/ j = x + 1
    BY <1>5
  <2>3. run(x + 1)
    BY <1>2, <1>6, <1>7, <2>1, <2>2
  <2>4. x + 1 <= x
    BY <1>4, <2>1, <2>3
  <2> QED BY <1>5, <2>4
<1>8. IsRun(n, walks, k, x)
  BY <1>5, <1>6, <1>7 DEF IsRun
<1>9. RunOf(ps, walks, k) = Round(n, k, x)
  BY <1>0, <1>1, <1>5, RoundIs
<1> QED BY <1>8, <1>9 DEF n

(* Every phase comes after the k-th one.                                   *)
RoundTo(n, k, p) == IF k <= p THEN p - k ELSE p - k + n

LEMMA RoundOnto ==
  ASSUME NEW n \in Nat, NEW k \in 1 .. n, NEW p \in 1 .. n
  PROVE  RoundTo(n, k, p) \in 0 .. n - 1 /\ Round(n, k, RoundTo(n, k, p)) = p
  BY DEF Round, RoundTo

LEMMA AfterRound ==
  ASSUME NEW ps, Len(ps) \in Nat, NEW k \in 1 .. Len(ps), NEW i \in 1 .. Len(ps) - 1
  PROVE  After(ps, Round(Len(ps), k, i - 1)) = Round(Len(ps), k, i)
<1> DEFINE n == Len(ps)
           p == Round(n, k, i - 1)
<1>0. n \in Nat /\ i \in 1 .. n - 1 /\ k \in 1 .. n
  OBVIOUS
<1>1. After(ps, p) = (p % n) + 1
  BY DEF After
<1> HIDE DEF n
<1>2. p \in 1 .. n
  BY <1>0 DEF Round
<1>3. Round(n, k, i) = IF p = n THEN 1 ELSE p + 1
  BY <1>0 DEF Round
<1> HIDE DEF p
<1>4. p % n = IF p = n THEN 0 ELSE p
  <2>1. CASE p = n
    <3>1. p = 0 + 1 * n /\ 0 < n
      BY <1>0, <1>2, <2>1
    <3> QED BY <1>0, <2>1, <3>1
  <2>2. CASE p # n
    <3>1. p \in Nat /\ p < n
      BY <1>0, <1>2, <2>2
    <3> QED BY <1>0, <2>2, <3>1
  <2> QED BY <2>1, <2>2
<1> QED BY <1>1, <1>3, <1>4 DEF n, p

(* The windows of the walk phases begin where none comes before.           *)
Plan(ps, walks) ==
  /\ SpansOK(ps) /\ walks \subseteq DOMAIN ps /\ walks # {}
  /\ \A k \in DOMAIN ps : ps[k].green \in Nat /\ ps[k].green >= ProtectedGreen

LEMMA PlanTyped ==
  ASSUME NEW ps, NEW walks, Plan(ps, walks)
  PROVE  /\ Len(ps) \in Nat /\ Len(ps) >= 1 /\ DOMAIN ps = 1 .. Len(ps)
         /\ walks \in SUBSET (1 .. Len(ps))
         /\ WindowStarts(ps, walks) \subseteq walks
<1>1. Len(ps) \in Nat /\ DOMAIN ps = 1 .. Len(ps) /\ walks \in SUBSET (1 .. Len(ps)) /\ walks # {}
  BY DEF Plan, SpansOK
<1>2. Len(ps) >= 1
  <2>1. PICK k \in walks : TRUE
    BY <1>1
  <2> QED BY <1>1, <2>1
<1>3. WindowStarts(ps, walks) \subseteq walks
  <2>1. 1 \in 1 .. Len(ps)
    BY <1>1, <1>2
  <2> QED BY <1>1, <2>1 DEF WindowStarts
<1> QED BY <1>1, <1>2, <1>3

LEMMA NotInside ==
  ASSUME NEW ps, NEW walks, Plan(ps, walks), walks # DOMAIN ps,
         NEW k \in WindowStarts(ps, walks), NEW m, IsRun(Len(ps), walks, k, m)
  PROVE  /\ m < Len(ps) - 1
         /\ \A j \in WindowStarts(ps, walks), i \in 1 .. m : Round(Len(ps), k, i) # j
<1> DEFINE n == Len(ps)
<1>0. n \in Nat /\ k \in 1 .. n /\ m \in 0 .. n - 1 /\ k \in walks /\ DOMAIN ps = 1 .. n
  BY PlanTyped DEF IsRun
<1>1. \A i \in 0 .. m : Round(n, k, i) \in walks
  BY DEF IsRun
<1>2. \A j \in WindowStarts(ps, walks), p \in walks : After(ps, p) # j
  BY DEF WindowStarts
<1>3. ASSUME NEW j \in WindowStarts(ps, walks), NEW i \in 1 .. m, Round(n, k, i) = j PROVE FALSE
  <2>1. i - 1 \in 0 .. m /\ i \in 1 .. n - 1
    BY <1>0
  <2>2. After(ps, Round(n, k, i - 1)) = Round(n, k, i)
    BY <1>0, <2>1, AfterRound
  <2> QED BY <1>1, <1>2, <1>3, <2>1, <2>2
<1>4. ASSUME m = n - 1 PROVE FALSE
  <2> SUFFICES \A p \in 1 .. n : p \in walks
    BY <1>0 DEF Plan
  <2> TAKE p \in 1 .. n
  <2>1. RoundTo(n, k, p) \in 0 .. n - 1 /\ Round(n, k, RoundTo(n, k, p)) = p
    BY <1>0, RoundOnto
  <2> QED BY <1>1, <1>4, <2>1
<1> HIDE DEF n
<1>5. m < n - 1
  BY <1>0, <1>4
<1> QED BY <1>3, <1>5 DEF n

LEMMA WindowsBegin ==
  ASSUME NEW ps, NEW walks, Plan(ps, walks)
  PROVE  WindowStarts(ps, walks) # {}
<1> DEFINE n == Len(ps)
<1>0. n \in Nat /\ n >= 1 /\ walks \in SUBSET (1 .. n) /\ walks # {} /\ DOMAIN ps = 1 .. n
  BY PlanTyped DEF Plan
<1>1. CASE walks = DOMAIN ps
  BY <1>1 DEF WindowStarts
<1>2. CASE walks # DOMAIN ps
  <2>1. PICK z \in 1 .. n : z \notin walks
    BY <1>0, <1>2
  <2> DEFINE T == {p \in walks : p > z}
             x == IF T # {} THEN Min(T) ELSE Min(walks)
  <2>2. x \in walks /\ \A p \in walks : After(ps, p) # x
    <3>1. \A p \in walks : After(ps, p) = IF p = n THEN 1 ELSE p + 1
      <4> SUFFICES ASSUME NEW p \in walks PROVE After(ps, p) = IF p = n THEN 1 ELSE p + 1
        OBVIOUS
      <4>0. After(ps, p) = (p % n) + 1 /\ p \in 1 .. n
        BY <1>0 DEF After
      <4> HIDE DEF n
      <4>1. CASE p = n
        <5>1. p = 0 + 1 * n /\ 0 < n
          BY <1>0, <4>1
        <5>2. p % n = 0
          BY <1>0, <4>1, <5>1
        <5> QED BY <4>0, <4>1, <5>2
      <4>2. CASE p # n
        <5>1. p \in Nat /\ p < n
          BY <1>0, <4>0, <4>2
        <5>2. p % n = p
          BY <1>0, <5>1
        <5> QED BY <4>0, <4>2, <5>2
      <4> QED BY <4>1, <4>2
    <3> HIDE DEF n
    <3>2. CASE T # {}
      <4>1. T \in SUBSET Nat
        <5>1. \A p \in walks : p \in Nat
          BY <1>0
        <5> QED BY <5>1
      <4>2. Min(T) \in T /\ \A y \in T : Min(T) <= y
        <5> HIDE DEF T
        <5> QED BY <3>2, <4>1, LeastOf
      <4>3. x = Min(T)
        BY <3>2
      <4> HIDE DEF x
      <4>4. x \in walks /\ x > z /\ \A y \in walks : y > z => x <= y
        BY <4>2, <4>3
      <4> HIDE DEF T
      <4> SUFFICES ASSUME NEW p \in walks, After(ps, p) = x PROVE FALSE
        BY <4>4
      <4>5. p \in 1 .. n /\ p # z /\ x = IF p = n THEN 1 ELSE p + 1
        BY <1>0, <2>1, <3>1
      <4>6. p + 1 = x /\ p > z
        BY <4>4, <4>5, <2>1, <1>0
      <4>7. x <= p
        BY <4>4, <4>6
      <4> QED BY <4>5, <4>6, <4>7
    <3>3. CASE T = {}
      <4>1. walks \in SUBSET Nat
        BY <1>0
      <4>2. Min(walks) \in walks /\ \A y \in walks : Min(walks) <= y
        BY <1>0, <4>1, LeastOf
      <4>3. x = Min(walks)
        BY <3>3
      <4>4. \A y \in walks : ~(y > z)
        BY <3>3
      <4> HIDE DEF x, T
      <4> SUFFICES ASSUME NEW p \in walks, After(ps, p) = x PROVE FALSE
        BY <4>2, <4>3
      <4>5. p \in 1 .. n /\ p # z /\ x = IF p = n THEN 1 ELSE p + 1
        BY <1>0, <2>1, <3>1
      <4>6. x <= p
        BY <4>2, <4>3
      <4>7. p = n
        BY <4>5, <4>6
      <4> QED BY <4>4, <4>5, <4>7, <2>1, <1>0
    <3> QED BY <3>2, <3>3
  <2> HIDE DEF x
  <2> QED BY <2>2, <1>2 DEF WindowStarts
<1> QED BY <1>1, <1>2

(* A window reaches from its start to the amber's end of its run's last    *)
(* phase, in the same cycle or the next.                                   *)
LEMMA WindowIs ==
  ASSUME NEW ps, NEW walks, Plan(ps, walks), NEW k \in WindowStarts(ps, walks),
         NEW m, IsRun(Len(ps), walks, k, m), RunOf(ps, walks, k) = Round(Len(ps), k, m)
  PROVE  /\ WindowEnd(ps, walks, k) =
              IF k + m <= Len(ps) THEN Start(ps, k + m + 1) - AllRed
              ELSE Start(ps, k + m - Len(ps) + 1) - AllRed + Length(ps)
         /\ WindowEnd(ps, walks, k) \in Int
         /\ Start(ps, k) + ProtectedGreen + Amber <= WindowEnd(ps, walks, k)
         /\ Start(ps, k) \in Nat /\ Start(ps, k) < Length(ps) /\ Length(ps) \in Nat
<1> DEFINE n == Len(ps)
           C == Length(ps)
           S(p) == Start(ps, p)
           last == Round(n, k, m)
           g == ps[last].green
           end == S(last) + g + 3
           W == WindowEnd(ps, walks, k)
<1>0. SpansOK(ps) /\ n \in Nat /\ DOMAIN ps = 1 .. n /\ k \in 1 .. n /\ m \in 0 .. n - 1
  BY PlanTyped DEF Plan, IsRun
<1>1. last \in 1 .. n /\ last = IF k + m <= n THEN k + m ELSE k + m - n
  BY <1>0 DEF Round
<1>2. /\ \A p \in 1 .. n : S(p + 1) = S(p) + Span(ps[p]) /\ S(p) \in Nat
      /\ C = S(n + 1) /\ C \in Nat
  BY <1>0, StartsAdd
<1>3. \A p \in 1 .. n : ps[p].green \in Nat /\ ps[p].green >= 8 /\ Span(ps[p]) = ps[p].green + 5
  <2>1. \A p \in 1 .. n : ps[p].green \in Nat /\ ps[p].green >= 8
    BY <1>0 DEF Plan, ProtectedGreen
  <2> QED BY <2>1 DEF Span, Amber, AllRed
<1>4. \A j, p \in 1 .. n + 1 : j <= p => S(j) <= S(p) /\ S(j) \in Nat /\ S(p) \in Nat
  BY <1>0, StartsGrow
<1>5. W = IF end <= S(k) THEN end + C ELSE end
  BY DEF WindowEnd, Amber
<1> HIDE DEF n, C, S, last, W
<1>6. end = S(last + 1) - 2 /\ end \in Int
  <2>1. S(last + 1) = S(last) + Span(ps[last]) /\ S(last) \in Nat
    BY <1>1, <1>2
  <2>2. g \in Nat /\ Span(ps[last]) = g + 5
    BY <1>1, <1>3
  <2> QED BY <2>1, <2>2
<1> HIDE DEF end
<1>7. S(k) + 13 <= S(k + 1) /\ S(k + 1) <= C /\ S(k) \in Nat
  <2>1. k + 1 \in 1 .. n + 1 /\ n + 1 \in 1 .. n + 1 /\ k + 1 <= n + 1
    BY <1>0
  <2>2. S(k + 1) <= S(n + 1)
    BY <1>4, <2>1
  <2>3. S(k + 1) = S(k) + Span(ps[k]) /\ S(k) \in Nat
    BY <1>0, <1>2
  <2>4. ps[k].green \in Nat /\ ps[k].green >= 8 /\ Span(ps[k]) = ps[k].green + 5
    BY <1>0, <1>3
  <2> QED BY <1>2, <2>2, <2>3, <2>4
<1>8. CASE k + m <= n
  <2>1. last = k + m /\ k + 1 \in 1 .. n + 1 /\ last + 1 \in 1 .. n + 1 /\ k + 1 <= last + 1
    BY <1>0, <1>1, <1>8
  <2>2. S(k + 1) <= S(last + 1)
    BY <1>4, <2>1
  <2>3. S(k) + 13 <= end + 2
    <3> DEFINE x == S(k + 1)
               y == S(last + 1)
    <3>1. x \in Nat /\ y \in Nat /\ x <= y /\ S(k) + 13 <= x /\ end = y - 2
      <4>1. x \in Nat /\ y \in Nat
        BY <1>4, <2>1
      <4> QED BY <4>1, <2>2, <1>6, <1>7
    <3> HIDE DEF x, y
    <3> QED BY <3>1, <1>7
  <2>4. W = end
    BY <1>5, <1>6, <1>7, <2>3
  <2> QED BY <1>2, <1>6, <1>7, <1>8, <2>1, <2>3, <2>4 DEF W, S, C, n, AllRed, Amber, ProtectedGreen
<1>9. CASE ~(k + m <= n)
  <2>1. last = k + m - n /\ last + 1 \in 1 .. n + 1 /\ k \in 1 .. n + 1 /\ last + 1 <= k
    BY <1>0, <1>1, <1>9
  <2>2. S(last + 1) <= S(k)
    BY <1>4, <2>1
  <2>3. S(last + 1) \in Nat
    BY <1>1, <1>2, <1>3
  <2>4. end <= S(k) /\ W = end + C
    <3> DEFINE y == S(last + 1)
    <3>1. y \in Nat /\ y <= S(k) /\ end = y - 2
      BY <2>2, <2>3, <1>6
    <3> HIDE DEF y
    <3> QED BY <3>1, <1>5, <1>6, <1>7
  <2>5. S(k) + 11 <= W
    <3> DEFINE x == S(k + 1)
               y == S(last + 1)
    <3>1. x \in Nat /\ y \in Nat /\ S(k) + 13 <= x /\ x <= C /\ W = y - 2 + C
      <4>1. x \in Nat
        <5>1. k + 1 \in 1 .. n + 1
          BY <1>0
        <5> QED BY <1>4, <5>1
      <4> QED BY <4>1, <2>3, <2>4, <1>6, <1>7
    <3> HIDE DEF x, y
    <3> QED BY <3>1, <1>2, <1>7
  <2>6. W = S(k + m - n + 1) - 2 + C /\ W \in Int
    BY <1>2, <1>6, <2>1, <2>4
  <2>7. S(k) < C
    <3> DEFINE x == S(k + 1)
    <3>1. S(k) + 13 <= x /\ x <= C /\ x \in Int
      BY <1>4, <1>7, <1>0
    <3> HIDE DEF x
    <3> QED BY <3>1, <1>2, <1>7
  <2> QED BY <1>2, <1>7, <1>9, <2>5, <2>6, <2>7 DEF W, S, C, n, AllRed, Amber, ProtectedGreen
<1> QED BY <1>8, <1>9

(* The windows do not meet, around the cycle.                              *)
WindowsApart(ps, walks) ==
  LET K == WindowStarts(ps, walks)
      A(k) == Start(ps, k)
      W(k) == WindowEnd(ps, walks, k)
      C == Length(ps)
  IN  /\ C \in Nat
      /\ \A k \in K : A(k) \in Nat /\ A(k) < C /\ W(k) \in Int /\ A(k) + ProtectedGreen + Amber <= W(k) /\ W(k) + AllRed <= A(k) + C
      /\ \A j, k \in K : A(j) < A(k) => W(j) + AllRed <= A(k) /\ W(k) + AllRed <= A(j) + C
      /\ \A j, k \in K : j # k => A(j) # A(k)

LEMMA WindowsOK ==
  ASSUME NEW ps, NEW walks, Plan(ps, walks)
  PROVE  WindowsApart(ps, walks)
<1> DEFINE n == Len(ps)
           K == WindowStarts(ps, walks)
           C == Length(ps)
           A(k) == Start(ps, k)
           W(k) == WindowEnd(ps, walks, k)
<1>0. SpansOK(ps) /\ n \in Nat /\ DOMAIN ps = 1 .. n /\ K \subseteq 1 .. n
  BY PlanTyped DEF Plan
<1>1. \A k \in K : \E m : IsRun(n, walks, k, m) /\ RunOf(ps, walks, k) = Round(n, k, m)
  BY PlanTyped, RunIs
<1>2. \A k \in K : A(k) \in Nat /\ A(k) < C /\ W(k) \in Int /\ A(k) + ProtectedGreen + Amber <= W(k) /\ C \in Nat
  BY <1>1, WindowIs
<1>3. /\ \A j, p \in 1 .. n + 1 : j <= p => A(j) <= A(p) /\ A(j) \in Nat /\ A(p) \in Nat
      /\ A(n + 1) = C
  BY <1>0, StartsGrow, StartsAdd
<1>4. ASSUME NEW j \in K, NEW k \in K, j < k PROVE A(j) < A(k)
  <2>1. j \in 1 .. n /\ j + 1 \in 1 .. n + 1 /\ k \in 1 .. n + 1 /\ j + 1 <= k
    BY <1>0, <1>4
  <2>2. A(j + 1) <= A(k) /\ A(j + 1) = A(j) + Span(ps[j]) /\ A(j) \in Nat /\ A(k) \in Nat
    BY <1>0, <1>3, <2>1, StartsAdd
  <2>3. Span(ps[j]) \in Nat /\ Span(ps[j]) >= 13
    <3>1. ps[j].green \in Nat /\ ps[j].green >= 8
      BY <1>0, <2>1 DEF Plan, ProtectedGreen
    <3> QED BY <3>1 DEF Span, Amber, AllRed
  <2> HIDE DEF A
  <2> QED BY <2>2, <2>3
<1>5. C \in Nat
  BY <1>0, StartsAdd
(* Where the run of k ends.                                                *)
<1>6. ASSUME NEW k \in K
      PROVE  \/ /\ W(k) + AllRed <= C
                /\ \A j \in K : k < j => W(k) + AllRed <= A(j)
             \/ /\ W(k) + AllRed <= A(k) + C
                /\ \A j \in K : j < k => W(k) + AllRed <= A(j) + C
                /\ \A j \in K : ~(k < j)
  <2>1. PICK m : IsRun(n, walks, k, m) /\ RunOf(ps, walks, k) = Round(n, k, m)
    BY <1>1
  <2>2. W(k) = IF k + m <= n THEN A(k + m + 1) - AllRed ELSE A(k + m - n + 1) - AllRed + C
    BY <2>1, WindowIs
  <2>3. m \in 0 .. n - 1 /\ k \in 1 .. n
    BY <1>0, <2>1 DEF IsRun
  <2>4. \A j \in K, i \in 1 .. m : walks # DOMAIN ps => Round(n, k, i) # j
    BY <2>1, NotInside
  <2>5. walks = DOMAIN ps => K = {1}
    BY DEF WindowStarts
  <2>6. walks # DOMAIN ps => m < n - 1
    BY <2>1, NotInside
  <2>7. \A j \in K : j # k /\ RoundTo(n, k, j) \in 1 .. m => FALSE
    <3> SUFFICES ASSUME NEW j \in K, j # k, RoundTo(n, k, j) \in 1 .. m PROVE FALSE
      OBVIOUS
    <3>1. Round(n, k, RoundTo(n, k, j)) = j
      BY <1>0, <2>3, RoundOnto
    <3> QED BY <2>4, <2>5, <3>1
  <2> HIDE DEF n, K, C, A, W
  <2>8. CASE k + m <= n
    <3>1. k + m + 1 \in 1 .. n + 1 /\ n + 1 \in 1 .. n + 1 /\ k + m + 1 <= n + 1
      BY <1>0, <2>3, <2>8
    <3>2. W(k) + AllRed = A(k + m + 1) /\ A(k + m + 1) <= C
      <4>1. A(k + m + 1) <= A(n + 1) /\ A(k + m + 1) \in Nat
        BY <1>3, <3>1
      <4>2. W(k) = A(k + m + 1) - 2
        BY <2>2, <2>8 DEF AllRed
      <4> QED BY <1>3, <4>1, <4>2 DEF AllRed
    <3>3. ASSUME NEW j \in K, k < j PROVE A(k + m + 1) <= A(j)
      <4>1. j \in 1 .. n /\ RoundTo(n, k, j) = j - k
        BY <1>0, <3>3, <2>3 DEF RoundTo
      <4>2. ~(j - k \in 1 .. m)
        BY <2>7, <3>3, <4>1
      <4>3. k + m + 1 <= j /\ j \in 1 .. n + 1
        BY <1>0, <2>3, <3>3, <4>1, <4>2
      <4> QED BY <1>3, <3>1, <4>3
    <3> QED BY <3>2, <3>3
  <2>9. CASE ~(k + m <= n)
    <3> DEFINE q == k + m - n + 1
    <3>1. q \in 1 .. n + 1
      BY <1>0, <2>3, <2>9
    <3>2. W(k) = A(q) - 2 + C /\ A(q) \in Nat
      <4>1. A(q) \in Nat
        BY <1>3, <3>1
      <4> QED BY <4>1, <2>2, <2>9 DEF AllRed
    <3>3. W(k) + AllRed = A(q) + C
      BY <3>2, <1>5 DEF AllRed
    <3>4. q <= k /\ k \in 1 .. n + 1
      BY <1>0, <2>3
    <3>5. A(q) <= A(k) /\ A(k) \in Nat
      BY <1>3, <3>1, <3>4
    <3>6. ASSUME NEW j \in K, j < k PROVE A(q) <= A(j) /\ A(j) \in Nat
      <4>1. j \in 1 .. n /\ j \in 1 .. n + 1 /\ RoundTo(n, k, j) = j - k + n
        BY <1>0, <3>6, <2>3 DEF RoundTo
      <4>2. ~(j - k + n \in 1 .. m)
        BY <2>7, <3>6, <4>1
      <4>3. q <= j
        BY <1>0, <2>3, <3>6, <4>1, <4>2
      <4> QED BY <1>3, <3>1, <4>1, <4>3
    <3>7. ASSUME NEW j \in K, k < j PROVE FALSE
      <4>1. j \in 1 .. n /\ RoundTo(n, k, j) = j - k
        BY <1>0, <3>7, <2>3 DEF RoundTo
      <4>2. j - k \in 1 .. m
        BY <1>0, <2>3, <2>9, <3>7, <4>1
      <4> QED BY <2>7, <3>7, <4>1, <4>2
    <3> HIDE DEF q
    <3>8. W(k) + AllRed <= A(k) + C
      BY <1>5, <3>2, <3>3, <3>5
    <3>9. \A j \in K : j < k => W(k) + AllRed <= A(j) + C
      <4> SUFFICES ASSUME NEW j \in K, j < k PROVE W(k) + AllRed <= A(j) + C
        OBVIOUS
      <4> QED BY <1>5, <3>2, <3>3, <3>6
    <3> QED BY <3>7, <3>8, <3>9
  <2> QED BY <2>8, <2>9
<1> HIDE DEF n, K, C, A, W
<1>7. \A k \in K : W(k) + AllRed <= A(k) + C
  <2> SUFFICES ASSUME NEW k \in K PROVE W(k) + AllRed <= A(k) + C
    OBVIOUS
  <2>1. A(k) \in Nat /\ W(k) \in Int
    BY <1>2
  <2> QED BY <1>5, <1>6, <2>1 DEF AllRed
<1>8. \A j, k \in K : j # k => j < k \/ k < j
  BY <1>0
<1>9. \A j, k \in K : j # k => A(j) # A(k)
  <2> SUFFICES ASSUME NEW j \in K, NEW k \in K, j # k PROVE A(j) # A(k)
    OBVIOUS
  <2>1. A(j) < A(k) \/ A(k) < A(j)
    BY <1>4, <1>8
  <2>2. A(j) \in Nat /\ A(k) \in Nat
    BY <1>2
  <2> QED BY <2>1, <2>2
<1>10. ASSUME NEW j \in K, NEW k \in K, A(j) < A(k) PROVE W(j) + AllRed <= A(k) /\ W(k) + AllRed <= A(j) + C
  <2>1. A(j) \in Nat /\ A(k) \in Nat /\ W(j) \in Int /\ W(k) \in Int
    BY <1>2
  <2>2. j < k
    <3>1. j # k
      BY <1>10, <2>1
    <3>2. ~(k < j)
      <4> SUFFICES ASSUME k < j PROVE FALSE
        OBVIOUS
      <4>1. A(k) < A(j)
        BY <1>4
      <4> QED BY <1>10, <2>1, <4>1
    <3> QED BY <1>8, <3>1, <3>2
  <2>3. W(j) + AllRed <= A(k)
    BY <1>6, <2>2
  <2>4. W(k) + AllRed <= A(j) + C
    BY <1>5, <1>6, <2>1, <2>2 DEF AllRed
  <2> QED BY <2>3, <2>4
<1> QED BY <1>2, <1>5, <1>7, <1>9, <1>10 DEF WindowsApart, K, C, A, W

-----------------------------------------------------------------------------
(* The walk light                                                          *)
LEMMA WalkStopIn ==
  ASSUME NEW ps, NEW walks, WindowsApart(ps, walks), NEW clear \in Nat, NEW k \in WindowStarts(ps, walks)
  PROVE  /\ WalkStop(ps, walks, clear, k) \in Int
         /\ Start(ps, k) + MinWalk <= WalkStop(ps, walks, clear, k)
         /\ WalkStop(ps, walks, clear, k) <= WindowEnd(ps, walks, k)
<1> DEFINE A == Start(ps, k)
           W == WindowEnd(ps, walks, k)
           m == Max({W - clear, A + 5})
<1>1. A \in Nat /\ W \in Int /\ A + 11 <= W
  BY DEF WindowsApart, ProtectedGreen, Amber
<1>2. WalkStop(ps, walks, clear, k) = Min({m, W})
  BY DEF WalkStop, MinWalk
<1> HIDE DEF A, W
<1>3. m \in {W - clear, A + 5} /\ m >= A + 5 /\ W - clear \in Int /\ A + 5 \in Int
  <2>1. W - clear \in Int /\ A + 5 \in Int
    BY <1>1
  <2> QED BY <2>1, MaxOfTwo
<1> HIDE DEF m
<1>4. m \in Int
  BY <1>3
<1>5. Min({m, W}) \in {m, W} /\ Min({m, W}) <= W
  BY <1>1, <1>4, MinOfTwo
<1>6. Min({m, W}) \in Int /\ A + 5 <= Min({m, W}) /\ Min({m, W}) <= W
  <2> DEFINE z == Min({m, W})
  <2> HIDE DEF z
  <2>1. (z = m \/ z = W) /\ z <= W
    BY <1>5 DEF z
  <2>2. z \in Int /\ A + 5 <= z /\ z <= W
    BY <2>1, <1>1, <1>3, <1>4
  <2> QED BY <2>2 DEF z
<1> QED BY <1>2, <1>6 DEF A, W, MinWalk

(* Window k shows the walk light at v, a time in this cycle or the next.   *)
WalksAt(ps, walks, clear, k, v) == Start(ps, k) <= v /\ v < WalkStop(ps, walks, clear, k)

(* The same of the windows, now of the walk light.                         *)
WalksApart(ps, walks, clear) ==
  LET K == WindowStarts(ps, walks)
      A(k) == Start(ps, k)
      E(k) == WalkStop(ps, walks, clear, k)
      C == Length(ps)
  IN  /\ C \in Nat /\ C > 0
      /\ \A k \in K : A(k) \in Nat /\ A(k) < C /\ E(k) \in Int /\ A(k) < E(k) /\ E(k) < A(k) + C
      /\ \A j, k \in K : j # k => A(j) < A(k) \/ A(k) < A(j)
      /\ \A j, k \in K : A(j) < A(k) => E(j) < A(k) /\ E(k) < A(j) + C

LEMMA WalksOK ==
  ASSUME NEW ps, NEW walks, Plan(ps, walks), NEW clear \in Nat
  PROVE  WalksApart(ps, walks, clear)
<1> DEFINE K == WindowStarts(ps, walks)
           A(k) == Start(ps, k)
           E(k) == WalkStop(ps, walks, clear, k)
           W(k) == WindowEnd(ps, walks, k)
           C == Length(ps)
<1>1. WindowsApart(ps, walks)
  BY WindowsOK
<1>2. /\ C \in Nat
      /\ \A k \in K : A(k) \in Nat /\ A(k) < C /\ W(k) \in Int /\ W(k) + 2 <= A(k) + C
      /\ \A j, k \in K : A(j) < A(k) => W(j) + 2 <= A(k) /\ W(k) + 2 <= A(j) + C
      /\ \A j, k \in K : j # k => A(j) # A(k)
  BY <1>1 DEF WindowsApart, AllRed
<1>3. \A k \in K : E(k) \in Int /\ A(k) + 5 <= E(k) /\ E(k) <= W(k)
  BY <1>1, WalkStopIn DEF MinWalk
<1>4. K # {}
  BY WindowsBegin
<1> HIDE DEF K, A, E, W, C
<1>5. C > 0
  <2>1. PICK k \in K : TRUE
    BY <1>4
  <2> QED BY <1>2, <2>1
<1>6. ASSUME NEW k \in K PROVE A(k) < E(k) /\ E(k) < A(k) + C
  <2>1. /\ A(k) \in Nat /\ W(k) \in Int /\ W(k) + 2 <= A(k) + C
        /\ E(k) \in Int /\ A(k) + 5 <= E(k) /\ E(k) <= W(k)
    BY <1>2, <1>3
  <2> QED BY <1>2, <2>1
<1>7. ASSUME NEW j \in K, NEW k \in K, A(j) < A(k) PROVE E(j) < A(k) /\ E(k) < A(j) + C
  <2>1. /\ A(j) \in Nat /\ A(k) \in Nat /\ W(j) \in Int /\ W(k) \in Int /\ E(j) \in Int /\ E(k) \in Int
        /\ E(j) <= W(j) /\ E(k) <= W(k) /\ W(j) + 2 <= A(k) /\ W(k) + 2 <= A(j) + C
    BY <1>2, <1>3, <1>7
  <2> QED BY <1>2, <2>1
<1>8. \A j, k \in K : j # k => A(j) < A(k) \/ A(k) < A(j)
  <2> SUFFICES ASSUME NEW j \in K, NEW k \in K, j # k PROVE A(j) < A(k) \/ A(k) < A(j)
    OBVIOUS
  <2>1. A(j) \in Nat /\ A(k) \in Nat /\ A(j) # A(k)
    BY <1>2
  <2> QED BY <2>1
<1> QED BY <1>2, <1>3, <1>5, <1>6, <1>7, <1>8 DEF WalksApart, K, A, E, C

(* At most one window is open at a time.                                   *)
LEMMA OneWalk ==
  ASSUME NEW ps, NEW walks, NEW clear, WalksApart(ps, walks, clear),
         NEW u \in 0 .. Length(ps) - 1,
         NEW j \in WindowStarts(ps, walks), NEW k \in WindowStarts(ps, walks),
         NEW v \in {u, u + Length(ps)}, NEW w \in {u, u + Length(ps)},
         WalksAt(ps, walks, clear, j, v), WalksAt(ps, walks, clear, k, w)
  PROVE  j = k /\ v = w
<1> DEFINE A(i) == Start(ps, i)
           E(i) == WalkStop(ps, walks, clear, i)
           C == Length(ps)
<1>1. /\ C \in Nat /\ u \in Nat /\ u < C
      /\ A(j) \in Nat /\ A(k) \in Nat /\ E(j) \in Int /\ E(k) \in Int
      /\ E(j) < A(j) + C /\ E(k) < A(k) + C
      /\ j # k => A(j) < A(k) \/ A(k) < A(j)
      /\ A(j) < A(k) => E(j) < A(k) /\ E(k) < A(j) + C
      /\ A(k) < A(j) => E(k) < A(j) /\ E(j) < A(k) + C
      /\ A(j) <= v /\ v < E(j) /\ A(k) <= w /\ w < E(k)
  BY DEF WalksApart, WalksAt
<1>2. (v = u \/ v = u + C) /\ (w = u \/ w = u + C)
  OBVIOUS
<1>3. j = k => A(j) = A(k) /\ E(j) = E(k)
  OBVIOUS
<1> HIDE DEF A, E, C
<1>4. j = k
  BY <1>1, <1>2
<1>5. v = w
  BY <1>1, <1>2, <1>3, <1>4
<1> QED BY <1>4, <1>5

(* What the walk light shows.                                              *)
Opens(ps, walks, u) == {(Start(ps, k) - u) % Length(ps) : k \in WindowStarts(ps, walks)}

WalkRule(ps, walks, clear, u) ==
  /\ \A k \in WindowStarts(ps, walks), v \in {u, u + Length(ps)} :
       WalksAt(ps, walks, clear, k, v)
         => Walk(ps, walks, clear, u) = <<TRUE, WalkStop(ps, walks, clear, k) - v>>
  /\ (\A k \in WindowStarts(ps, walks), v \in {u, u + Length(ps)} : ~WalksAt(ps, walks, clear, k, v))
       => Walk(ps, walks, clear, u) = <<FALSE, Min(Opens(ps, walks, u))>>

LEMMA WalkIs ==
  ASSUME NEW ps, NEW walks, NEW clear, WalksApart(ps, walks, clear), walks # {},
         NEW u \in 0 .. Length(ps) - 1
  PROVE  WalkRule(ps, walks, clear, u)
<1> DEFINE K == WindowStarts(ps, walks)
           C == Length(ps)
           E(k) == WalkStop(ps, walks, clear, k)
           On(k, v) == WalksAt(ps, walks, clear, k, v)
           V == {u, u + C}
           left == {E(w[1]) - w[2] : w \in {x \in K \X V : On(x[1], x[2])}}
           value == CASE left # {} -> <<TRUE, Max(left)>>
                      [] OTHER -> <<FALSE, Min(Opens(ps, walks, u))>>
<1>1. u % C = u
  <2>1. C \in Nat /\ u \in 0 .. C - 1
    BY DEF WalksApart
  <2> HIDE DEF C
  <2> QED BY <2>1
<1>2. Walk(ps, walks, clear, u) = value
  <2>1. Walk(ps, walks, clear, u) =
          LET t == u % C
              some == {WalkStop(ps, walks, clear, w[1]) - w[2] :
                 w \in {x \in WindowStarts(ps, walks) \X {t, t + Length(ps)} :
                          Start(ps, x[1]) <= x[2] /\ x[2] < WalkStop(ps, walks, clear, x[1])}}
          IN  CASE walks = {} -> <<FALSE, Never>>
                [] some # {} -> <<TRUE, Max(some)>>
                [] OTHER -> <<FALSE, Min({(Start(ps, k) - t) % Length(ps) : k \in WindowStarts(ps, walks)})>>
    BY DEF Walk
  <2> QED BY <1>1, <2>1 DEF Opens, WalksAt
<1>3. ASSUME NEW k \in K, NEW v \in V, On(k, v) PROVE value = <<TRUE, E(k) - v>>
  <2>1. \A j \in K, w \in V : On(j, w) => j = k /\ w = v
    BY <1>3, OneWalk
  <2>2. <<k, v>> \in {x \in K \X V : On(x[1], x[2])}
    BY <1>3
  <2>3. \A x \in {y \in K \X V : On(y[1], y[2])} : x[1] = k /\ x[2] = v
    BY <2>1
  <2>4. E(k) - v \in left
    BY <2>2
  <2>5. \A z \in left : z = E(k) - v
    <3> HIDE DEF E, On, K, V
    <3> QED BY <2>3
  <2> HIDE DEF left, E
  <2>6. left = {E(k) - v}
    BY <2>4, <2>5
  <2>7. Max({E(k) - v}) = E(k) - v
    <3>1. E(k) - v \in Int
      <4>1. E(k) \in Int /\ C \in Nat
        BY DEF WalksApart, E
      <4> QED BY <4>1
    <3> HIDE DEF V
    <3>2. \E x \in {E(k) - v} : \A y \in {E(k) - v} : x >= y
      BY <3>1
    <3> QED BY <3>2 DEF Max
  <2> QED BY <2>6, <2>7
<1>4. ASSUME \A k \in K, v \in V : ~On(k, v) PROVE value = <<FALSE, Min(Opens(ps, walks, u))>>
  <2>1. {x \in K \X V : On(x[1], x[2])} = {}
    BY <1>4
  <2>2. left = {}
    BY <2>1
  <2> HIDE DEF left
  <2> QED BY <2>2
<1> QED BY <1>2, <1>3, <1>4 DEF WalkRule

LEMMA ModOf ==
  ASSUME NEW C \in Nat, C > 0, NEW x \in Int, -C <= x, x <= C
  PROVE  x % C = IF x < 0 THEN x + C ELSE IF x < C THEN x ELSE 0
<1>1. CASE x < 0
  <2>1. x + C \in Nat /\ x + C < C /\ x = (x + C) + (-1) * C
    BY <1>1
  <2>2. x % C = x + C
    BY <2>1
  <2> QED BY <1>1, <2>2
<1>2. CASE x >= 0 /\ x < C
  BY <1>2
<1>3. CASE x = C
  <2>1. x = 0 + 1 * C
    BY <1>3
  <2>2. x % C = 0
    BY <2>1
  <2> QED BY <1>3, <2>2
<1> QED BY <1>1, <1>2, <1>3

(* While it shows it counts down, and then it goes out.                    *)
LEMMA WalkShowsOn ==
  ASSUME NEW ps, NEW walks, NEW clear, WalksApart(ps, walks, clear), walks # {},
         NEW u \in 0 .. Length(ps) - 1,
         NEW k \in WindowStarts(ps, walks), NEW v \in {u, u + Length(ps)},
         WalksAt(ps, walks, clear, k, v)
  PROVE  CountsDown(Walk(ps, walks, clear, u), Walk(ps, walks, clear, (u + 1) % Length(ps)))
<1> DEFINE K == WindowStarts(ps, walks)
           A(i) == Start(ps, i)
           E(i) == WalkStop(ps, walks, clear, i)
           C == Length(ps)
           u2 == (u + 1) % C
           On(i, w) == WalksAt(ps, walks, clear, i, w)
           here == Walk(ps, walks, clear, u)
           next == Walk(ps, walks, clear, u2)
<1>1. /\ C \in Nat /\ C > 0
      /\ \A i \in K : A(i) \in Nat /\ A(i) < C /\ E(i) \in Int /\ A(i) < E(i) /\ E(i) < A(i) + C
      /\ \A i, j \in K : i # j => A(i) < A(j) \/ A(j) < A(i)
      /\ \A i, j \in K : A(i) < A(j) => E(i) < A(j) /\ E(j) < A(i) + C
  BY DEF WalksApart
<1>2. \A i \in K : \A w : On(i, w) <=> A(i) <= w /\ w < E(i)
  BY DEF WalksAt
<1>3. u \in Nat /\ u < C /\ (v = u \/ v = u + C) /\ k \in K /\ On(k, v)
  BY <1>1
<1>4. here = <<TRUE, E(k) - v>>
  <2>1. WalkRule(ps, walks, clear, u)
    BY WalkIs
  <2> QED BY <2>1 DEF WalkRule
<1>5. u2 = (IF u + 1 < C THEN u + 1 ELSE 0) /\ u2 \in 0 .. C - 1
  <2> HIDE DEF C
  <2> QED BY <1>1, <1>3, ModOf
<1>6. /\ \A i \in K, w \in {u2, u2 + C} : On(i, w) => next = <<TRUE, E(i) - w>>
      /\ (\A i \in K, w \in {u2, u2 + C} : ~On(i, w)) => next[1] = FALSE
  <2> HIDE DEF u2
  <2>1. WalkRule(ps, walks, clear, u2)
    BY <1>5, WalkIs
  <2>2. /\ \A i \in K, w \in {u2, u2 + C} : On(i, w) => next = <<TRUE, E(i) - w>>
        /\ (\A i \in K, w \in {u2, u2 + C} : ~On(i, w)) => next = <<FALSE, Min(Opens(ps, walks, u2))>>
    BY <2>1 DEF WalkRule
  <2>3. \A x : <<FALSE, x>>[1] = FALSE
    OBVIOUS
  <2> QED BY <2>2, <2>3
<1>7. A(k) \in Nat /\ A(k) < C /\ E(k) \in Int /\ A(k) <= v /\ v < E(k) /\ E(k) < A(k) + C
  BY <1>1, <1>2, <1>3
<1> SUFFICES CountsDown(here, next)
  OBVIOUS
<1> HIDE DEF K, A, E, C, u2, On, here, next
<1>8. CASE E(k) - v = 1
  <2> SUFFICES ASSUME NEW i \in K, NEW w \in {u2, u2 + C}, On(i, w) PROVE FALSE
    <3>1. next[1] = FALSE
      BY <1>6
    <3>2. here[1] = TRUE /\ here[2] = 1
      BY <1>4, <1>8
    <3> QED BY <3>1, <3>2 DEF CountsDown
  <2>1. A(i) \in Nat /\ A(i) < C /\ E(i) \in Int /\ A(i) <= w /\ w < E(i) /\ E(i) < A(i) + C
    BY <1>1, <1>2
  <2>2. i # k => A(i) < A(k) \/ A(k) < A(i)
    BY <1>1, <1>3
  <2>3. A(i) < A(k) => E(i) < A(k) /\ E(k) < A(i) + C
    BY <1>1, <1>3
  <2>4. A(k) < A(i) => E(k) < A(i) /\ E(i) < A(k) + C
    BY <1>1, <1>3
  <2>5. w = E(k) - C \/ w = E(k) \/ w = E(k) + C
    BY <1>1, <1>3, <1>5, <1>7, <1>8
  <2>6. CASE i = k
    BY <2>1, <2>5, <2>6, <1>1, <1>7
  <2>7. CASE i # k
    BY <2>1, <2>2, <2>3, <2>4, <2>5, <2>7, <1>1, <1>7
  <2> QED BY <2>6, <2>7
<1>9. CASE E(k) - v # 1
  <2>1. v + 1 \in {u2, u2 + C}
    BY <1>1, <1>3, <1>5, <1>7, <1>9
  <2>2. On(k, v + 1)
    <3>1. A(k) <= v + 1 /\ v + 1 < E(k)
      BY <1>3, <1>7, <1>9, <1>1
    <3> QED BY <1>2, <1>3, <3>1
  <2>3. next = <<TRUE, E(k) - (v + 1)>>
    BY <1>3, <1>6, <2>1, <2>2
  <2>4. E(k) - (v + 1) = E(k) - v - 1 /\ E(k) - v >= 1
    BY <1>1, <1>3, <1>7
  <2>5. here[1] = TRUE /\ here[2] = E(k) - v /\ next = <<TRUE, here[2] - 1>>
    BY <1>4, <2>3, <2>4
  <2>6. here[2] >= 1 /\ here[2] # 1
    BY <1>9, <2>4, <2>5
  <2> QED BY <2>5, <2>6 DEF CountsDown
<1> QED BY <1>8, <1>9

(* While it does not, it counts down to when the next window opens.        *)
LEMMA WalkShowsOff ==
  ASSUME NEW ps, NEW walks, NEW clear, WalksApart(ps, walks, clear), walks # {},
         WindowStarts(ps, walks) # {}, NEW u \in 0 .. Length(ps) - 1,
         \A k \in WindowStarts(ps, walks), v \in {u, u + Length(ps)} : ~WalksAt(ps, walks, clear, k, v)
  PROVE  CountsDown(Walk(ps, walks, clear, u), Walk(ps, walks, clear, (u + 1) % Length(ps)))
<1> DEFINE K == WindowStarts(ps, walks)
           A(i) == Start(ps, i)
           E(i) == WalkStop(ps, walks, clear, i)
           C == Length(ps)
           u2 == (u + 1) % C
           On(i, w) == WalksAt(ps, walks, clear, i, w)
           here == Walk(ps, walks, clear, u)
           next == Walk(ps, walks, clear, u2)
           D(i) == (A(i) - u) % C
           D2(i) == (A(i) - u2) % C
           Ds == Opens(ps, walks, u)
           D2s == Opens(ps, walks, u2)
<1>1. /\ C \in Nat /\ C > 0
      /\ \A i \in K : A(i) \in Nat /\ A(i) < C /\ E(i) \in Int /\ A(i) < E(i)
  BY DEF WalksApart
<1>2. \A i \in K : \A w : On(i, w) <=> A(i) <= w /\ w < E(i)
  BY DEF WalksAt
<1>3. u \in Nat /\ u < C /\ K # {} /\ \A i \in K : ~On(i, u) /\ ~On(i, u + C)
  BY <1>1
<1>4. here = <<FALSE, Min(Ds)>>
  <2>1. WalkRule(ps, walks, clear, u)
    BY WalkIs
  <2> QED BY <2>1 DEF WalkRule
<1>5. u2 = (IF u + 1 < C THEN u + 1 ELSE 0) /\ u2 \in 0 .. C - 1
  <2> HIDE DEF C
  <2> QED BY <1>1, <1>3, ModOf
<1>6. /\ \A i \in K, w \in {u2, u2 + C} : On(i, w) => next = <<TRUE, E(i) - w>>
      /\ (\A i \in K, w \in {u2, u2 + C} : ~On(i, w)) => next = <<FALSE, Min(D2s)>>
  <2> HIDE DEF u2
  <2>1. WalkRule(ps, walks, clear, u2)
    BY <1>5, WalkIs
  <2> QED BY <2>1 DEF WalkRule
<1>7. Ds = {D(i) : i \in K} /\ D2s = {D2(i) : i \in K}
  BY DEF Opens
<1> SUFFICES CountsDown(here, next)
  OBVIOUS
<1> HIDE DEF K, A, E, C, On, here, next, Ds, D2s, u2
<1>8. ASSUME NEW i \in K
      PROVE  D(i) \in Nat /\ D(i) >= 1 /\ D(i) = IF A(i) < u THEN A(i) - u + C ELSE A(i) - u
  <2>1. A(i) \in Nat /\ A(i) < C /\ E(i) \in Int /\ A(i) < E(i)
    BY <1>1
  <2>2. D(i) = IF A(i) - u < 0 THEN A(i) - u + C ELSE IF A(i) - u < C THEN A(i) - u ELSE 0
    BY <2>1, <1>1, <1>3, ModOf
  <2>3. A(i) # u
    BY <2>1, <1>2, <1>3
  <2> HIDE DEF D
  <2> QED BY <2>1, <2>2, <2>3, <1>1, <1>3
<1>9. ASSUME NEW i \in K
      PROVE  D2(i) = IF A(i) < u2 THEN A(i) - u2 + C ELSE A(i) - u2
  <2>1. A(i) \in Nat /\ A(i) < C
    BY <1>1
  <2>2. D2(i) = IF A(i) - u2 < 0 THEN A(i) - u2 + C ELSE IF A(i) - u2 < C THEN A(i) - u2 ELSE 0
    BY <2>1, <1>1, <1>5, ModOf
  <2> HIDE DEF D2
  <2> QED BY <2>1, <2>2, <1>1, <1>5
<1> HIDE DEF D, D2
<1>10. Min(Ds) \in Ds /\ \A y \in Ds : Min(Ds) <= y
  <2>1. Ds \in SUBSET Nat /\ Ds # {}
    BY <1>3, <1>7, <1>8
  <2> QED BY <2>1, LeastOf
<1>11. PICK k \in K : Min(Ds) = D(k)
  BY <1>7, <1>10
<1>12. \A i \in K : D(k) <= D(i)
  BY <1>7, <1>10, <1>11
<1>13. A(k) \in Nat /\ A(k) < C /\ E(k) \in Int /\ A(k) < E(k) /\ D(k) \in Nat /\ D(k) >= 1
  BY <1>1, <1>8
<1>14. CASE D(k) = 1
  <2>1. A(k) = u2
    BY <1>1, <1>3, <1>5, <1>8, <1>13, <1>14
  <2>2. On(k, u2)
    BY <2>1, <1>2, <1>13
  <2>3. next = <<TRUE, E(k) - u2>>
    BY <1>6, <2>2
  <2>4. here[1] = FALSE /\ here[2] = 1 /\ next[1] = TRUE
    BY <1>4, <1>11, <1>14, <2>3
  <2> QED BY <2>4 DEF CountsDown
<1>15. CASE D(k) # 1
  <2>1. \A i \in K : D(i) >= 2
    <3> SUFFICES ASSUME NEW i \in K PROVE D(i) >= 2
      OBVIOUS
    <3> QED BY <1>8, <1>12, <1>13, <1>15
  <2>2. ASSUME NEW i \in K PROVE D2(i) = D(i) - 1
    BY <1>1, <1>3, <1>5, <1>8, <1>9, <2>1
  <2>3. ASSUME NEW i \in K, NEW w \in {u2, u2 + C}, On(i, w) PROVE FALSE
    <3>1. A(i) \in Nat /\ A(i) < C /\ E(i) \in Int /\ A(i) <= w /\ w < E(i)
      BY <1>1, <1>2, <2>3
    <3>2. A(i) # u2
      BY <1>1, <1>3, <1>5, <1>8, <2>1, <3>1
    <3>3. A(i) # w
      BY <1>1, <1>5, <2>3, <3>1, <3>2
    <3>4. w = 0 \/ w - 1 = u \/ w - 1 = u + C
      BY <1>1, <1>3, <1>5, <2>3
    <3>5. w = 0 => FALSE
      BY <3>1, <3>3
    <3>6. A(i) <= w - 1 /\ w - 1 < E(i)
      BY <1>1, <1>5, <2>3, <3>1, <3>3
    <3>7. On(i, w - 1)
      BY <1>2, <3>6
    <3> QED BY <1>3, <3>4, <3>5, <3>7
  <2>4. next = <<FALSE, Min(D2s)>>
    BY <1>6, <2>3
  <2>5. Min(D2s) = D(k) - 1
    <3>1. D(k) - 1 \in D2s
      BY <1>7, <2>2
    <3>2. \A y \in D2s : D(k) - 1 <= y
      <4> SUFFICES ASSUME NEW i \in K PROVE D(k) - 1 <= D2(i)
        BY <1>7
      <4>1. D(i) \in Nat
        BY <1>8
      <4> QED BY <1>12, <1>13, <2>2, <4>1
    <3>3. D2s \in SUBSET Nat
      <4> SUFFICES ASSUME NEW i \in K PROVE D2(i) \in Nat
        BY <1>7
      <4>1. D(i) \in Nat
        BY <1>8
      <4> QED BY <2>1, <2>2, <4>1
    <3>4. Min(D2s) \in D2s /\ \A y \in D2s : Min(D2s) <= y
      BY <3>1, <3>3, LeastOf
    <3>5. Min(D2s) <= D(k) - 1 /\ D(k) - 1 <= Min(D2s) /\ Min(D2s) \in Nat
      BY <3>1, <3>2, <3>3, <3>4
    <3> QED BY <1>13, <3>5
  <2>6. here[1] = FALSE /\ here[2] = D(k) /\ next = <<FALSE, here[2] - 1>>
    BY <1>4, <1>11, <2>4, <2>5
  <2>7. here[2] >= 1 /\ here[2] # 1
    BY <1>13, <1>15, <2>6
  <2> QED BY <2>6, <2>7 DEF CountsDown
<1> QED BY <1>14, <1>15

LEMMA WalkCounts ==
  ASSUME NEW ps, NEW walks, Plan(ps, walks), NEW clear \in Nat, NEW u \in 0 .. Length(ps) - 1
  PROVE  CountsDown(Walk(ps, walks, clear, u), Walk(ps, walks, clear, (u + 1) % Length(ps)))
<1>1. WalksApart(ps, walks, clear) /\ WindowStarts(ps, walks) # {} /\ walks # {}
  BY WalksOK, WindowsBegin DEF Plan
<1> QED BY <1>1, WalkShowsOn, WalkShowsOff

(* A light counts down to its change.                                      *)
LEMMA LightCounts ==
  ASSUME NEW ps, SpansOK(ps), NEW k \in DOMAIN ps,
         ps[k].green \in Nat, ps[k].green >= ProtectedGreen, NEW u \in 0 .. Length(ps) - 1
  PROVE  CountsDown(LightIs(ps, k, u), LightIs(ps, k, (u + 1) % Length(ps)))
<1> DEFINE s == Start(ps, k)
           C == Length(ps)
           g == ps[k].green
           u2 == (u + 1) % C
           here == LightIs(ps, k, u)
           next == LightIs(ps, k, u2)
<1>1. s \in Nat /\ C \in Nat /\ g \in Nat /\ g >= 8 /\ s + (g + 5) <= C /\ u \in Nat /\ u < C
  <2>1. Span(ps[k]) = g + 5
    BY DEF Span, Amber, AllRed
  <2> QED BY <2>1, PhasesApart DEF ProtectedGreen
<1>2. \A v : LightIs(ps, k, v) = IF s <= v /\ v < s + g THEN <<"green", s + g - v>>
                                 ELSE IF s <= v /\ v < s + g + 3 THEN <<"amber", s + g + 3 - v>>
                                 ELSE <<"red", (s - v) % C>>
  BY DEF LightIs, Amber
<1>3. /\ here = IF s <= u /\ u < s + g THEN <<"green", s + g - u>>
                ELSE IF s <= u /\ u < s + g + 3 THEN <<"amber", s + g + 3 - u>>
                ELSE <<"red", (s - u) % C>>
      /\ next = IF s <= u2 /\ u2 < s + g THEN <<"green", s + g - u2>>
                ELSE IF s <= u2 /\ u2 < s + g + 3 THEN <<"amber", s + g + 3 - u2>>
                ELSE <<"red", (s - u2) % C>>
  BY <1>2
<1>4. u2 = (IF u + 1 < C THEN u + 1 ELSE 0) /\ u2 \in 0 .. C - 1
  <2> HIDE DEF C
  <2> QED BY <1>1, ModOf
<1> DEFINE d == (s - u) % C
           d2 == (s - u2) % C
<1> SUFFICES CountsDown(here, next)
  OBVIOUS
<1> HIDE DEF s, C, g, here, next, u2
<1>5. d = IF s < u THEN s - u + C ELSE s - u
  <2>1. s - u \in Int /\ -C <= s - u /\ s - u < C /\ C > 0
    BY <1>1
  <2> QED BY <1>1, <2>1, ModOf
<1>6. d2 = IF s < u2 THEN s - u2 + C ELSE s - u2
  <2>1. s - u2 \in Int /\ -C <= s - u2 /\ s - u2 < C /\ C > 0
    BY <1>1, <1>4
  <2> QED BY <1>1, <1>4, <2>1, ModOf
<1> HIDE DEF d, d2
<1>7. CASE s <= u /\ u < s + g
  <2>1. here[1] = "green" /\ here[2] = s + g - u /\ here[2] >= 1
    BY <1>1, <1>3, <1>7
  <2>2. u2 = u + 1
    BY <1>1, <1>4, <1>7
  <2>3. CASE u + 1 = s + g
    <3>1. next[1] = "amber" /\ here[2] = 1
      BY <1>1, <1>3, <2>1, <2>2, <2>3
    <3> QED BY <2>1, <3>1 DEF CountsDown
  <2>4. CASE u + 1 # s + g
    <3>1. next = <<"green", here[2] - 1>> /\ here[2] # 1
      BY <1>1, <1>3, <1>7, <2>1, <2>2, <2>4
    <3> QED BY <2>1, <3>1 DEF CountsDown
  <2> QED BY <2>3, <2>4
<1>8. CASE s + g <= u /\ u < s + g + 3
  <2>1. here[1] = "amber" /\ here[2] = s + g + 3 - u /\ here[2] >= 1
    BY <1>1, <1>3, <1>8
  <2>2. u2 = u + 1
    BY <1>1, <1>4, <1>8
  <2>3. CASE u + 1 = s + g + 3
    <3>1. next[1] = "red" /\ here[2] = 1
      BY <1>1, <1>3, <2>1, <2>2, <2>3
    <3> QED BY <2>1, <3>1 DEF CountsDown
  <2>4. CASE u + 1 # s + g + 3
    <3>1. next = <<"amber", here[2] - 1>> /\ here[2] # 1
      BY <1>1, <1>3, <1>8, <2>1, <2>2, <2>4
    <3> QED BY <2>1, <3>1 DEF CountsDown
  <2> QED BY <2>3, <2>4
<1>9. CASE ~(s <= u /\ u < s + g + 3)
  <2>1. here[1] = "red" /\ here[2] = d
    BY <1>1, <1>3, <1>9 DEF d
  <2>2. d \in Int /\ d >= 1
    BY <1>1, <1>5, <1>9
  <2>3. CASE u2 = s
    <3>1. next[1] = "green" /\ d = 1
      BY <1>1, <1>3, <1>4, <1>5, <1>9, <2>3
    <3> QED BY <2>1, <3>1 DEF CountsDown
  <2>4. CASE u2 # s
    <3>1. ~(s <= u2 /\ u2 < s + g + 3)
      BY <1>1, <1>4, <1>9, <2>4
    <3>2. next = <<"red", d2>>
      BY <1>1, <1>3, <1>4, <3>1 DEF d2
    <3>3. d2 = d - 1 /\ d # 1
      BY <1>1, <1>4, <1>5, <1>6, <1>9, <2>4
    <3> QED BY <2>1, <2>2, <3>2, <3>3 DEF CountsDown
  <2> QED BY <2>3, <2>4
<1> QED BY <1>1, <1>7, <1>8, <1>9

LEMMA CyclePositive == InCycle => Cycle \in Nat /\ Cycle > 0 /\ now \in 0 .. Cycle - 1 /\ now \in Nat /\ now % Cycle = now
<1> SUFFICES ASSUME InCycle PROVE Cycle \in Nat /\ Cycle > 0 /\ now \in 0 .. Cycle - 1 /\ now \in Nat /\ now % Cycle = now
  OBVIOUS
<1> DEFINE C == Cycle
<1>1. C \in Nat /\ now \in 0 .. C - 1
  BY CycleNat DEF InCycle
<1> HIDE DEF C
<1>2. C > 0 /\ now \in Nat /\ now % C = now
  BY <1>1
<1> QED BY <1>1, <1>2 DEF C

LEMMA LightsTrue ==
  ASSUME InCycle, NEW c \in Movement
  PROVE  CountsDown(<<Light(c, now), Left(c, now)>>, <<Light(c, now + 1), Left(c, now + 1)>>)
<1> DEFINE k == PhaseOf(Phases, c)
           here == LightIs(Phases, k, now)
           next == LightIs(Phases, k, (now + 1) % Cycle)
<1>1. Cycle > 0 /\ now \in Int /\ now + 1 \in Int /\ now % Cycle = now /\ now \in 0 .. Length(Phases) - 1
  BY CyclePositive DEF Cycle
<1>2. Light(c, now) = here[1] /\ Left(c, now) = here[2]
  BY <1>1, ShownIs
<1>3. Light(c, now + 1) = next[1] /\ Left(c, now + 1) = next[2]
  BY <1>1, ShownIs
<1>4. \A u : LightIs(Phases, k, u) = <<LightIs(Phases, k, u)[1], LightIs(Phases, k, u)[2]>>
  BY DEF LightIs
<1>5. CountsDown(here, next)
  <2>1. k \in DOMAIN Phases /\ Phases[k].green \in Nat /\ Phases[k].green >= ProtectedGreen /\ SpansOK(Phases)
    BY PhaseOfIn, PhasesOK
  <2> HIDE DEF k
  <2>2. CountsDown(LightIs(Phases, k, now), LightIs(Phases, k, (now + 1) % Length(Phases)))
    BY <1>1, <2>1, LightCounts
  <2> QED BY <2>2 DEF Cycle
<1> HIDE DEF k
<1>6. here = <<Light(c, now), Left(c, now)>> /\ next = <<Light(c, now + 1), Left(c, now + 1)>>
  BY <1>2, <1>3, <1>4
<1> QED BY <1>5, <1>6

LEMMA CrossingWalkAt ==
  ASSUME NEW t \in 0 .. Cycle - 1
  PROVE  CrossingWalk(t) = Walk(Phases, Walking, Clear, t)
<1> DEFINE C == Cycle
<1>1. C \in Nat /\ t \in 0 .. C - 1
  BY CycleNat
<1>2. WalkShown = [u \in 0 .. C - 1 |-> Walk(Phases, Walking, Clear, u)]
  BY DEF WalkShown, Walking
<1>3. CrossingWalk(t) = WalkShown[t % C]
  BY DEF CrossingWalk
<1> HIDE DEF C
<1>4. t % C = t
  BY <1>1
<1> QED BY <1>1, <1>2, <1>3, <1>4

LEMMA CrossingWalkIs ==
  ASSUME InCycle
  PROVE  /\ CrossingWalk(now) = Walk(Phases, Walking, Clear, now)
         /\ CrossingWalk(now + 1) = Walk(Phases, Walking, Clear, (now + 1) % Length(Phases))
<1> DEFINE C == Cycle
           u2 == (now + 1) % C
<1>1. C \in Nat /\ C > 0 /\ now \in 0 .. C - 1 /\ now % C = now /\ now \in Nat
  BY CyclePositive
<1>2. u2 \in 0 .. C - 1
  <2> HIDE DEF C
  <2> QED BY <1>1
<1>3. WalkShown = [u \in 0 .. C - 1 |-> Walk(Phases, Walking, Clear, u)]
  BY DEF WalkShown, Walking
<1>4. CrossingWalk(now) = WalkShown[now % C] /\ CrossingWalk(now + 1) = WalkShown[u2]
  BY DEF CrossingWalk
<1>5. u2 = (now + 1) % Length(Phases)
  BY DEF Cycle
<1> HIDE DEF C, u2
<1> QED BY <1>1, <1>2, <1>3, <1>4, <1>5

LEMMA WalkingPlan == Walking # {} => Plan(Phases, Walking)
  BY PhasesOK DEF Plan, Walking, WalkPhases

LEMMA SomePhase == ASSUME NEW ps, SpansOK(ps), Length(ps) > 0 PROVE DOMAIN ps # {}
<1> SUFFICES ASSUME DOMAIN ps = {} PROVE FALSE
  OBVIOUS
<1>1. Len(ps) \in Nat /\ 1 .. Len(ps) = {}
  BY DEF SpansOK
<1>2. Len(ps) = 0
  BY <1>1
<1>3. Start(ps, 1) = 0 /\ Length(ps) = Start(ps, Len(ps) + 1)
  BY StartsAdd
<1> QED BY <1>2, <1>3

(* On a crossing without a walk phase it never shows.                      *)
LEMMA NoWalk ==
  ASSUME NEW ps, SpansOK(ps), Length(ps) > 0, NEW clear, NEW u
  PROVE  Walk(ps, {}, clear, u) = <<FALSE, Never>>
<1>1. DOMAIN ps # {}
  BY SomePhase
<1>2. WindowStarts(ps, {}) = {}
  BY <1>1 DEF WindowStarts
<1> DEFINE t == u % Length(ps)
           left == {WalkStop(ps, {}, clear, w[1]) - w[2] :
                      w \in {x \in WindowStarts(ps, {}) \X {t, t + Length(ps)} :
                               Start(ps, x[1]) <= x[2] /\ x[2] < WalkStop(ps, {}, clear, x[1])}}
<1>3. left = {}
  BY <1>2
<1>4. Walk(ps, {}, clear, u) =
        CASE {} = {} -> <<FALSE, Never>>
          [] left # {} -> <<TRUE, Max(left)>>
          [] OTHER -> <<FALSE, Min({(Start(ps, k) - t) % Length(ps) : k \in WindowStarts(ps, {})})>>
  BY DEF Walk
<1> HIDE DEF left
<1> QED BY <1>3, <1>4

LEMMA WalkTrue ==
  ASSUME InCycle, CrossingWalk(now)[2] # Never
  PROVE  CountsDown(CrossingWalk(now), CrossingWalk(now + 1))
<1>1. CASE Walking = {}
  <2>1. Walk(Phases, Walking, Clear, now) = <<FALSE, Never>>
    BY <1>1, NoWalk, PhasesOK, CyclePositive DEF Cycle
  <2> QED BY <2>1, CrossingWalkIs
<1>2. CASE Walking # {}
  <2>1. Clear \in Nat /\ now \in 0 .. Length(Phases) - 1
    BY WayTyped, CyclePositive DEF Cycle
  <2>2. CountsDown(Walk(Phases, Walking, Clear, now), Walk(Phases, Walking, Clear, (now + 1) % Length(Phases)))
    BY <1>2, <2>1, WalkingPlan, WalkCounts
  <2> QED BY <2>2, CrossingWalkIs
<1> QED BY <1>1, <1>2

LEMMA LeftIsTrueAt == InCycle => LeftIsTrue
  BY LightsTrue, WalkTrue DEF LeftIsTrue

(* What Controller::light_left and Controller::walk say is left of a light *)
(* or of the walk light is what is left: it counts down by the clock, and  *)
(* then the light changes; for any junction, crossing and clearance time.  *)
THEOREM LeftIsTrueAlways == Spec => []LeftIsTrue
  BY StaysInCycle, LeftIsTrueAt, PTL

-----------------------------------------------------------------------------
(* Over the crossing in time                                               *)

(* Within a window, and the all-red after it, walk phases run.             *)
LEMMA RunPhases ==
  ASSUME NEW ps, NEW walks, Plan(ps, walks), NEW k \in WindowStarts(ps, walks),
         NEW u \in 0 .. Length(ps) - 1, NEW v \in {u, u + Length(ps)},
         Start(ps, k) <= v, v < WindowEnd(ps, walks, k) + AllRed
  PROVE  Active(ps, u) \in walks
<1> DEFINE n == Len(ps)
           C == Length(ps)
           S(p) == Start(ps, p)
           W == WindowEnd(ps, walks, k)
           p == Active(ps, u)
<1>0. SpansOK(ps) /\ n \in Nat /\ DOMAIN ps = 1 .. n /\ WindowStarts(ps, walks) \subseteq 1 .. n /\ k \in walks
  BY PlanTyped DEF Plan
<1>1. PICK m : IsRun(n, walks, k, m) /\ RunOf(ps, walks, k) = Round(n, k, m)
  BY <1>0, PlanTyped, RunIs
<1>2. W = IF k + m <= n THEN S(k + m + 1) - 2 ELSE S(k + m - n + 1) - 2 + C
  BY <1>1, WindowIs DEF AllRed
<1>3. p \in 1 .. n /\ S(p) <= u /\ u <= S(p) + Span(ps[p]) - 1
  <2>1. p \in DOMAIN ps /\ Runs(ps, p, u)
    BY <1>0, ActiveRuns
  <2> QED BY <1>0, <2>1 DEF Runs
<1>4. S(p + 1) = S(p) + Span(ps[p]) /\ S(p) \in Nat /\ Span(ps[p]) \in Nat
  BY <1>0, <1>3, StartsAdd DEF SpansOK
<1>5. /\ \A i, j \in 1 .. n + 1 : i <= j => S(i) <= S(j) /\ S(i) \in Nat /\ S(j) \in Nat
      /\ S(n + 1) = C /\ C \in Nat
  BY <1>0, StartsGrow, StartsAdd
<1>6. m \in 0 .. n - 1 /\ k \in 1 .. n /\ \A i \in 0 .. m : Round(n, k, i) \in walks
  BY <1>0, <1>1 DEF IsRun
<1>7. Start(ps, k) <= v /\ v < W + 2 /\ (v = u \/ v = u + C) /\ u \in Nat /\ u < C
  BY <1>5 DEF AllRed
<1>8. RoundTo(n, k, p) \in 0 .. n - 1 /\ Round(n, k, RoundTo(n, k, p)) = p
  BY <1>0, <1>3, <1>6, RoundOnto
<1> HIDE DEF n, C, S, W, p
<1>9. RoundTo(n, k, p) <= m
  <2>1. ASSUME NEW q \in 1 .. n + 1, u < S(q) PROVE p < q
    <3> SUFFICES ASSUME ~(p < q) PROVE FALSE
      OBVIOUS
    <3>1. p \in 1 .. n + 1 /\ q <= p
      BY <1>0, <1>3, <2>1
    <3>2. S(q) <= S(p) /\ S(q) \in Nat
      BY <1>5, <2>1, <3>1
    <3> QED BY <1>3, <1>4, <1>7, <2>1, <3>2
  <2>2. ASSUME S(k) <= u PROVE k <= p
    <3> SUFFICES ASSUME ~(k <= p) PROVE FALSE
      OBVIOUS
    <3>1. p + 1 \in 1 .. n + 1 /\ k \in 1 .. n + 1 /\ p + 1 <= k
      BY <1>0, <1>3, <1>6
    <3>2. S(p + 1) <= S(k) /\ S(k) \in Nat /\ S(p + 1) \in Nat
      BY <1>5, <3>1
    <3> QED BY <1>3, <1>4, <1>7, <2>2, <3>2
  <2>3. S(k) <= v
    BY <1>7 DEF S
  <2>4. CASE k + m <= n
    <3>1. k + m + 1 \in 1 .. n + 1 /\ n + 1 \in 1 .. n + 1 /\ k + m + 1 <= n + 1
      BY <1>0, <1>6, <2>4
    <3>2. S(k + m + 1) <= C /\ S(k + m + 1) \in Nat
      BY <1>5, <3>1
    <3>3. v < S(k + m + 1)
      BY <1>2, <1>7, <1>5, <2>4, <3>2
    <3>4. v = u
      BY <1>5, <1>7, <3>2, <3>3
    <3>5. k <= p /\ p < k + m + 1
      BY <2>1, <2>2, <2>3, <3>1, <3>3, <3>4
    <3> QED BY <1>0, <1>3, <1>6, <3>5 DEF RoundTo
  <2>5. CASE ~(k + m <= n)
    <3>1. k + m - n + 1 \in 1 .. n + 1
      BY <1>0, <1>6, <2>5
    <3>2. S(k + m - n + 1) \in Nat
      BY <1>5, <3>1
    <3>3. CASE v = u
      <4>1. k <= p
        BY <2>2, <2>3, <3>3
      <4> QED BY <1>0, <1>3, <1>6, <2>5, <4>1 DEF RoundTo
    <3>4. CASE v = u + C
      <4>1. u < S(k + m - n + 1)
        BY <1>2, <1>5, <1>7, <2>5, <3>2, <3>4
      <4>2. p < k + m - n + 1
        BY <2>1, <3>1, <4>1
      <4> QED BY <1>0, <1>3, <1>6, <2>5, <4>2 DEF RoundTo
    <3> QED BY <1>7, <3>3, <3>4
  <2> QED BY <2>4, <2>5
<1> DEFINE i == RoundTo(n, k, p)
<1>10. i \in 0 .. m /\ Round(n, k, i) = p
  BY <1>6, <1>8, <1>9
<1> QED BY <1>6, <1>10 DEF p

(* Then what goes straight over the crossing has red.                      *)
LEMMA StraightsWait ==
  ASSUME InCycle, NEW c \in Straights, NEW k \in WindowStarts(Phases, Walking),
         NEW v \in {now, now + Cycle},
         Start(Phases, k) <= v, v < WindowEnd(Phases, Walking, k) + AllRed, Walking # {}
  PROVE  Light(c, now) = "red"
<1> SUFFICES ASSUME Light(c, now) # "red" PROVE FALSE
  OBVIOUS
<1> DEFINE l == PhaseOf(Phases, c)
           s == Start(Phases, l)
           g == Phases[l].green
<1>1. c \in Movement /\ Connectors[c].turn = "straight" /\ {Connectors[c].from, Connectors[c].to} \cap Across # {}
  BY DEF Straights
<1>2. l \in DOMAIN Phases /\ c \in Phases[l].connectors
  BY <1>1, PhaseOfIn
<1>3. l \notin Walking
  BY <1>1, <1>2 DEF Walking, WalkPhases
<1>4. Cycle \in Nat /\ now \in 0 .. Cycle - 1 /\ now \in Nat /\ now % Cycle = now /\ Cycle > 0
  BY CyclePositive
<1>5. LightIs(Phases, l, now)[1] # "red"
  BY <1>1, <1>4, ShownIs
<1>6. SpansOK(Phases) /\ g \in Nat
  BY <1>2, PhasesOK
<1>7. s \in Nat /\ Span(Phases[l]) = g + 5
  <2> HIDE DEF l
  <2>1. s \in Nat
    BY <1>2, <1>6, PhasesApart
  <2> QED BY <1>6, <2>1 DEF Span, Amber, AllRed
<1>8. Runs(Phases, l, now)
  <2> HIDE DEF l
  <2>1. s <= now /\ now < s + g + 3
    BY <1>4, <1>5, <1>6, <1>7 DEF LightIs, Amber
  <2> QED BY <1>4, <1>6, <1>7, <2>1 DEF Runs
<1>9. Active(Phases, now) = l
  BY <1>2, <1>4, <1>6, <1>8, ActiveRuns DEF Cycle
<1>10. Active(Phases, now) \in Walking
  BY <1>4, WalkingPlan, RunPhases DEF Cycle
<1> QED BY <1>3, <1>9, <1>10

(* The walk light shows in a window only.                                  *)
LEMMA ShownInWindow ==
  ASSUME NEW t \in 0 .. Cycle - 1, CrossingWalk(t)[1]
  PROVE  /\ Walking # {}
         /\ \E k \in WindowStarts(Phases, Walking), v \in {t, t + Cycle} :
              WalksAt(Phases, Walking, Clear, k, v)
                /\ CrossingWalk(t)[2] = WalkStop(Phases, Walking, Clear, k) - v
<1>1. t \in 0 .. Length(Phases) - 1 /\ Length(Phases) > 0 /\ Length(Phases) = Cycle /\ Clear \in Nat
  BY CycleNat, WayTyped DEF Cycle
<1>2. CrossingWalk(t) = Walk(Phases, Walking, Clear, t)
  BY CrossingWalkAt
<1>0. \A x : <<FALSE, x>>[1] = FALSE
  OBVIOUS
<1>3. Walking # {}
  <2> SUFFICES ASSUME Walking = {} PROVE FALSE
    OBVIOUS
  <2>1. Walk(Phases, Walking, Clear, t) = <<FALSE, Never>>
    BY <1>1, NoWalk, PhasesOK
  <2>2. CrossingWalk(t)[1] = FALSE
    BY <1>0, <1>2, <2>1
  <2> QED BY <2>2
<1>4. WalksApart(Phases, Walking, Clear)
  BY <1>1, <1>3, WalkingPlan, WalksOK
<1>5. WalkRule(Phases, Walking, Clear, t)
  BY <1>1, <1>3, <1>4, WalkIs
<1>6. \E k \in WindowStarts(Phases, Walking), v \in {t, t + Cycle} : WalksAt(Phases, Walking, Clear, k, v)
  <2> SUFFICES ASSUME \A k \in WindowStarts(Phases, Walking), v \in {t, t + Cycle} :
                        ~WalksAt(Phases, Walking, Clear, k, v)
               PROVE  FALSE
    OBVIOUS
  <2>1. CrossingWalk(t) = <<FALSE, Min(Opens(Phases, Walking, t))>>
    BY <1>1, <1>2, <1>5 DEF WalkRule
  <2>2. CrossingWalk(t)[1] = FALSE
    BY <1>0, <2>1
  <2> QED BY <2>2
<1>7. PICK k \in WindowStarts(Phases, Walking), v \in {t, t + Cycle} : WalksAt(Phases, Walking, Clear, k, v)
  BY <1>6
<1>8. CrossingWalk(t) = <<TRUE, WalkStop(Phases, Walking, Clear, k) - v>>
  BY <1>1, <1>2, <1>5, <1>7 DEF WalkRule
<1>9. CrossingWalk(t)[2] = WalkStop(Phases, Walking, Clear, k) - v
  BY <1>8
<1> QED BY <1>3, <1>7, <1>9

(* The time it still needs at walking speed, to the crossing's end.        *)
Todo(p) == IF IsCrossing(p.leg) THEN p.need - p.at ELSE WalkLong - p.at + p.need

(* Some window's walk light was showing when it started, and it is done    *)
(* the clearance time after that light ends.                               *)
OverInTime(p, t) ==
  \E k \in WindowStarts(Phases, Walking), v \in {t, t + Cycle} :
    Start(Phases, k) <= v /\ v + Todo(p) <= WalkStop(Phases, Walking, Clear, k) + Clear + Curb

(* A crossing pedestrian is on the crossing or before it; and who started  *)
(* on the walk light and is not held up is in time.                        *)
Crosses(p) == p.state = "crossing" => IsCrossing(p.leg) \/ (p.leg < Len(Legs) /\ IsCrossing(p.leg + 1))
AcrossOK ==
  /\ CrowdOK /\ Crosses(ped) /\ InCycle
  /\ followed # "pedestrian" => ~lawful
  /\ lawful /\ freely /\ ped.state = "crossing" /\ Todo(ped) > Kerb => OverInTime(ped, now)

LEMMA NoNextCrossing ==
  ASSUME NEW k \in DOMAIN Legs, IsCrossing(k)
  PROVE  k + 1 \in DOMAIN Legs /\ ~IsCrossing(k + 1)
<1>1. k \in 1 .. Len(Legs) /\ k # Len(Legs) /\ Len(Legs) \in Nat /\ DOMAIN Legs = 1 .. Len(Legs)
  BY WayTyped
<1>2. k \in 1 .. Len(Legs) - 1
  BY <1>1
<1>3. Legs[k + 1] = "walk"
  BY <1>2, CrowdAssumption DEF IsCrossing
<1> QED BY <1>1, <1>2, <1>3 DEF IsCrossing

LEMMA TodoTyped == ASSUME NEW p \in PedType PROVE Todo(p) \in Int /\ p.need \in Int /\ p.at \in Int /\ p.leg \in DOMAIN Legs
  BY WayTyped DEF Todo, PedType

LEMMA OnwardTyped ==
  ASSUME NEW p, PedOK(p), p.state # "hit"
  PROVE  Onward(p) \in PedType /\ Onward(p).need = p.need
<1>0. p \in PedType /\ p.leg \in 1 .. Len(Legs) /\ Len(Legs) \in Nat /\ p.at \in Int /\ LegLong(p) \in Int
  BY WayTyped, LegLongTyped DEF PedOK, PedType
<1>1. CASE p.at < LegLong(p) \/ AtEnd(p) \/ (IsCrossing(p.leg + 1) /\ p.state # "crossing")
  BY <1>0, <1>1 DEF Onward
<1>2. CASE ~(p.at < LegLong(p) \/ AtEnd(p) \/ (IsCrossing(p.leg + 1) /\ p.state # "crossing"))
  <2> DEFINE q == [p EXCEPT !.leg = p.leg + 1, !.at = p.at - LegLong(p)]
             w == [q EXCEPT !.state = "walking"]
  <2>1. p.leg + 1 \in DOMAIN Legs /\ p.at - LegLong(p) \in Int
    BY <1>0, <1>2, WayTyped DEF AtEnd
  <2>2. q \in PedType /\ q.need = p.need
    BY <1>0, <2>1 DEF PedType
  <2>3. Onward(p) = IF IsCrossing(p.leg) /\ ~IsCrossing(p.leg + 1) THEN Undecided(w) ELSE q
    BY <1>2 DEF Onward
  <2> HIDE DEF q
  <2>4. w \in PedType /\ w.need = p.need
    BY <2>2 DEF PedType
  <2> HIDE DEF w
  <2>5. Undecided(w) \in PedType /\ Undecided(w).need = p.need
    BY <2>4, UndecidedOK DEF Undecided, PedType
  <2> QED BY <2>2, <2>3, <2>5
<1> QED BY <1>1, <1>2

(* Going on while crossing.                                                *)
LEMMA OnwardCrossing ==
  ASSUME NEW p, PedOK(p), Crosses(p), p.state = "crossing", Onward(p).state = "crossing"
  PROVE  /\ Todo(Onward(p)) = Todo(p)
         /\ IsCrossing(Onward(p).leg) \/ (Onward(p).at < WalkLong /\ Onward(p).leg < Len(Legs) /\ IsCrossing(Onward(p).leg + 1))
<1>0. p \in PedType /\ p.leg \in 1 .. Len(Legs) /\ Len(Legs) \in Nat /\ p.at \in Int /\ p.need \in Int /\ WalkLong \in Int
  BY WayTyped, TodoTyped DEF PedOK
<1> DEFINE stays == p.at < LegLong(p) \/ AtEnd(p) \/ (IsCrossing(p.leg + 1) /\ p.state # "crossing")
           q == [p EXCEPT !.leg = p.leg + 1, !.at = p.at - LegLong(p)]
           w == [q EXCEPT !.state = "walking"]
<1>1. CASE IsCrossing(p.leg)
  <2>1. ~IsCrossing(p.leg + 1) /\ p.leg + 1 \in DOMAIN Legs
    BY <1>0, <1>1, NoNextCrossing, WayTyped
  <2>2. CASE stays
    <3>1. Onward(p) = p
      BY <2>2 DEF Onward
    <3> QED BY <1>1, <3>1
  <2>3. CASE ~stays
    <3>1. Onward(p) = Undecided(w)
      BY <1>1, <2>1, <2>3 DEF Onward
    <3>2. p.at - LegLong(p) \in Int
      BY <1>0, LegLongTyped
    <3>3. Undecided(w).state = "walking"
      <4>1. q \in PedType
        BY <1>0, <2>1, <3>2 DEF PedType
      <4> HIDE DEF q
      <4>2. w \in PedType /\ w.state = "walking"
        BY <4>1 DEF PedType
      <4> HIDE DEF w
      <4> QED BY <4>2, UndecidedOK
    <3> QED BY <3>1, <3>3
  <2> QED BY <2>2, <2>3
<1>2. CASE ~IsCrossing(p.leg)
  <2>1. p.leg < Len(Legs) /\ IsCrossing(p.leg + 1) /\ LegLong(p) = WalkLong /\ ~AtEnd(p)
    BY <1>0, <1>2 DEF Crosses, LegLong, AtEnd
  <2>2. CASE stays
    <3>1. Onward(p) = p
      BY <2>2 DEF Onward
    <3>2. p.at < WalkLong
      BY <2>1, <2>2
    <3> QED BY <2>1, <3>1, <3>2
  <2>3. CASE ~stays
    <3>1. Onward(p) = q
      BY <1>2, <2>3 DEF Onward
    <3>2. q.leg = p.leg + 1 /\ q.at = p.at - WalkLong /\ q.need = p.need
      BY <1>0, <2>1 DEF PedType
    <3> HIDE DEF q
    <3>3. Todo(q) = p.need - (p.at - WalkLong) /\ Todo(p) = WalkLong - p.at + p.need
      BY <1>2, <2>1, <3>2 DEF Todo
    <3> QED BY <1>0, <2>1, <3>1, <3>2, <3>3
  <2> QED BY <2>2, <2>3
<1> QED BY <1>1, <1>2

LEMMA DepartCrossing == ASSUME NEW p \in PedType, NEW r \in Depart(p), r.state = "crossing" PROVE r = p
<1>1. CASE r \in Spots(p.need)
  BY <1>1 DEF Spots
<1>2. CASE r = [p EXCEPT !.state = "walking", !.leg = 1, !.at = 0]
  BY <1>2 DEF PedType
<1> QED BY <1>1, <1>2 DEF Depart

LEMMA DrawnThere ==
  ASSUME NEW q \in PedType, NEW d \in Drawn(q)
  PROVE  d.at = q.at /\ d.need = q.need /\ d.leg = q.leg
<1>1. CASE q.decided
  BY <1>1 DEF Drawn
<1>2. CASE ~q.decided
  <2>1. PICK mood \in Moods : d = [q EXCEPT !.attentive = mood.attentive, !.jaywalking = mood.jaywalking,
                                          !.decided = TRUE, !.timer = 0]
    BY <1>2 DEF Drawn
  <2> QED BY <2>1 DEF PedType
<1> QED BY <1>1, <1>2

LEMMA DecideThere ==
  ASSUME NEW d \in PedType, NEW t, NEW gap
  PROVE  Decide(d, t, gap).at = d.at /\ Decide(d, t, gap).need = d.need /\ Decide(d, t, gap).leg = d.leg
<1>1. CASE (Green(d, t) \/ d.jaywalking) /\ (~d.attentive \/ gap)
  <2>1. Decide(d, t, gap) = [d EXCEPT !.state = "crossing", !.timer = 0]
    BY <1>1 DEF Decide
  <2> QED BY <2>1 DEF PedType
<1>2. CASE ~((Green(d, t) \/ d.jaywalking) /\ (~d.attentive \/ gap))
  <2> DEFINE m == Min({d.timer + 1, Stuck + 1})
  <2>1. Decide(d, t, gap) = [d EXCEPT !.state = "waiting", !.timer = m]
    BY <1>2 DEF Decide
  <2> HIDE DEF m
  <2> QED BY <2>1 DEF PedType
<1> QED BY <1>1, <1>2

(* Who is crossing after its decisions goes on, or starts at the curb.     *)
AtTheCurb(q) == /\ ~IsCrossing(q.leg) /\ q.leg < Len(Legs) /\ IsCrossing(q.leg + 1)
                /\ WalkLong - q.at <= Curb

LEMMA SteerCrossing ==
  ASSUME NEW p, PedOK(p), p.state # "hit", NEW t, NEW q \in Steer(p, t), q.state = "crossing"
  PROVE  IF Onward(p).state = "crossing" THEN q = Onward(p) ELSE AtTheCurb(q)
<1> DEFINE o == Onward(p)
           dwell == AtEnd(o) /\ o.at >= LegLong(o) - 1
<1>1. PedOK(o) /\ o.state # "hit" /\ o \in PedType
  BY OnwardOK DEF PedOK
<1>s. Steer(p, t) = IF dwell THEN {Undecided([o EXCEPT !.state = "dwelling", !.timer = d]) : d \in Dwells}
                    ELSE IF AtCurb(o) THEN UNION {Decisions(d, t) : d \in Drawn(o)}
                    ELSE {o}
  BY Zenon DEF Steer
<1> HIDE DEF o, dwell
<1>2. CASE dwell
  <2>1. PICK d \in Dwells : q = Undecided([o EXCEPT !.state = "dwelling", !.timer = d])
    BY <1>2, <1>s
  <2> DEFINE w == [o EXCEPT !.state = "dwelling", !.timer = d]
  <2>2. w \in PedType /\ w.state = "dwelling"
    BY <1>1, WayTyped DEF PedType
  <2>3. q = Undecided(w)
    BY <2>1
  <2> HIDE DEF w
  <2>4. q.state = "dwelling"
    BY <2>2, <2>3, UndecidedOK
  <2> QED BY <2>4
<1>3. CASE ~dwell /\ AtCurb(o)
  <2>0. q \in UNION {Decisions(d, t) : d \in Drawn(o)}
    BY <1>3, <1>s
  <2>1. PICK d \in Drawn(o) : q \in Decisions(d, t)
    BY <2>0
  <2>2. PICK gap \in BOOLEAN : q = Decide(d, t, gap)
    BY <2>1 DEF Decisions
  <2>3. d \in PedType /\ d.leg = o.leg /\ d.at = o.at
    BY <1>1, DrawnOK, DrawnThere
  <2>4. q.leg = o.leg /\ q.at = o.at
    BY <2>2, <2>3, DecideThere
  <2>5. o.leg \in 1 .. Len(Legs) /\ o.leg # Len(Legs) /\ IsCrossing(o.leg + 1) /\ o.state # "crossing"
        /\ LegLong(o) - o.at < Curb + 1
    BY <1>1, <1>3, WayTyped DEF AtCurb, AtEnd, PedType
  <2>6. ~IsCrossing(o.leg) /\ LegLong(o) = WalkLong
    BY <1>1, <2>5 DEF PedOK, LegLong
  <2>7. WalkLong \in Int /\ o.at \in Int /\ Curb \in Int /\ Len(Legs) \in Nat
    BY <1>1, WayTyped, TodoTyped
  <2>8. WalkLong - q.at <= Curb /\ q.leg < Len(Legs)
    BY <2>4, <2>5, <2>6, <2>7
  <2> QED BY <2>4, <2>5, <2>6, <2>8 DEF AtTheCurb, o
<1>4. CASE ~dwell /\ ~AtCurb(o)
  <2>1. q = o
    BY <1>4, <1>s
  <2> QED BY <2>1 DEF o
<1> QED BY <1>2, <1>3, <1>4

(* How one comes to be crossing after an update.                           *)
Strode(q, stride) == [q EXCEPT !.at = Min({q.at + stride, LegLong(q)})]
Begins(q) == q.state = "crossing" /\ Onward(ped).state # "crossing"
Comes(q, stride) ==
  /\ q \in Steer(ped, now') /\ ped.state # "hit" /\ PedOK(q) /\ q.state = "crossing"
  /\ stride \in Strides(q) /\ ped' = Strode(q, stride)
  /\ lawful' => IF Begins(q) THEN Green(q, now') ELSE lawful
  /\ freely' => (Begins(q) \/ freely) /\ stride > 0

LEMMA ComesToCross ==
  ASSUME CrowdOK, CrowdUpdate, ped'.state = "crossing"
  PROVE  \E q, stride : Comes(q, stride)
<1> DEFINE timed == IF ped.state \in {"dwelling", "hit"} THEN {[ped EXCEPT !.timer = Max({ped.timer - 1, 0})]}
                    ELSE Steer(ped, now')
           struck(q, stride, hit) == IF hit /\ q.state # "hit" THEN Hit(Strode(q, stride)) ELSE Strode(q, stride)
           history(q, stride) ==
             /\ lawful' = (IF Begins(q) THEN Green(q, now') ELSE lawful /\ ped'.state = "crossing")
             /\ freely' = ((Begins(q) \/ freely) /\ stride > 0 /\ ped'.state = "crossing")
<1>1. PICK q \in timed : \E stride \in Strides(q), hit \in BOOLEAN :
        ped' \in Depart(struck(q, stride, hit)) /\ history(q, stride)
  BY DEF CrowdUpdate, Begins, Strode
<1>2. PICK stride \in Strides(q), hit \in BOOLEAN :
        ped' \in Depart(struck(q, stride, hit)) /\ history(q, stride)
  BY <1>1
<1>3. PedOK(ped) /\ ped \in PedType
  BY DEF CrowdOK, PedOK
<1>4. PedOK(q) /\ (ped.state \in {"dwelling", "hit"} => q.state = ped.state)
  <2>1. CASE ped.state \in {"dwelling", "hit"}
    <3>1. q = [ped EXCEPT !.timer = Max({ped.timer - 1, 0})]
      BY <2>1
    <3>2. Max({ped.timer - 1, 0}) \in Int
      <4>1. ped.timer - 1 \in Int
        BY <1>3 DEF PedType
      <4>2. 0 \in Int
        OBVIOUS
      <4> QED BY <4>1, <4>2, MaxOfTwo
    <3>3. q \in PedType /\ q.leg = ped.leg /\ q.state = ped.state
      BY <1>3, <3>1, <3>2 DEF PedType
    <3> QED BY <1>3, <3>3 DEF PedOK
  <2>2. CASE ped.state \notin {"dwelling", "hit"}
    <3>1. q \in Steer(ped, now') /\ ped.state # "hit"
      BY <2>2
    <3> QED BY <1>3, <2>2, <3>1, SteerOK
  <2> QED BY <2>1, <2>2
<1>5. Strode(q, stride) \in PedType /\ Strode(q, stride).state = q.state
  <2>1. q \in PedType /\ LegLong(q) \in Int /\ q.at \in Int /\ stride \in Int
    BY <1>2, <1>4, LegLongTyped DEF PedOK, PedType, Strides
  <2>2. q.at + stride \in Int
    BY <2>1
  <2>3. Min({q.at + stride, LegLong(q)}) \in Int
    BY <2>1, <2>2, MinOfTwo
  <2> QED BY <2>1, <2>3 DEF PedType, Strode
<1> DEFINE m == Strode(q, stride)
<1>6. Hit(m) \in PedType /\ Hit(m).state = "hit"
  <2> HIDE DEF m
  <2>0. m \in PedType
    BY <1>5 DEF m
  <2> DEFINE w == [m EXCEPT !.state = "hit", !.timer = HitHold]
  <2>1. HitHold \in Int
    BY WayTyped
  <2>2. w \in PedType /\ w.state = "hit"
    BY <2>0, <2>1 DEF PedType
  <2>3. Hit(m) = Undecided(w)
    BY DEF Hit
  <2> HIDE DEF w
  <2> QED BY <2>2, <2>3, UndecidedOK
<1>7. struck(q, stride, hit) \in {m, Hit(m)} /\ struck(q, stride, hit) \in PedType
  BY <1>5, <1>6
<1> DEFINE x == struck(q, stride, hit)
<1>8. ped' = x
  <2>1. ped' \in Depart(x) /\ x \in PedType
    BY <1>2, <1>7
  <2> HIDE DEF x
  <2> QED BY <2>1, DepartCrossing
<1>9. ped' = m /\ q.state = "crossing"
  <2>1. x = m
    BY <1>6, <1>7, <1>8
  <2> HIDE DEF x, m
  <2> QED BY <1>5, <1>8, <2>1 DEF m
<1>10. ped.state \notin {"dwelling", "hit"}
  BY <1>4, <1>9
<1>11. q \in Steer(ped, now')
  BY <1>10
<1>12. history(q, stride)
  BY <1>2
<1>13. /\ lawful' => IF Begins(q) THEN Green(q, now') ELSE lawful
       /\ freely' => (Begins(q) \/ freely) /\ stride > 0
  BY <1>12
<1>14. Comes(q, stride)
  BY <1>2, <1>4, <1>9, <1>10, <1>11, <1>13 DEF Comes
<1> QED BY <1>14

LEMMA StridesIn == ASSUME NEW q, NEW stride \in Strides(q) PROVE stride \in Nat /\ (~IsCrossing(q.leg) => stride <= 1)
  BY DEF Strides

LEMMA MoveIs ==
  ASSUME NEW q \in PedType, NEW stride \in Strides(q)
  PROVE  LET at == Min({q.at + stride, LegLong(q)})
         IN  /\ at \in Int /\ at <= q.at + stride /\ at <= LegLong(q) /\ (at = q.at + stride \/ at = LegLong(q))
             /\ Strode(q, stride).leg = q.leg /\ Strode(q, stride).need = q.need /\ Strode(q, stride).at = at
             /\ Strode(q, stride).state = q.state
<1> DEFINE at == Min({q.at + stride, LegLong(q)})
<1>1. LegLong(q) \in Int /\ q.at \in Int /\ stride \in Int
  BY LegLongTyped, TodoTyped, StridesIn
<1>2. q.at + stride \in Int
  BY <1>1
<1>3. at \in {q.at + stride, LegLong(q)} /\ at <= q.at + stride /\ at <= LegLong(q)
  BY <1>1, <1>2, MinOfTwo
<1>4. at \in Int
  BY <1>1, <1>2, <1>3
<1> HIDE DEF at
<1>5. Strode(q, stride) = [q EXCEPT !.at = at]
  BY DEF Strode, at
<1>6. /\ Strode(q, stride).leg = q.leg /\ Strode(q, stride).need = q.need /\ Strode(q, stride).at = at
      /\ Strode(q, stride).state = q.state
  BY <1>5 DEF PedType
<1> QED BY <1>3, <1>4, <1>6 DEF at

LEMMA MoveTodo ==
  ASSUME NEW q \in PedType, NEW stride \in Strides(q), IsCrossing(q.leg) \/ q.at < WalkLong,
         Todo(Strode(q, stride)) > Kerb
  PROVE  Todo(Strode(q, stride)) = Todo(q) - stride
<1> DEFINE at == Min({q.at + stride, LegLong(q)})
           x == Strode(q, stride)
<1>1. /\ at \in Int /\ at <= q.at + stride /\ at <= LegLong(q) /\ (at = q.at + stride \/ at = LegLong(q))
      /\ x.leg = q.leg /\ x.need = q.need /\ x.at = at
  BY MoveIs
<1>2. q.at \in Int /\ q.need \in Int /\ stride \in Nat /\ Kerb \in Nat /\ WalkLong \in Int /\ (~IsCrossing(q.leg) => stride <= 1)
  BY TodoTyped, StridesIn, WayTyped
<1>3. Todo(x) > Kerb
  OBVIOUS
<1> HIDE DEF at, x
<1>4. CASE IsCrossing(q.leg)
  <2>1. Todo(x) = q.need - at /\ Todo(q) = q.need - q.at /\ LegLong(q) = q.need
    BY <1>1, <1>4 DEF Todo, LegLong
  <2> QED BY <1>1, <1>2, <1>3, <2>1 DEF x
<1>5. CASE ~IsCrossing(q.leg)
  <2>1. Todo(x) = WalkLong - at + q.need /\ Todo(q) = WalkLong - q.at + q.need /\ LegLong(q) = WalkLong
    BY <1>1, <1>5 DEF Todo, LegLong
  <2>2. q.at < WalkLong /\ stride <= 1
    BY <1>2, <1>5
  <2> QED BY <1>1, <1>2, <2>1, <2>2 DEF x
<1> QED BY <1>4, <1>5

LEMMA StartTodo ==
  ASSUME NEW q \in PedType, NEW stride \in Strides(q), AtTheCurb(q)
  PROVE  Todo(Strode(q, stride)) <= q.need + Curb
<1> DEFINE at == Min({q.at + stride, LegLong(q)})
           x == Strode(q, stride)
<1>1. /\ at \in Int /\ (at = q.at + stride \/ at = LegLong(q))
      /\ x.leg = q.leg /\ x.need = q.need /\ x.at = at
  BY MoveIs
<1>2. q.at \in Int /\ q.need \in Int /\ stride \in Nat /\ WalkLong \in Int /\ Curb \in Nat
  BY TodoTyped, StridesIn, WayTyped
<1> HIDE DEF at, x
<1>3. Todo(x) = WalkLong - at + q.need /\ LegLong(q) = WalkLong /\ WalkLong - q.at <= Curb
  BY <1>1 DEF Todo, LegLong, AtTheCurb
<1>4. Todo(x) <= q.need + Curb
  BY <1>1, <1>2, <1>3
<1> QED BY <1>4 DEF x

LEMMA OnwardState ==
  ASSUME NEW p \in PedType, PedOK(p), p.state # "hit", Onward(p).state = "crossing"
  PROVE  p.state = "crossing"
<1> DEFINE stays == p.at < LegLong(p) \/ AtEnd(p) \/ (IsCrossing(p.leg + 1) /\ p.state # "crossing")
           q == [p EXCEPT !.leg = p.leg + 1, !.at = p.at - LegLong(p)]
           w == [q EXCEPT !.state = "walking"]
<1>1. CASE stays
  BY <1>1 DEF Onward
<1>2. CASE ~stays
  <2>0. p.leg \in 1 .. Len(Legs) /\ Len(Legs) \in Nat /\ p.at \in Int /\ LegLong(p) \in Int
    BY WayTyped, LegLongTyped, TodoTyped
  <2>1. p.leg + 1 \in DOMAIN Legs /\ p.at - LegLong(p) \in Int
    BY <2>0, <1>2, WayTyped DEF AtEnd
  <2>2. q \in PedType /\ q.state = p.state
    BY <2>0, <2>1 DEF PedType
  <2>3. Onward(p) = IF IsCrossing(p.leg) /\ ~IsCrossing(p.leg + 1) THEN Undecided(w) ELSE q
    BY <1>2 DEF Onward
  <2> HIDE DEF q
  <2>4. w \in PedType /\ w.state = "walking"
    BY <2>2 DEF PedType
  <2> HIDE DEF w
  <2>5. Undecided(w).state = "walking"
    BY <2>4, UndecidedOK
  <2> QED BY <2>2, <2>3, <2>5
<1> QED BY <1>1, <1>2

LEMMA ComesInTime ==
  ASSUME AcrossOK, TimeToCross, Tick, NEW q, NEW stride, Comes(q, stride)
  PROVE  /\ Crosses(ped')
         /\ lawful' /\ freely' /\ Todo(ped') > Kerb => OverInTime(ped', now')
<1>0. /\ PedOK(ped) /\ ped \in PedType /\ ped.state # "hit" /\ Crosses(ped)
      /\ PedOK(q) /\ q \in PedType /\ q.state = "crossing"
      /\ q \in Steer(ped, now') /\ stride \in Strides(q) /\ ped' = Strode(q, stride)
  BY DEF AcrossOK, CrowdOK, PedOK, Comes
<1>1. ped'.leg = q.leg /\ ped'.state = "crossing"
  BY <1>0, MoveIs
<1>2. IF Onward(ped).state = "crossing" THEN q = Onward(ped) ELSE AtTheCurb(q)
  BY <1>0, SteerCrossing
<1>3. Onward(ped).state = "crossing" => ped.state = "crossing" /\ Todo(q) = Todo(ped)
        /\ (IsCrossing(q.leg) \/ (q.at < WalkLong /\ q.leg < Len(Legs) /\ IsCrossing(q.leg + 1)))
  BY <1>0, <1>2, OnwardState, OnwardCrossing
<1>4. Crosses(ped')
  BY <1>1, <1>2, <1>3 DEF Crosses, AtTheCurb
<1> DEFINE C == Cycle
           K == WindowStarts(Phases, Walking)
           A(k) == Start(Phases, k)
           E(k) == WalkStop(Phases, Walking, Clear, k)
           W(k) == WindowEnd(Phases, Walking, k)
           T == Todo(ped)
           T2 == Todo(ped')
<1>5. C \in Nat /\ C > 0 /\ now \in 0 .. C - 1 /\ now \in Nat /\ now' = (now + 1) % C
  BY CyclePositive DEF AcrossOK, Tick
<1>6. now' = (IF now + 1 < C THEN now + 1 ELSE 0) /\ now' \in 0 .. C - 1
  <2> HIDE DEF C
  <2> QED BY <1>5, ModOf
<1>7. T \in Int /\ T2 \in Int /\ Kerb \in Nat /\ Clear \in Nat /\ Curb \in Nat /\ q.need \in Int
  <2>1. Todo(ped') \in Int
    <3>1. ped'.at \in Int /\ ped'.need = q.need /\ ped'.leg = q.leg
      BY <1>0, MoveIs
    <3>2. q.need \in Int /\ WalkLong \in Int
      BY <1>0, TodoTyped, WayTyped
    <3> QED BY <3>1, <3>2 DEF Todo
  <2> QED BY <2>1, <1>0, TodoTyped, WayTyped
<1>8. \A k \in K : A(k) \in Nat /\ A(k) < C /\ W(k) \in Int /\ W(k) + 2 <= A(k) + C
                   /\ E(k) \in Int /\ E(k) + Clear + Curb <= W(k) + 2 + Kerb
  <2> SUFFICES ASSUME NEW k \in K
               PROVE  A(k) \in Nat /\ A(k) < C /\ W(k) \in Int /\ W(k) + 2 <= A(k) + C
                      /\ E(k) \in Int /\ E(k) + Clear + Curb <= W(k) + 2 + Kerb
    OBVIOUS
  <2>1. Walking # {}
    <3> SUFFICES ASSUME Walking = {} PROVE FALSE
      OBVIOUS
    <3>1. DOMAIN Phases # {}
      BY <1>5, PhasesOK, SomePhase DEF Cycle
    <3> QED BY <3>1 DEF WindowStarts
  <2>2. WindowsApart(Phases, Walking)
    BY <2>1, WalkingPlan, WindowsOK
  <2>3. E(k) \in Int
    BY <1>7, <2>2, WalkStopIn
  <2>4. E(k) + Clear + Curb <= W(k) + 2 + Kerb
    BY DEF TimeToCross, AllRed
  <2> QED BY <2>2, <2>3, <2>4 DEF WindowsApart, AllRed, Cycle
<1>9. ASSUME lawful', freely', T2 > Kerb PROVE OverInTime(ped', now')
  <2>1. CASE Onward(ped).state # "crossing"
    <3>1. Green(q, now') /\ AtTheCurb(q)
      BY <1>0, <1>2, <1>9, <2>1 DEF Comes, Begins
    <3>2. CrossingWalk(now')[1] /\ q.need <= CrossingWalk(now')[2] + Clear
      BY <3>1 DEF Green
    <3>3. PICK k \in K, v \in {now', now' + C} :
            WalksAt(Phases, Walking, Clear, k, v) /\ CrossingWalk(now')[2] = E(k) - v
      BY <1>6, <3>2, ShownInWindow
    <3>4. T2 <= q.need + Curb
      BY <1>0, <3>1, StartTodo
    <3>5. A(k) <= v
      BY <3>3 DEF WalksAt
    <3>6. v + T2 <= E(k) + Clear + Curb
      <4>1. v \in Int /\ E(k) \in Int
        BY <1>5, <1>6, <1>8, <3>3
      <4> HIDE DEF E, T2, C
      <4> QED BY <1>7, <3>2, <3>3, <3>4, <4>1
    <3> QED BY <3>3, <3>5, <3>6 DEF OverInTime
  <2>2. CASE Onward(ped).state = "crossing"
    <3>1. lawful /\ freely /\ stride > 0 /\ ped.state = "crossing"
      BY <1>3, <1>9, <2>2 DEF Comes, Begins
    <3>2. T2 = T - stride
      BY <1>0, <1>3, <1>9, <2>2, MoveTodo
    <3>3. stride \in Nat
      BY <1>0, StridesIn
    <3>4. T > Kerb /\ T2 <= T - 1
      BY <1>7, <1>9, <3>1, <3>2, <3>3
    <3>5. OverInTime(ped, now)
      BY <3>1, <3>4 DEF AcrossOK
    <3>6. PICK k \in K, v \in {now, now + C} : A(k) <= v /\ v + T <= E(k) + Clear + Curb
      BY <3>5 DEF OverInTime
    <3> HIDE DEF C, K, A, E, W, T, T2
    <3>7. A(k) \in Nat /\ A(k) < C /\ W(k) \in Int /\ W(k) + 2 <= A(k) + C
          /\ E(k) \in Int /\ E(k) + Clear + Curb <= W(k) + 2 + Kerb
      BY <1>8
    <3>8. v + 1 < 2 * C
      BY <1>5, <1>7, <3>4, <3>6, <3>7
    <3>9. v + 1 \in {now', now' + C}
      BY <1>5, <1>6, <3>6, <3>8
    <3>10. A(k) <= v + 1 /\ (v + 1) + T2 <= E(k) + Clear + Curb
      BY <1>5, <1>7, <3>4, <3>6, <3>7
    <3> QED BY <3>9, <3>10 DEF OverInTime, C, K, A, E, T2
  <2> QED BY <2>1, <2>2
<1> QED BY <1>4, <1>9

LEMMA AcrossInit == Init => AcrossOK
<1> SUFFICES ASSUME Init PROVE AcrossOK
  OBVIOUS
<1>1. CrowdOK /\ InCycle /\ lawful = FALSE
  BY CrowdInitOK DEF Init, LightsInit, SignalsInit, InCycle, CrowdInit
<1>2. PICK need \in Needs : ped \in Spots(need)
  BY DEF Init, CrowdInit
<1>3. ped.state = "walking"
  BY <1>2 DEF Spots
<1> QED BY <1>1, <1>3 DEF AcrossOK, Crosses

LEMMA WalkAcross ==
  ASSUME AcrossOK, TimeToCross, Tick, CrowdUpdate, followed = "pedestrian", followed' = followed
  PROVE  AcrossOK'
<1>1. CrowdOK' /\ InCycle'
  BY CrowdUpdateOK, TickInCycle DEF AcrossOK
<1>2. CASE ped'.state = "crossing"
  <2>1. PICK q, stride : Comes(q, stride)
    BY <1>2, ComesToCross DEF AcrossOK
  <2>2. Crosses(ped') /\ (lawful' /\ freely' /\ Todo(ped') > Kerb => OverInTime(ped', now'))
    BY <2>1, ComesInTime
  <2> QED BY <1>1, <2>2 DEF AcrossOK, Crosses, OverInTime, Todo, IsCrossing, CrowdOK, PedOK, InCycle
<1>3. CASE ped'.state # "crossing"
  BY <1>1, <1>3 DEF AcrossOK, Crosses
<1> QED BY <1>2, <1>3

LEMMA AcrossStep ==
  ASSUME AcrossOK, TimeToCross, [Next]_vars
  PROVE  AcrossOK'
<1>1. CASE Walks
  BY <1>1, WalkAcross DEF Walks
<1>2. CASE Drives \/ Traffic
  <2>1. followed # "pedestrian" /\ followed' = followed /\ UNCHANGED crowdVars /\ (Tick \/ UNCHANGED now)
    BY <1>2 DEF Drives, Traffic, LightsNext
  <2>2. ~lawful /\ ~lawful'
    BY <2>1 DEF AcrossOK, crowdVars
  <2>3. InCycle'
    BY <2>1, TickInCycle DEF AcrossOK, InCycle
  <2> QED BY <2>1, <2>2, <2>3 DEF AcrossOK, crowdVars, CrowdOK, PedOK, OnCrossing, IsCrossing, Crosses
<1>3. CASE Changing \/ Serving \/ Trains \/ UNCHANGED vars
  <2>1. UNCHANGED <<crowdVars, now, followed>>
    BY <1>3 DEF vars, streetVars, Changing, Serving, Trains
  <2> QED BY <2>1 DEF AcrossOK, crowdVars, CrowdOK, PedOK, OnCrossing, IsCrossing, Crosses, InCycle, OverInTime, Todo
<1> QED BY <1>1, <1>2, <1>3 DEF Next

LEMMA AcrossAt == ASSUME AcrossOK, TimeToCross PROVE AcrossInTime
<1> SUFFICES ASSUME NEW c \in Straights, Light(c, now) # "red",
                    CrossingWalk(now)[1] \/ (OnCarriageway(ped) /\ ped.state = "crossing" /\ lawful /\ freely)
             PROVE  FALSE
  BY DEF AcrossInTime
<1>1. InCycle /\ now \in 0 .. Cycle - 1 /\ Cycle \in Nat
  BY CyclePositive DEF AcrossOK
<1>2. \E k \in WindowStarts(Phases, Walking), v \in {now, now + Cycle} :
        Start(Phases, k) <= v /\ v < WindowEnd(Phases, Walking, k) + AllRed /\ Walking # {}
  <2>0. Walking # {} => WindowsApart(Phases, Walking)
    BY WalkingPlan, WindowsOK
  <2>1. CASE CrossingWalk(now)[1]
    <3>1. Walking # {}
      BY <1>1, <2>1, ShownInWindow
    <3>2. PICK k \in WindowStarts(Phases, Walking), v \in {now, now + Cycle} : WalksAt(Phases, Walking, Clear, k, v)
      BY <1>1, <2>1, ShownInWindow
    <3> DEFINE E == WalkStop(Phases, Walking, Clear, k)
               W == WindowEnd(Phases, Walking, k)
    <3>3. E \in Int /\ W \in Int /\ E <= W
      BY <2>0, <3>1, WayTyped, WalkStopIn DEF WindowsApart
    <3>4. v < E /\ Start(Phases, k) <= v
      BY <3>2 DEF WalksAt
    <3>5. v \in Int
      BY <1>1
    <3> HIDE DEF E, W
    <3>6. v < W + 2
      BY <3>3, <3>4, <3>5
    <3> QED BY <3>1, <3>4, <3>6 DEF W, AllRed
  <2>2. CASE OnCarriageway(ped) /\ ped.state = "crossing" /\ lawful /\ freely
    <3>1. ped \in PedType
      BY DEF AcrossOK, CrowdOK, PedOK
    <3>2. Todo(ped) \in Int /\ ped.need \in Int /\ ped.at \in Int /\ Kerb \in Nat /\ Clear \in Nat /\ Curb \in Nat
      BY <3>1, TodoTyped, WayTyped
    <3>3. Todo(ped) = ped.need - ped.at /\ ped.at < ped.need - Kerb
      BY <2>2 DEF OnCarriageway, Todo
    <3>4. Todo(ped) > Kerb
      BY <3>2, <3>3
    <3>5. OverInTime(ped, now)
      BY <2>2, <3>4 DEF AcrossOK
    <3>6. PICK k \in WindowStarts(Phases, Walking), v \in {now, now + Cycle} :
            Start(Phases, k) <= v /\ v + Todo(ped) <= WalkStop(Phases, Walking, Clear, k) + Clear + Curb
      BY <3>5 DEF OverInTime
    <3>7. Walking # {}
      <4> SUFFICES ASSUME Walking = {} PROVE FALSE
        OBVIOUS
      <4>1. DOMAIN Phases # {}
        BY <1>1, PhasesOK, SomePhase, CyclePositive DEF Cycle
      <4> QED BY <4>1, <3>6 DEF WindowStarts
    <3> DEFINE E == WalkStop(Phases, Walking, Clear, k)
               W == WindowEnd(Phases, Walking, k)
               T == Todo(ped)
    <3>8. E \in Int /\ W \in Int
      BY <2>0, <3>2, <3>7, WalkStopIn DEF WindowsApart
    <3>9. E + Clear + Curb <= W + 2 + Kerb /\ v + T <= E + Clear + Curb /\ v \in Int
      BY <1>1, <3>6 DEF TimeToCross, AllRed
    <3> HIDE DEF E, W, T
    <3>10. v < W + 2
      <4>1. T > Kerb /\ T \in Int
        BY <3>2, <3>4 DEF T
      <4> QED BY <3>2, <3>8, <3>9, <4>1
    <3> QED BY <3>6, <3>7, <3>10 DEF W, AllRed
  <2> QED BY <2>1, <2>2
<1> QED BY <1>1, <1>2, StraightsWait

(* Where the windows are long enough for the clearance time, no straight   *)
(* movement over the crossing is let go while Controller::walk shows the   *)
(* walk light, nor while a pedestrian that steer let start on it, and that *)
(* nothing held up, is on the carriageway; for any crossing and speed.     *)
THEOREM AcrossInTimeAlways ==
  ASSUME TimeToCross
  PROVE  Spec => []AcrossInTime
<1>1. AcrossOK /\ [Next]_vars => AcrossOK'
  BY AcrossStep
<1>2. AcrossOK => AcrossInTime
  BY AcrossAt
<1> QED BY AcrossInit, <1>1, <1>2, PTL DEF Spec

-----------------------------------------------------------------------------
(* The followed vehicle                                                    *)

(* A second on, what was a seconds ago was a + 1 seconds ago.              *)
LEMMA SameMoment ==
  ASSUME NEW C \in Nat, C > 0, NEW n \in 0 .. C - 1, NEW a \in Nat
  PROVE  (((n + 1) % C) - (a + 1)) % C = (n - a) % C
<1>1. CASE n + 1 < C
  <2>1. (n + 1) % C = n + 1
    BY <1>1
  <2> QED BY <2>1
<1>2. CASE n + 1 = C
  <2>1. (n + 1) % C = 0
    BY <1>2, ModOf
  <2> DEFINE x == n - a
             r == x % C
             q == x \div C
  <2>2. x \in Int /\ r \in 0 .. C - 1 /\ q \in Int /\ x = C * q + r
    OBVIOUS
  <2>3. x - C = C * (q - 1) + r
    BY <2>2
  <2>4. (x - C) % C = r
    <3> DEFINE p == q - 1
               y == x - C
    <3>1. p \in Int /\ y \in Int /\ y = C * p + r /\ r \in 0 .. C - 1
      BY <2>2, <2>3
    <3> HIDE DEF p, y, r
    <3> QED BY <3>1 DEF y
  <2>5. 0 - (a + 1) = x - C
    BY <1>2
  <2> QED BY <2>1, <2>4, <2>5
<1> QED BY <1>1, <1>2

LEMMA LightThen ==
  ASSUME InCycle, Tick, NEW c, NEW a \in Nat
  PROVE  Light(c, now' - (a + 1)) = Light(c, now - a)
<1> DEFINE C == Cycle
<1>1. C \in Nat /\ C > 0 /\ now \in 0 .. C - 1
  BY CyclePositive
<1>2. now' = (now + 1) % C
  BY DEF Tick
<1> HIDE DEF C
<1>3. (now' - (a + 1)) % C = (now - a) % C
  BY <1>1, <1>2, SameMoment
<1> QED BY <1>3 DEF Light, C

(* What is kept of a crossing is of a lane, and no older than the timeout; *)
(* a movement that was red at it was red at a line crossed since.          *)
Pending == [lane : Lanes \cup {Off}, age : 0 .. PendingTimeout]
KeptRed(p, since, t) == \A m \in Lanes : TakenRed(p, m, t) => since[m] <= p.age

(* The last crossing on the lane followed is kept as long as RED_LIGHT may *)
(* have to be raised for it.                                               *)
KeepsLast(last, p, l, t) ==
  last.lane = l /\ last.age <= PendingTimeout /\ last.raised = 0 =>
    \A c \in Successors(l) : Light(c, t - last.age) = "red" => p = [lane |-> l, age |-> last.age]

TrackOK ==
  /\ InCycle
  /\ lane \in Lanes /\ pending \in Pending
  /\ crossing \in [lane : Lanes \cup {Off}, age : Nat, raised : Nat]
  /\ redAgo \in [Lanes -> Nat]
  /\ pending # None => KeptRed(pending, redAgo, now)
  /\ KeepsLast(crossing, pending, lane, now)
  /\ followed # "vehicle" => pending = None /\ crossing = NotCrossed

LEMMA OffNoLane == Off \notin Lanes /\ PendingTimeout \in Nat
  BY RoadTrackAssumption DEF Lanes

LEMMA TrackOKInit == Init => TrackOK
<1> SUFFICES ASSUME Init PROVE TrackOK
  OBVIOUS
<1>1. InCycle
  BY DEF Init, LightsInit, SignalsInit, InCycle
<1>2. lane \in Lanes
  <2>1. place \in DOMAIN Roads /\ Successors(place) # {} /\ lane = place
    BY DEF Init, TrackInit
  <2>2. PICK c \in Movement : Connectors[c].from = place
    BY <2>1 DEF Successors
  <2> QED BY <2>1, <2>2, RoadTrackAssumption DEF Lanes
<1>3. pending = None /\ crossing = NotCrossed /\ redAgo = [m \in Lanes |-> Ever]
  BY DEF Init, TrackInit
<1>4. Ever \in Nat /\ 0 \in 0 .. PendingTimeout
  BY OffNoLane DEF Ever
<1>5. KeepsLast(crossing, pending, lane, now)
  BY <1>2, <1>3, OffNoLane DEF KeepsLast, NotCrossed
<1> QED BY <1>1, <1>2, <1>3, <1>4, <1>5 DEF TrackOK, Pending, None, NotCrossed

(* It is a second older, and what was red is still what was red then.      *)
LEMMA OlderIs ==
  ASSUME TrackOK, Tick, pending # None
  PROVE  /\ Older(pending) = [lane |-> pending.lane, age |-> pending.age + 1]
         /\ \A m : TakenRed(Older(pending), m, now') <=> TakenRed(pending, m, now)
<1>1. pending \in [lane : Lanes \cup {Off}, age : 0 .. PendingTimeout] /\ pending.age \in Nat
  BY DEF TrackOK, Pending
<1>2. Older(pending) = [lane |-> pending.lane, age |-> pending.age + 1]
  BY <1>1 DEF Older
<1>3. ASSUME NEW c PROVE Light(c, now' - (pending.age + 1)) = Light(c, now - pending.age)
  BY <1>1, LightThen DEF TrackOK
<1> QED BY <1>2, <1>3 DEF TakenRed

LEMMA LaterIs ==
  ASSUME NEW a \in Nat
  PROVE  /\ Later(a) \in Nat /\ Later(a) <= a + 1
         /\ Later(a) <= PendingTimeout => Later(a) = a + 1 /\ a <= PendingTimeout
<1>1. Ever \in Int /\ Ever = PendingTimeout + 2 /\ PendingTimeout \in Nat
  BY OffNoLane DEF Ever
<1> DEFINE b == a + 1
<1>2. b \in Int
  OBVIOUS
<1>3. Later(a) = Min({b, Ever})
  BY DEF Later
<1> HIDE DEF b
<1>4. Min({b, Ever}) \in {b, Ever} /\ Min({b, Ever}) <= b
  BY <1>1, <1>2, MinOfTwo
<1> USE DEF b
<1> QED BY <1>1, <1>3, <1>4

(* What an update does to what is kept of a crossing.                      *)
OverLine(q, near) == ~past /\ Past(lane, q) /\ near
Enters(q) == q \in Lanes \ {lane}
AtLine(q, near) == IF OverLine(q, near) THEN Cross(lane, now') ELSE [pending |-> Older(pending), raised |-> 0]
RedTo == {Connectors[c].to : c \in Red(lane, now')}

LEMMA UpdateIs ==
  ASSUME NEW q, NEW near, TrackUpdate(q, near)
  PROVE  /\ lane' = IF Enters(q) THEN q ELSE lane
         /\ pending' = IF Enters(q) THEN None ELSE InTime(AtLine(q, near).pending)
         /\ raised' = AtLine(q, near).raised
              + (IF Enters(q) /\ AtLine(q, near).pending # None /\ TakenRed(AtLine(q, near).pending, q, now') THEN 1 ELSE 0)
         /\ crossing' = IF OverLine(q, near) THEN [lane |-> lane, age |-> 0, raised |-> raised']
                        ELSE IF Enters(q) THEN NotCrossed
                        ELSE [crossing EXCEPT !.age = Later(@), !.raised = @ + raised']
         /\ redAgo' = [m \in Lanes |-> IF OverLine(q, near) /\ m \in RedTo THEN 0
                                       ELSE IF Enters(q) THEN Ever ELSE Later(redAgo[m])]
  BY DEF TrackUpdate, OverLine, Enters, AtLine, RedTo

(* What is pending after the line, if anything: the line crossed now with  *)
(* some movements red, or what was pending before.                         *)
LEMMA LineIs ==
  ASSUME TrackOK, Tick, NEW q, NEW near
  PROVE  LET line == AtLine(q, near)
             fresh == OverLine(q, near) /\ Red(lane, now') \notin {{}, Successors(lane)}
         IN  /\ line.raised = IF OverLine(q, near) /\ Red(lane, now') = Successors(lane) THEN 1 ELSE 0
             /\ line.pending = IF fresh THEN [lane |-> lane, age |-> 0]
                               ELSE IF pending = None THEN None
                               ELSE [lane |-> pending.lane, age |-> pending.age + 1]
  BY OlderIs DEF AtLine, Cross, Older

LEMMA LaneNotOff == TrackOK => lane # Off /\ None.lane = Off
  BY OffNoLane DEF TrackOK, None

(* Whether the movement to m was red at what is pending after the line.    *)
LEMMA TakenIs ==
  ASSUME TrackOK, Tick, NEW q, NEW near, NEW m \in Lanes,
         AtLine(q, near).pending # None, TakenRed(AtLine(q, near).pending, m, now')
  PROVE  \/ OverLine(q, near) /\ m \in RedTo
         \/ pending # None /\ TakenRed(pending, m, now)
              /\ AtLine(q, near).pending = [lane |-> pending.lane, age |-> pending.age + 1]
<1>1. CASE AtLine(q, near).pending = [lane |-> lane, age |-> 0] /\ OverLine(q, near)
  <2>1. PICK c \in Successors(lane) : Connectors[c].to = m /\ Light(c, now' - 0) = "red"
    BY <1>1 DEF TakenRed
  <2>2. now' - 0 = now'
    BY CyclePositive, TickInCycle DEF TrackOK, InCycle
  <2> QED BY <1>1, <2>1, <2>2 DEF RedTo, Red
<1>2. CASE pending # None /\ AtLine(q, near).pending = [lane |-> pending.lane, age |-> pending.age + 1]
  <2>1. AtLine(q, near).pending = Older(pending)
    BY <1>2, OlderIs
  <2> QED BY <1>2, <2>1, OlderIs
<1> QED BY <1>1, <1>2, LineIs

LEMMA InTimeIs ==
  ASSUME NEW l, NEW a \in Nat
  PROVE  InTime([lane |-> l, age |-> a]) = IF a > PendingTimeout THEN None ELSE [lane |-> l, age |-> a]
  BY DEF InTime

LEMMA NoneInTime == InTime(None) = None
  BY DEF InTime

LEMMA TrackTyped ==
  ASSUME TrackOK, Tick, NEW q, NEW near, TrackUpdate(q, near)
  PROVE  /\ lane' \in Lanes /\ pending' \in Pending /\ raised' \in Nat
         /\ crossing' \in [lane : Lanes \cup {Off}, age : Nat, raised : Nat]
         /\ redAgo' \in [Lanes -> Nat]
<1>1. lane' \in Lanes
  BY UpdateIs DEF TrackOK, Enters
<1>2. pending' \in Pending
  <2>1. CASE Enters(q) \/ AtLine(q, near).pending = None
    <3>1. pending' = None
      BY <2>1, UpdateIs, NoneInTime
    <3> QED BY <3>1, OffNoLane DEF Pending, None
  <2>2. CASE ~Enters(q) /\ AtLine(q, near).pending # None
    <3>0. lane \in Lanes /\ (pending # None => pending.lane \in Lanes \cup {Off} /\ pending.age + 1 \in Nat)
      BY DEF TrackOK, Pending
    <3>1. PICK l \in Lanes \cup {Off}, a \in Nat : AtLine(q, near).pending = [lane |-> l, age |-> a]
      BY <2>2, <3>0, LineIs
    <3>2. pending' = IF a > PendingTimeout THEN None ELSE [lane |-> l, age |-> a]
      BY <2>2, <3>1, UpdateIs, InTimeIs
    <3> QED BY <3>1, <3>2, OffNoLane DEF Pending, None
  <2> QED BY <2>1, <2>2
<1>3. raised' \in Nat
  BY UpdateIs, LineIs
<1>4. crossing' \in [lane : Lanes \cup {Off}, age : Nat, raised : Nat]
  <2>1. crossing.age \in Nat /\ crossing.raised + raised' \in Nat /\ 0 \in Nat
    BY <1>3 DEF TrackOK
  <2>2. Later(crossing.age) \in Nat
    BY <2>1, LaterIs
  <2>3. CASE OverLine(q, near)
    BY <1>3, <2>1, <2>3, UpdateIs DEF TrackOK
  <2>4. CASE ~OverLine(q, near) /\ Enters(q)
    BY <2>1, <2>4, UpdateIs DEF NotCrossed
  <2>5. CASE ~OverLine(q, near) /\ ~Enters(q)
    <3>1. crossing' = [crossing EXCEPT !.age = Later(@), !.raised = @ + raised']
      BY <2>5, UpdateIs
    <3> QED BY <2>1, <2>2, <3>1 DEF TrackOK
  <2> QED BY <2>3, <2>4, <2>5
<1>5. redAgo' \in [Lanes -> Nat]
  <2>1. Ever \in Nat /\ 0 \in Nat
    BY OffNoLane DEF Ever
  <2>2. \A m \in Lanes : Later(redAgo[m]) \in Nat
    BY LaterIs DEF TrackOK
  <2> QED BY <2>1, <2>2, UpdateIs
<1> QED BY <1>1, <1>2, <1>3, <1>4, <1>5

LEMMA TrackStep ==
  ASSUME TrackOK, Tick, Track, followed = "vehicle", followed' = followed
  PROVE  TrackOK'
<1>1. PICK q \in Roads[place], near \in BOOLEAN : TrackUpdate(q, near)
  BY DEF Track
<1>2. InCycle'
  BY TickInCycle DEF TrackOK
<1>3. ASSUME pending' # None PROVE KeptRed(pending', redAgo', now')
  <2>1. ~Enters(q) /\ pending' = InTime(AtLine(q, near).pending)
    BY <1>1, <1>3, UpdateIs
  <2>2. AtLine(q, near).pending # None /\ pending' = AtLine(q, near).pending
    BY <1>3, <2>1 DEF InTime
  <2>3. SUFFICES ASSUME NEW m \in Lanes, TakenRed(AtLine(q, near).pending, m, now')
                 PROVE  redAgo'[m] <= AtLine(q, near).pending.age
    BY <2>2 DEF KeptRed
  <2>4. AtLine(q, near).pending.age \in Nat
    BY <2>2, LineIs DEF TrackOK, Pending
  <2>5. redAgo'[m] = IF OverLine(q, near) /\ m \in RedTo THEN 0 ELSE Later(redAgo[m])
    BY <1>1, <2>1, UpdateIs
  <2>6. CASE OverLine(q, near) /\ m \in RedTo
    BY <2>4, <2>5, <2>6
  <2>7. CASE /\ pending # None /\ TakenRed(pending, m, now)
             /\ AtLine(q, near).pending = [lane |-> pending.lane, age |-> pending.age + 1]
    <3>1. redAgo[m] <= pending.age /\ redAgo[m] \in Nat /\ pending.age \in Nat
      BY <2>7 DEF TrackOK, KeptRed, Pending
    <3>2. Later(redAgo[m]) \in Nat /\ Later(redAgo[m]) <= redAgo[m] + 1
      BY <3>1, LaterIs
    <3> QED BY <2>5, <2>7, <3>1, <3>2
  <2> QED BY <1>1, <2>2, <2>3, <2>6, <2>7, TakenIs
<1>4. KeepsLast(crossing', pending', lane', now')
  <2>1. SUFFICES ASSUME crossing'.lane = lane', crossing'.age <= PendingTimeout, crossing'.raised = 0,
                        NEW c \in Successors(lane'), Light(c, now' - crossing'.age) = "red"
                 PROVE  pending' = [lane |-> lane', age |-> crossing'.age]
    BY DEF KeepsLast
  <2>2. ~Enters(q)
    BY <1>1, <2>1, UpdateIs, OffNoLane DEF Enters, NotCrossed
  <2>3. lane' = lane /\ pending' = InTime(AtLine(q, near).pending) /\ raised' = AtLine(q, near).raised
    BY <1>1, <2>2, LineIs, UpdateIs
  <2>4. CASE OverLine(q, near)
    <3>1. crossing' = [lane |-> lane, age |-> 0, raised |-> raised']
      BY <1>1, <2>4, UpdateIs
    <3>2. Red(lane, now') # Successors(lane)
      BY <2>1, <2>3, <2>4, <3>1, LineIs
    <3>3. now' - 0 = now'
      BY CyclePositive, TickInCycle DEF TrackOK, InCycle
    <3>4. c \in Red(lane, now')
      BY <2>1, <2>3, <3>1, <3>3 DEF Red
    <3>5. AtLine(q, near).pending = [lane |-> lane, age |-> 0]
      BY <2>4, <3>2, <3>4, LineIs
    <3> QED BY <2>3, <3>1, <3>5, InTimeIs, OffNoLane
  <2>5. CASE ~OverLine(q, near)
    <3>1. crossing' = [crossing EXCEPT !.age = Later(@), !.raised = @ + raised']
      BY <1>1, <2>2, <2>5, UpdateIs
    <3>2. /\ crossing'.lane = crossing.lane /\ crossing'.age = Later(crossing.age)
          /\ crossing'.raised = crossing.raised + raised'
          /\ crossing.age \in Nat /\ crossing.raised \in Nat
      BY <3>1 DEF TrackOK
    <3>3. raised' = 0
      BY <2>3, <2>5, LineIs
    <3>4. crossing.raised = 0 /\ crossing.age <= PendingTimeout /\ crossing'.age = crossing.age + 1 /\ crossing.lane = lane
      BY <2>1, <2>3, <3>2, <3>3, LaterIs
    <3>5. Light(c, now - crossing.age) = "red" /\ c \in Successors(lane)
      BY <2>1, <2>3, <3>2, <3>4, LightThen DEF TrackOK
    <3>6. pending = [lane |-> lane, age |-> crossing.age]
      BY <3>4, <3>5 DEF TrackOK, KeepsLast
    <3>7. pending # None
      BY <3>6, LaneNotOff
    <3>8. AtLine(q, near).pending = [lane |-> lane, age |-> crossing.age + 1]
      BY <2>5, <3>6, <3>7, LineIs
    <3> QED BY <2>1, <2>3, <3>2, <3>4, <3>8, InTimeIs, OffNoLane
  <2> QED BY <2>4, <2>5
<1> QED BY <1>1, <1>2, <1>3, <1>4, TrackTyped DEF TrackOK

LEMMA TrackNext ==
  ASSUME TrackOK, [Next]_vars
  PROVE  TrackOK'
<1>1. CASE Drives
  BY <1>1, TrackStep DEF Drives
<1>2. CASE followed # "vehicle" /\ (Tick \/ UNCHANGED now) /\ UNCHANGED <<trackVars, crossing, redAgo, followed>>
  <2>1. InCycle'
    BY <1>2, TickInCycle DEF TrackOK, InCycle
  <2>2. pending' = None /\ crossing' = NotCrossed /\ lane' = lane /\ redAgo' = redAgo /\ followed' # "vehicle"
    BY <1>2 DEF TrackOK, trackVars
  <2>3. KeepsLast(crossing', pending', lane', now')
    BY <2>2, OffNoLane DEF KeepsLast, NotCrossed, TrackOK
  <2> QED BY <1>2, <2>1, <2>2, <2>3 DEF TrackOK, trackVars
<1>3. CASE UNCHANGED <<now, trackVars, crossing, redAgo, followed>>
  BY <1>3 DEF TrackOK, trackVars, InCycle, KeptRed, TakenRed, KeepsLast
<1>4. Drives \/ Walks \/ Traffic \/ Changing \/ Serving \/ Trains \/ UNCHANGED vars
  BY DEF Next
<1>5. CASE Walks
  BY <1>2, <1>5 DEF Walks
<1>6. CASE Traffic
  BY <1>2, <1>6 DEF Traffic, LightsNext
<1>7. CASE Changing \/ Serving \/ Trains \/ UNCHANGED vars
  BY <1>3, <1>7 DEF Changing, Serving, Trains, vars, streetVars
<1> QED BY <1>1, <1>4, <1>5, <1>6, <1>7

LEMMA TrackAlways == Spec => []TrackOK
  BY TrackOKInit, TrackNext, PTL DEF Spec

(* Another step than the followed vehicle's update is none of its track.   *)
LEMMA TrackMoves ==
  ASSUME [Next]_vars, ~UNCHANGED <<trackVars, crossing>>
  PROVE  Tick /\ \E q \in Roads[place], near \in BOOLEAN : TrackUpdate(q, near)
<1>1. CASE Drives
  BY <1>1 DEF Drives, Track
<1> QED BY <1>1 DEF Next, Walks, Traffic, Changing, Serving, Trains, vars, streetVars, trackVars

RaisedStep == raised' > 0 =>
  \/ ~past /\ Red(lane, now') = Successors(lane)
  \/ lane' # lane /\ (redAgo[lane'] <= PendingTimeout \/ redAgo'[lane'] = 0)

LEMMA RaisedAt ==
  ASSUME TrackOK, [Next]_vars
  PROVE  [RaisedStep]_<<trackVars, crossing>>
<1> SUFFICES ASSUME ~UNCHANGED <<trackVars, crossing>>, raised' > 0, past \/ Red(lane, now') # Successors(lane)
             PROVE  lane' # lane /\ (redAgo[lane'] <= PendingTimeout \/ redAgo'[lane'] = 0)
  BY DEF RaisedStep
<1>1. PICK q \in Roads[place], near \in BOOLEAN : TrackUpdate(q, near)
  BY TrackMoves
<1>2. Tick
  BY TrackMoves
<1>3. AtLine(q, near).raised = 0
  BY <1>2, LineIs DEF OverLine
<1>4. Enters(q) /\ AtLine(q, near).pending # None /\ TakenRed(AtLine(q, near).pending, q, now')
  BY <1>1, <1>3, UpdateIs
<1>5. lane' = q /\ lane' # lane /\ q \in Lanes
  BY <1>1, <1>4, UpdateIs DEF Enters
<1>6. CASE OverLine(q, near) /\ q \in RedTo
  BY <1>1, <1>5, <1>6, UpdateIs
<1>7. CASE pending # None /\ TakenRed(pending, q, now)
  <2>1. redAgo[q] <= pending.age /\ redAgo[q] \in Nat /\ pending.age \in 0 .. PendingTimeout
    BY <1>5, <1>7 DEF TrackOK, KeptRed, Pending
  <2> QED BY <1>5, <2>1, OffNoLane
<1> QED BY <1>2, <1>4, <1>5, <1>6, <1>7, TakenIs

(* RoadTrack::update raises RED_LIGHT only for a red light: one that every *)
(* movement of the line crossed shows, or that the movement taken showed   *)
(* when the line was crossed, no longer than PENDING_TIMEOUT ago; for any  *)
(* junction and lanes, and however the vehicle is driven.                  *)
THEOREM RaisedForRedAlways == Spec => RaisedForRed
  BY TrackAlways, RaisedAt, PTL DEF Spec, RaisedForRed, RaisedStep

RedStep == lane' # lane =>
  IF crossing'.lane = lane
    THEN \A c \in Successors(lane) : TookRed(c, now') => raised' > 0
    ELSE crossing.lane = lane /\ crossing.age <= PendingTimeout /\ crossing.raised = 0 =>
           \A c \in Successors(lane) : TookRed(c, now - crossing.age) => raised' > 0

LEMMA RedAt ==
  ASSUME TrackOK, [Next]_vars
  PROVE  [RedStep]_<<trackVars, crossing>>
<1> SUFFICES ASSUME ~UNCHANGED <<trackVars, crossing>>, lane' # lane PROVE RedStep
  BY DEF RedStep
<1>1. PICK q \in Roads[place], near \in BOOLEAN : TrackUpdate(q, near)
  BY TrackMoves
<1>2. Tick /\ Enters(q) /\ lane' = q /\ q \in Lanes
  BY <1>1, TrackMoves, UpdateIs DEF Enters
<1>3. /\ AtLine(q, near).raised \in {0, 1}
      /\ raised' = AtLine(q, near).raised
           + (IF AtLine(q, near).pending # None /\ TakenRed(AtLine(q, near).pending, q, now') THEN 1 ELSE 0)
  BY <1>1, <1>2, UpdateIs, LineIs
<1>4. ASSUME OverLine(q, near), NEW c \in Successors(lane), TookRed(c, now') PROVE raised' > 0
  <2>1. c \in Red(lane, now') /\ Connectors[c].to = q
    BY <1>2, <1>4 DEF TookRed, Red
  <2>2. CASE Red(lane, now') = Successors(lane)
    BY <1>2, <1>3, <1>4, <2>2, LineIs
  <2>3. CASE Red(lane, now') # Successors(lane)
    <3>1. AtLine(q, near).pending = [lane |-> lane, age |-> 0]
      BY <1>2, <1>4, <2>1, <2>3, LineIs
    <3>2. now' - 0 = now'
      BY <1>2, CyclePositive, TickInCycle DEF TrackOK, InCycle
    <3>3. TakenRed(AtLine(q, near).pending, q, now')
      BY <1>4, <2>1, <3>1, <3>2 DEF TakenRed, TookRed
    <3> QED BY <1>3, <3>1, <3>3, LaneNotOff
  <2> QED BY <2>2, <2>3
<1>5. ASSUME ~OverLine(q, near), crossing.lane = lane, crossing.age <= PendingTimeout, crossing.raised = 0,
             NEW c \in Successors(lane), TookRed(c, now - crossing.age)
      PROVE  raised' > 0
  <2>1. pending = [lane |-> lane, age |-> crossing.age]
    BY <1>5 DEF TrackOK, KeepsLast, TookRed
  <2>2. pending # None
    BY <2>1, LaneNotOff
  <2>3. TakenRed(pending, q, now)
    BY <1>2, <1>5, <2>1 DEF TakenRed, TookRed
  <2>4. AtLine(q, near).pending = Older(pending) /\ AtLine(q, near).pending = [lane |-> pending.lane, age |-> pending.age + 1]
    BY <1>2, <1>5, <2>2, LineIs, OlderIs
  <2>5. TakenRed(AtLine(q, near).pending, q, now')
    BY <1>2, <2>2, <2>3, <2>4, OlderIs
  <2>6. AtLine(q, near).pending # None
    BY <2>1, <2>4, LaneNotOff
  <2> QED BY <1>3, <2>5, <2>6
<1>6. CASE OverLine(q, near)
  <2>1. crossing' = [lane |-> lane, age |-> 0, raised |-> raised']
    BY <1>1, <1>6, UpdateIs
  <2> QED BY <1>4, <1>6, <2>1 DEF RedStep
<1>7. CASE ~OverLine(q, near)
  <2>1. crossing' = NotCrossed
    BY <1>1, <1>2, <1>7, UpdateIs
  <2>2. crossing'.lane # lane
    BY <2>1, LaneNotOff, OffNoLane DEF NotCrossed
  <2> QED BY <1>5, <1>7, <2>2 DEF RedStep
<1> QED BY <1>6, <1>7

(* A red light that was run is raised by RoadTrack::update: by the end of  *)
(* the update that shows the movement, if that is within PENDING_TIMEOUT   *)
(* of the last crossing of the line; for any junction and lanes, and       *)
(* however the vehicle is driven, back over the line or through the box.   *)
THEOREM RedIsRaisedAlways == Spec => RedIsRaised
  BY TrackAlways, RedAt, PTL DEF Spec, RedIsRaised, RedStep

-----------------------------------------------------------------------------
(* The bus on its line, for every loop with two stops or more.             *)
BusTyped ==
  bus \in [next : 0 .. Line, served : 0 .. Line, dwelling : Nat, at : 0 .. 4, speed : Nat]

(* Stop s lies between x and the lane the bus is on, in the way of the loop.*)
Between(s, x, leg) == IF x <= leg THEN x < s /\ s < leg ELSE x < s \/ s < leg

(* The stop noted is the last one the bus has come to; and at the end of a *)
(* lane with a stop it is that lane's, which has been told.                *)
LastNoted ==
  /\ bus.served # Nowhere => bus.served \in BusStops /\ bus.next # Nowhere
  /\ bus.served # Nowhere => \A s \in BusStops : ~Between(s, bus.served, Leg(bus.next))
  /\ HasStop(bus) /\ bus.served = Leg(bus.next) => told = TRUE
  /\ HasStop(bus) /\ bus.at = Over => bus.served = Leg(bus.next)

BusOK == BusTyped /\ LastNoted

LEMMA LegTyped == ASSUME NEW next \in 1 .. Line PROVE Leg(next) \in 1 .. Line
  BY BusAssumption DEF Leg

LEMMA BusInitiallyOK == BusInit => BusOK
<1> SUFFICES ASSUME BusInit PROVE BusOK
  OBVIOUS
<1>1. BusTyped /\ bus.served = 0 /\ bus.at # Over
  BY BusAssumption DEF BusInit, BusTyped, First, Nowhere, Over, Before, At, Beyond
<1>2. bus.next # Nowhere => Leg(bus.next) \in 1 .. Line
  BY <1>1, LegTyped DEF BusTyped, Nowhere
<1> QED BY <1>1, <1>2 DEF BusOK, LastNoted, HasStop, Nowhere

(* What a step leaves in the fields, with the type: one fact for each form *)
(* in which the actions set them.                                          *)
LEMMA Rolled ==
  ASSUME BusTyped, Rolls(bus), bus.at # Over
  PROVE  BusTyped' /\ bus'.next = bus.next /\ bus'.served = bus.served /\ bus'.at \in {bus.at, bus.at + 1}
<1>1. PICK p \in {bus.at, bus.at + 1} : bus' = [bus EXCEPT !.at = p, !.speed = p - bus.at]
  BY DEF Rolls
<1>2. bus.at \in 0 .. 4 /\ p \in 0 .. 4 /\ p - bus.at \in Nat
  BY DEF BusTyped, Over
<1> QED BY <1>1, <1>2 DEF BusTyped

LEMMA RolledOnServed ==
  ASSUME BusTyped, HasStop(bus), Rolls(Served(bus)), bus.at # Over
  PROVE  BusTyped' /\ bus'.next = bus.next /\ bus'.served = Leg(bus.next)
<1>1. PICK p \in {bus.at, bus.at + 1} :
        bus' = [bus EXCEPT !.dwelling = 0, !.served = Leg(bus.next), !.at = p, !.speed = p - bus.at]
  BY DEF Rolls, Served, BusTyped
<1>2. bus.at \in 0 .. 4 /\ p \in 0 .. 4 /\ p - bus.at \in Nat /\ Leg(bus.next) \in 0 .. Line
  BY LegTyped, BusAssumption DEF BusTyped, Over, HasStop, Nowhere
<1> QED BY <1>1, <1>2 DEF BusTyped

LEMMA LoopDrawn ==
  ASSUME BusTyped, NEW first \in First, bus' = NewLoop(bus, first)
  PROVE  BusTyped' /\ bus'.served = Nowhere /\ bus'.at = bus.at
<1>1. first \in 0 .. Line /\ 0 \in 0 .. Line
  BY BusAssumption DEF First, Nowhere
<1> QED BY <1>1 DEF BusTyped, NewLoop, Nowhere

LEMMA DrawnOver ==
  ASSUME BusTyped, TakeOther(bus)
  PROVE  BusTyped' /\ bus'.served = Nowhere /\ bus'.at = Before
<1>1. PICK first \in First : bus' = [NewLoop(bus, first) EXCEPT !.at = Before, !.speed = 1]
  BY DEF TakeOther
<1>2. first \in 0 .. Line /\ 0 \in 0 .. Line
  BY BusAssumption DEF First, Nowhere
<1>3. bus' = [bus EXCEPT !.next = first, !.served = 0, !.dwelling = 0, !.at = 1, !.speed = 1]
  BY <1>1 DEF NewLoop, BusTyped, Nowhere, Before
<1>4. 0 \in Nat /\ 1 \in Nat /\ 1 \in 0 .. 4
  OBVIOUS
<1>5. BusTyped'
  BY <1>2, <1>3, <1>4 DEF BusTyped
<1>6. bus'.served = 0 /\ bus'.at = 1
  BY <1>3 DEF BusTyped
<1> QED BY <1>5, <1>6 DEF Nowhere, Before

LEMMA TookNext ==
  ASSUME BusTyped, TakeNext(bus)
  PROVE  /\ BusTyped' /\ bus.next # Nowhere /\ bus'.next # Nowhere
         /\ bus.at = Over /\ bus'.at = Before /\ bus'.served = bus.served
         /\ Leg(bus'.next) = IF Leg(bus.next) = Line THEN 1 ELSE Leg(bus.next) + 1
<1> DEFINE next == IF bus.next = Line THEN 1 ELSE bus.next + 1
<1>1. next \in 1 .. Line /\ bus.next \in 1 .. Line /\ bus.at = Over
  BY BusAssumption DEF TakeNext, BusTyped, Nowhere
<1>2. bus' = [bus EXCEPT !.next = next, !.at = 1, !.speed = 1]
  BY DEF TakeNext, Before
<1>3. BusTyped' /\ bus'.next = next /\ bus'.at = 1 /\ bus'.served = bus.served
  <2>1. next \in 0 .. Line /\ 1 \in Nat /\ 1 \in 0 .. 4
    BY <1>1, BusAssumption
  <2> HIDE DEF next
  <2> QED BY <1>2, <2>1 DEF BusTyped
<1>4. Leg(next) = IF Leg(bus.next) = Line THEN 1 ELSE Leg(bus.next) + 1
  BY <1>1, BusAssumption DEF Leg
<1> QED BY <1>1, <1>3, <1>4 DEF Nowhere, Before

LEMMA BusStepOK ==
  ASSUME BusOK, [BusNext]_busVars, \E s, t \in BusStops : s # t
  PROVE  BusOK'
<1>1. BusTyped /\ LastNoted
  BY DEF BusOK
<1>2. /\ bus.next \in 0 .. Line /\ bus.served \in 0 .. Line
      /\ bus.next # Nowhere => Leg(bus.next) \in 1 .. Line
      /\ BusStops \subseteq 1 .. Line /\ Line \in Nat
  BY <1>1, LegTyped, BusAssumption DEF BusTyped, Nowhere
(* Where the loop, its next connector and the stop noted stay.             *)
<1>3. ASSUME BusTyped', bus'.next = bus.next, bus'.served = bus.served,
             told' = told, bus'.at = Over => bus.at = Over \/ NoStop(bus)
      PROVE  BusOK'
  BY <1>1, <1>3 DEF BusOK, LastNoted, HasStop, NoStop
(* Where the stop is noted, and told.                                      *)
<1>4. ASSUME BusTyped', bus'.next = bus.next, HasStop(bus), bus'.served = Leg(bus.next), told' = TRUE
      PROVE  BusOK'
  <2>1. Leg(bus.next) \in BusStops /\ bus.next # Nowhere /\ Leg(bus.next) \in 1 .. Line
    BY <1>2, <1>4 DEF HasStop
  <2>2. ASSUME NEW s \in BusStops, NEW leg \in 1 .. Line PROVE ~Between(s, leg, leg)
    BY <1>2 DEF Between
  <2> QED BY <1>4, <2>1, <2>2 DEF BusOK, LastNoted
(* Where a loop is drawn.                                                  *)
<1>5. ASSUME BusTyped', bus'.served = Nowhere, bus'.at # Over
      PROVE  BusOK'
  <2>1. bus'.next # Nowhere => Leg(bus'.next) \in 1 .. Line
    BY <1>5, LegTyped DEF BusTyped, Nowhere
  <2>2. HasStop(bus)' => Leg(bus'.next) # Nowhere
    BY <2>1 DEF HasStop, Nowhere
  <2> QED BY <1>5, <2>2 DEF BusOK, LastNoted
<1>6. CASE UNCHANGED busVars
  BY <1>6, <1>1 DEF busVars, BusOK, BusTyped, LastNoted, HasStop
<1>7. CASE Drive(bus)
  BY <1>7, <1>1, <1>3, Rolled DEF Drive
<1>8. CASE Approach(bus)
  <2>1. bus.at \in {Before, At} /\ Rolls(bus) /\ told' = told
    BY <1>8 DEF Approach
  <2>2. bus.at # Over /\ bus.at + 1 # Over
    BY <2>1 DEF Before, At, Over
  <2> QED BY <2>1, <2>2, <1>1, <1>3, Rolled
<1>9. CASE StartDwelling(bus)
  <2>1. PICK time \in Dwellings : bus' = [bus EXCEPT !.dwelling = time]
    BY <1>9 DEF StartDwelling
  <2>2. time \in Nat
    BY BusAssumption
  <2>3. BusTyped' /\ bus'.next = bus.next /\ bus'.served = bus.served /\ bus'.at = bus.at
    BY <2>1, <2>2, <1>1 DEF BusTyped
  <2> QED BY <2>3, <1>3, <1>9 DEF StartDwelling
<1>10. CASE DwellOn(bus)
  <2>1. CASE bus.dwelling > 1
    <3>1. bus' = [bus EXCEPT !.dwelling = @ - 1] /\ told' = told /\ bus.dwelling - 1 \in Nat
      BY <1>10, <2>1, <1>1 DEF DwellOn, BusTyped
    <3>2. BusTyped' /\ bus'.next = bus.next /\ bus'.served = bus.served /\ bus'.at = bus.at
      BY <3>1, <1>1 DEF BusTyped
    <3> QED BY <3>1, <3>2, <1>3
  <2>2. CASE ~(bus.dwelling > 1)
    <3>1. HasStop(bus) /\ bus.served # Leg(bus.next) /\ Rolls(Served(bus)) /\ told' = TRUE
      BY <1>10, <2>2 DEF DwellOn, NoStop
    <3>2. bus.at # Over
      BY <3>1, <1>1 DEF LastNoted
    <3> QED BY <3>1, <3>2, <1>1, <1>4, RolledOnServed
  <2> QED BY <2>1, <2>2
<1>11. CASE Missed(bus)
  <2>1. HasStop(bus) /\ bus.at # Over /\ Rolls(Served(bus)) /\ told' = TRUE
    BY <1>11 DEF Missed, NoStop, Beyond, Over
  <2> QED BY <2>1, <1>1, <1>4, RolledOnServed
<1>12. CASE TakeNext(bus) /\ told' = FALSE
  <2> DEFINE leg == Leg(bus.next)
             on == Leg(bus'.next)
  <2>1. /\ BusTyped' /\ bus.next # Nowhere /\ bus'.next # Nowhere /\ bus.at = Over /\ bus'.at # Over
        /\ bus'.served = bus.served /\ on = IF leg = Line THEN 1 ELSE leg + 1
    BY <1>12, <1>1, TookNext DEF Before, Over
  <2>2. leg \in 1 .. Line /\ (leg \in BusStops => bus.served = leg)
    BY <2>1, <1>1, <1>2 DEF LastNoted, HasStop
  <2>3. ASSUME bus.served # Nowhere
        PROVE  bus.served \in BusStops /\ \A s \in BusStops : ~Between(s, bus.served, leg)
    BY <2>3, <1>1 DEF LastNoted
  (* The stop noted is not the one of the next lane: another lies between. *)
  <2>4. ASSUME bus.served # Nowhere
        PROVE  bus.served # on /\ \A s \in BusStops : ~Between(s, bus.served, on)
    BY <2>1, <2>2, <2>3, <2>4, <1>2 DEF Between
  <2>5. on \in 1 .. Line
    BY <2>1, <2>2, <1>2
  <2> QED BY <2>1, <2>3, <2>4, <2>5 DEF BusOK, LastNoted, Nowhere
<1>13. CASE TakeOther(bus) /\ told' = FALSE
  BY <1>13, <1>1, <1>5, DrawnOver DEF Before, Over
<1>14. CASE Redraw(bus)
  <2>1. PICK first \in First : bus' = NewLoop(bus, first)
    BY <1>14 DEF Redraw
  <2> QED BY <1>14, <2>1, <1>1, <1>5, LoopDrawn DEF Redraw
<1> QED BY <1>6, <1>7, <1>8, <1>9, <1>10, <1>11, <1>12, <1>13, <1>14 DEF BusNext, Take

(* What is true of the bus and of the training by themselves is true of    *)
(* them in the simulation, in which they are stepped or stand still.       *)
LEMMA PartsGoOn == Spec => BusSpec /\ EpisodesSpec
<1>1. Init => BusInit /\ EpisodesInit
  BY DEF Init
<1>2. [Next]_vars => [BusNext]_busVars
  BY DEF Next, Drives, Walks, Traffic, Changing, Serving, Trains, vars, trafficVars
<1>3. [Next]_vars => [EpisodesNext]_episodesVars
  BY DEF Next, Drives, Walks, Traffic, Changing, Serving, Trains, vars
<1> QED BY <1>1, <1>2, <1>3, PTL DEF Spec, BusSpec, EpisodesSpec

(* On a loop with two stops or more the bus serves each in every round, or *)
(* counts it as missed, on its line and in the simulation: noting the stop *)
(* served last (bus_stop) fails only where there is no other.              *)
THEOREM ServedEachRoundAlways ==
  ASSUME \E s, t \in BusStops : s # t
  PROVE  (BusSpec => ServedEachRound) /\ (Spec => ServedEachRound)
<1>1. BusOK /\ [BusNext]_busVars => BusOK'
  BY BusStepOK
<1>2. BusOK /\ [BusNext]_busVars => [bus.at = Over /\ bus'.at = Before /\ HasStop(bus) => told]_busVars
  BY DEF BusOK, LastNoted
<1>3. BusSpec => ServedEachRound
  BY BusInitiallyOK, <1>1, <1>2, PTL DEF BusSpec, ServedEachRound
<1> QED BY <1>3, PartsGoOn, PTL

-----------------------------------------------------------------------------
(* Drivers and the lights: whom amber catches, and who crosses at red.     *)

(* Stopping distances.                                                     *)
StopFrom(g, v) == [b \in {1, 2} |-> IF v <= b THEN 0 ELSE (v - b) + g[v - b][b]]
IsStop(g) == g = [v \in 0 .. MaxSpeed |-> StopFrom(g, v)]
StopUpto(g, n) == \A v \in 0 .. n : g[v] = StopFrom(g, v)

LEMMA StopSame ==
  ASSUME NEW g, NEW h, NEW v \in Nat, \A w \in 0 .. (v - 1) : g[w] = h[w]
  PROVE  StopFrom(g, v) = StopFrom(h, v)
<1>1. ASSUME NEW b \in {1, 2}, ~(v <= b) PROVE g[v - b][b] = h[v - b][b]
  <2>1. v - b \in 0 .. (v - 1)
    BY <1>1
  <2> QED BY <2>1
<1> QED BY <1>1 DEF StopFrom

LEMMA StopExists == \E g : IsStop(g)
<1> DEFINE U == {n \in Nat : \E g : StopUpto(g, n)}
<1>1. 0 \in U
  <2> DEFINE g == [v \in {0} |-> [b \in {1, 2} |-> 0]]
  <2>1. 0 .. 0 = {0}
    OBVIOUS
  <2>2. StopFrom(g, 0) = [b \in {1, 2} |-> 0]
    BY DEF StopFrom
  <2> QED BY <2>1, <2>2 DEF StopUpto
<1>2. ASSUME NEW n \in Nat, n \in U PROVE n + 1 \in U
  <2>1. PICK g : StopUpto(g, n)
    BY <1>2
  <2> DEFINE h == [v \in 0 .. (n + 1) |-> IF v = n + 1 THEN StopFrom(g, v) ELSE g[v]]
  <2>2. \A w \in 0 .. n : h[w] = g[w]
    OBVIOUS
  <2>3. h[n + 1] = StopFrom(g, n + 1)
    OBVIOUS
  <2> HIDE DEF h
  <2>4. ASSUME NEW v \in 0 .. (n + 1) PROVE h[v] = StopFrom(h, v)
    <3>1. \A w \in 0 .. (v - 1) : g[w] = h[w]
      BY <2>2
    <3>2. StopFrom(g, v) = StopFrom(h, v)
      BY <3>1, StopSame
    <3>3. v \in 0 .. n => h[v] = StopFrom(g, v)
      BY <2>1, <2>2 DEF StopUpto
    <3>4. v \in 0 .. n \/ v = n + 1
      OBVIOUS
    <3> QED BY <2>3, <3>2, <3>3, <3>4
  <2>5. StopUpto(h, n + 1)
    BY <2>4 DEF StopUpto
  <2> QED BY <2>5
<1>3. MaxSpeed \in U
  <2>1. MaxSpeed \in Nat
    BY JunctionAssumption
  <2> HIDE DEF U
  <2> QED BY <1>1, <1>2, <2>1, Induction
<1>4. PICK g : StopUpto(g, MaxSpeed)
  BY <1>3
<1> DEFINE h == [v \in 0 .. MaxSpeed |-> g[v]]
<1>5. ASSUME NEW v \in 0 .. MaxSpeed PROVE h[v] = StopFrom(h, v)
  <2>1. \A w \in 0 .. (v - 1) : w \in 0 .. MaxSpeed
    BY JunctionAssumption
  <2>2. StopFrom(g, v) = StopFrom(h, v)
    <3>1. \A w \in 0 .. (v - 1) : g[w] = h[w]
      BY <2>1
    <3> HIDE DEF h
    <3> QED BY <3>1, StopSame
  <2>3. h[v] = StopFrom(g, v)
    BY <1>4 DEF StopUpto
  <2> QED BY <2>2, <2>3
<1>6. IsStop(h)
  <2>1. h = [v \in 0 .. MaxSpeed |-> h[v]]
    OBVIOUS
  <2> HIDE DEF h
  <2> QED BY <1>5, <2>1 DEF IsStop
<1> QED BY <1>6

LEMMA StopIs == ASSUME NEW v \in 0 .. MaxSpeed PROVE Stop[v] = StopFrom(Stop, v)
<1>1. Stop = CHOOSE g : IsStop(g)
  BY DEF Stop, IsStop, StopFrom
<1>2. IsStop(Stop)
  BY <1>1, StopExists
<1> QED BY <1>2 DEF IsStop

(* Slowing by 1 or by 2.                                                   *)
LEMMA StopTakes ==
  ASSUME NEW v \in 0 .. MaxSpeed
  PROVE  /\ Stop[v][1] = IF v <= 1 THEN 0 ELSE (v - 1) + Stop[v - 1][1]
         /\ Stop[v][2] = IF v <= 2 THEN 0 ELSE (v - 2) + Stop[v - 2][2]
  BY StopIs DEF StopFrom

(* Braking hard takes no farther than braking comfortably.                 *)
Shorter(v) == Stop[v][1] \in Nat /\ Stop[v][2] \in Nat /\ Stop[v][2] <= Stop[v][1]

LEMMA StopShorter == \A v \in 0 .. MaxSpeed : Shorter(v)
<1> DEFINE U == {n \in Nat : \A v \in 0 .. MaxSpeed : v <= n => Shorter(v)}
<1>1. 0 \in U
  <2>1. ASSUME NEW v \in 0 .. MaxSpeed, v <= 0 PROVE Shorter(v)
    BY <2>1, StopTakes DEF Shorter
  <2> QED BY <2>1
<1>2. ASSUME NEW n \in Nat, n \in U PROVE n + 1 \in U
  <2>1. ASSUME NEW v \in 0 .. MaxSpeed, v = n + 1 PROVE Shorter(v)
    <3>1. CASE v <= 1
      BY <3>1, StopTakes DEF Shorter
    <3>2. CASE v > 1
      <4>0. MaxSpeed \in Nat
        BY JunctionAssumption
      <4>1. v - 1 \in 0 .. MaxSpeed /\ v - 2 \in 0 .. MaxSpeed /\ v - 1 <= n /\ v - 2 <= n
        BY <2>1, <3>2, <4>0
      <4>2. Shorter(v - 1) /\ Shorter(v - 2)
        BY <1>2, <4>1
      <4>3. /\ Stop[v][1] = (v - 1) + Stop[v - 1][1]
            /\ Stop[v][2] = IF v <= 2 THEN 0 ELSE (v - 2) + Stop[v - 2][2]
        BY <3>2, StopTakes
      <4>4. v > 2 => Stop[v - 1][1] = (v - 2) + Stop[v - 2][1]
        <5>1. v > 2 => (v - 1) - 1 = v - 2 /\ ~(v - 1 <= 1)
          OBVIOUS
        <5> QED BY <4>1, <5>1, StopTakes
      <4> DEFINE p == Stop[v - 1][1]
                 q == Stop[v - 2][1]
                 r == Stop[v - 2][2]
      <4>5. p \in Nat /\ q \in Nat /\ r \in Nat /\ r <= q
        BY <4>2 DEF Shorter
      <4> HIDE DEF p, q, r
      <4>6. Stop[v][1] = (v - 1) + p /\ Stop[v][2] = (IF v <= 2 THEN 0 ELSE (v - 2) + r) /\ (v > 2 => p = (v - 2) + q)
        BY <4>3, <4>4 DEF p, q, r
      <4> QED BY <3>2, <4>5, <4>6 DEF Shorter
    <3> QED BY <3>1, <3>2
  <2>2. \A v \in 0 .. MaxSpeed : v <= n + 1 => v <= n \/ v = n + 1
    BY JunctionAssumption
  <2> QED BY <1>2, <2>1, <2>2
<1> HIDE DEF U
<1>3. \A n \in Nat : n \in U
  BY <1>1, <1>2, Induction
<1>4. ASSUME NEW v \in 0 .. MaxSpeed PROVE Shorter(v)
  <2>1. v \in Nat /\ v <= v
    BY JunctionAssumption
  <2> QED BY <1>3, <2>1 DEF U
<1> QED BY <1>4

(* Green is followed by amber, and amber runs down.                        *)
LEMMA LightRuns ==
  ASSUME NEW ps, SpansOK(ps), NEW k \in DOMAIN ps, ps[k].green \in Nat, NEW u \in 0 .. Length(ps) - 1,
         NEW v, v = (u + 1) % Length(ps)
  PROVE  /\ LightIs(ps, k, u)[1] \in {"green", "amber", "red"}
         /\ LightIs(ps, k, u)[1] = "green" => LightIs(ps, k, v)[1] \in {"green", "amber"}
         /\ LightIs(ps, k, u)[1] = "amber" => LightIs(ps, k, u)[2] \in {1, 2, 3}
         /\ LightIs(ps, k, u)[1] = "amber" /\ LightIs(ps, k, u)[2] # 1
              => LightIs(ps, k, v) = <<"amber", LightIs(ps, k, u)[2] - 1>>
<1> DEFINE s == Start(ps, k)
           C == Length(ps)
           g == ps[k].green
           here == LightIs(ps, k, u)
           next == LightIs(ps, k, v)
<1>1. s \in Nat /\ C \in Nat /\ g \in Nat /\ s + (g + 5) <= C /\ u \in Nat /\ u < C
  <2>1. Span(ps[k]) = g + 5
    BY DEF Span, Amber, AllRed
  <2> QED BY <2>1, PhasesApart
<1>2. /\ here = IF s <= u /\ u < s + g THEN <<"green", s + g - u>>
                ELSE IF s <= u /\ u < s + g + 3 THEN <<"amber", s + g + 3 - u>>
                ELSE <<"red", (s - u) % C>>
      /\ next = IF s <= v /\ v < s + g THEN <<"green", s + g - v>>
                ELSE IF s <= v /\ v < s + g + 3 THEN <<"amber", s + g + 3 - v>>
                ELSE <<"red", (s - v) % C>>
  BY DEF LightIs, Amber
<1>3. v = IF u + 1 < C THEN u + 1 ELSE 0
  <2>1. v = (u + 1) % C
    OBVIOUS
  <2> HIDE DEF C
  <2> QED BY <1>1, <2>1, ModOf
<1> SUFFICES /\ here[1] \in {"green", "amber", "red"}
             /\ here[1] = "green" => next[1] \in {"green", "amber"}
             /\ here[1] = "amber" => here[2] \in {1, 2, 3}
             /\ here[1] = "amber" /\ here[2] # 1 => next = <<"amber", here[2] - 1>>
  OBVIOUS
<1> DEFINE d == (s - u) % C
           e == (s - v) % C
<1> HIDE DEF s, C, g, here, next, d, e
<1>4. CASE s <= u /\ u < s + g
  <2>1. v = u + 1 /\ here = <<"green", s + g - u>>
    BY <1>1, <1>2, <1>3, <1>4
  <2>2. CASE v < s + g
    BY <1>1, <1>2, <1>4, <2>1, <2>2
  <2>3. CASE v = s + g
    <3>1. next = <<"amber", s + g + 3 - v>> /\ s + g + 3 - v = 3
      BY <1>1, <1>2, <1>4, <2>1, <2>3
    <3> QED BY <2>1, <3>1
  <2> QED BY <1>1, <1>4, <2>1, <2>2, <2>3
<1>5. CASE s + g <= u /\ u < s + g + 3
  <2>1. v = u + 1 /\ here = <<"amber", s + g + 3 - u>>
    BY <1>1, <1>2, <1>3, <1>5
  <2>2. s + g + 3 - v = (s + g + 3 - u) - 1
    BY <1>1, <2>1
  <2>3. CASE s + g + 3 - u \in {2, 3}
    <3>1. next = <<"amber", s + g + 3 - v>>
      BY <1>1, <1>2, <1>5, <2>1, <2>3
    <3> QED BY <2>1, <2>2, <2>3, <3>1
  <2>4. CASE s + g + 3 - u = 1
    BY <2>1, <2>4
  <2>5. s + g + 3 - u \in {1, 2, 3}
    BY <1>1, <1>5
  <2> QED BY <2>3, <2>4, <2>5
<1>6. CASE ~(s <= u /\ u < s + g + 3)
  <2>1. here = <<"red", d>>
    BY <1>1, <1>2, <1>6 DEF d
  <2> QED BY <2>1
<1> QED BY <1>1, <1>4, <1>5, <1>6

LEMMA LightGoesOn ==
  ASSUME InCycle, Tick, NEW c \in Movement
  PROVE  /\ Light(c, now) \in {"green", "amber", "red"}
         /\ Light(c, now) = "green" => Light(c, now') \in {"green", "amber"}
         /\ Light(c, now) = "amber" => Left(c, now) \in {1, 2, 3}
         /\ Light(c, now) = "amber" /\ Left(c, now) # 1 =>
              Light(c, now') = "amber" /\ Left(c, now') = Left(c, now) - 1
<1> DEFINE k == PhaseOf(Phases, c)
           here == LightIs(Phases, k, now)
           next == LightIs(Phases, k, now')
<1>1. Cycle > 0 /\ now \in 0 .. Length(Phases) - 1 /\ now \in Int /\ now % Cycle = now
  BY CyclePositive DEF Cycle
<1>2. InCycle'
  BY TickInCycle
<1>3. now' \in Int /\ now' % Cycle = now' /\ now' = (now + 1) % Length(Phases)
  <2> DEFINE C == Cycle
  <2>1. C \in Nat /\ now' \in 0 .. C - 1
    BY <1>2, CycleNat DEF InCycle
  <2> HIDE DEF C
  <2>2. now' \in Int /\ now' % C = now'
    <3>1. C > 0 /\ now' \in Int /\ -C <= now' /\ now' <= C /\ ~(now' < 0) /\ now' < C
      BY <2>1
    <3> QED BY <2>1, <3>1, ModOf
  <2> QED BY <2>2 DEF C, Tick, Cycle
<1>4. Light(c, now) = here[1] /\ Left(c, now) = here[2]
  BY <1>1, ShownIs
<1>5. Light(c, now') = next[1] /\ Left(c, now') = next[2]
  BY <1>1, <1>3, ShownIs
<1>6. here = <<here[1], here[2]>>
  BY DEF LightIs
<1>7. k \in DOMAIN Phases /\ Phases[k].green \in Nat /\ SpansOK(Phases)
  BY PhaseOfIn, PhasesOK
<1>8. /\ here[1] \in {"green", "amber", "red"}
      /\ here[1] = "green" => next[1] \in {"green", "amber"}
      /\ here[1] = "amber" => here[2] \in {1, 2, 3}
      /\ here[1] = "amber" /\ here[2] # 1 => next = <<"amber", here[2] - 1>>
  <2> HIDE DEF k
  <2> QED BY <1>1, <1>3, <1>7, LightRuns
<1> HIDE DEF here, next, k
<1> QED BY <1>4, <1>5, <1>6, <1>8

(* The invariant.  A driver before the line at amber or red can stop       *)
(* comfortably, or could not when amber caught it; in this case it had to  *)
(* slow, or could not even stop hard, or gets over before red at the speed *)
(* it has, or amber has just caught it.  Whoever must stop and has decided *)
(* in this step goes no farther than the line, or is far from it.          *)
JunctionTyped ==
  /\ way \in [Drivers -> Movement] /\ front \in [Drivers -> Int] /\ speed \in [Drivers -> 0 .. MaxSpeed]
  /\ hold \in [Drivers -> Int] /\ deciding \in Nat \ {0}
CaughtTyped == caught \in [Drivers -> [front : Int, speed : 0 .. MaxSpeed, slowed : BOOLEAN]]

CaughtBy(d, b) == ~CanStop(caught[d].speed, caught[d].front, b)
GetsOver(d) == -front[d] < speed[d] * Left(way[d], now)
GoesOn(d) == Light(way[d], now) = "amber" /\ (GetsOver(d) \/ CanStop(speed[d], front[d], 2))
FacesLight(d) == control = "signal" /\ front[d] <= 0 /\ Light(way[d], now) # "green"
CaughtOK(d) == FacesLight(d) =>
  \/ CanStop(speed[d], front[d], 1)
  \/ CaughtBy(d, 1) /\ (caught[d].slowed \/ CaughtBy(d, 2) \/ GoesOn(d))

MustStop(d) == IF Light(way[d], now) = "amber" THEN StopsAt(d) ELSE CanStop(speed[d], front[d], 2)
HeldBack(d) == d < deciding /\ FacesLight(d) /\ MustStop(d) =>
  hold[d] = -front[d] \/ -front[d] > Stop[speed[d]][1] + 2 * speed[d]
LightsKept ==
  InCycle /\ JunctionTyped /\ CaughtTyped /\ \A d \in Drivers : CaughtOK(d) /\ HeldBack(d)

LEMMA Limits == MaxSpeed \in Nat /\ ZoneIn \in Nat /\ Gone \in Nat /\ Gone > 0 /\ DecideFrom \in Nat /\ GrantFrom \in Nat
<1>1. MaxSpeed \in Nat /\ ZoneIn \in Nat /\ ZoneOut \in Nat /\ DecideFrom \in Nat /\ GrantFrom \in Nat
  BY JunctionAssumption
<1> QED BY <1>1 DEF Gone

(* Where driver d gets in a step.                                          *)
Slower(v) == IF v <= 2 THEN 0 ELSE v - 2

LEMMA MoveTakes ==
  ASSUME JunctionTyped, Move, NEW d \in Drivers
  PROVE  /\ speed'[d] \in 0 .. MaxSpeed /\ front'[d] \in Int
         /\ front[d] > 0 => front'[d] > 0
         /\ front[d] <= 0 =>
              /\ front'[d] > 0 <=> front[d] + speed'[d] > 0
              /\ front'[d] <= 0 => front'[d] = front[d] + speed'[d]
              /\ Slower(speed[d]) <= speed'[d] /\ speed'[d] <= speed[d] + 1
              /\ speed'[d] = Slower(speed[d]) \/ speed'[d] + Stop[speed'[d]][1] <= hold[d]
<1> DEFINE v == speed[d]
           u == speed'[d]
           f == front[d]
           lo == Max({v - 2, 0})
           T == {lo} \cup {w \in lo .. Min({v + 1, MaxSpeed}) : w + Stop[w][1] <= hold[d]}
<1>1. MaxSpeed \in Nat /\ Gone \in Nat /\ Gone > 0 /\ v \in 0 .. MaxSpeed /\ f \in Int
  BY Limits DEF JunctionTyped
<1>2. PICK late \in SUBSET Drivers :
        /\ speed' = [e \in Drivers |-> IF front[e] = Gone THEN 0
                                       ELSE IF e \in late THEN Max({speed[e] - 2, 0}) ELSE Fastest(e)]
        /\ front' = [e \in Drivers |-> Min({front[e] + speed'[e], Gone})]
  BY DEF Move
<1>3. front'[d] = Min({f + u, Gone})
  BY <1>2
<1>4. u = IF f = Gone THEN 0 ELSE IF d \in late THEN lo ELSE Fastest(d)
  BY <1>2
<1>5. lo = Slower(v) /\ lo \in 0 .. MaxSpeed /\ lo <= v + 1
  <2> HIDE DEF v
  <2>1. Max({v - 2, 0}) \in {v - 2, 0} /\ Max({v - 2, 0}) >= v - 2 /\ Max({v - 2, 0}) >= 0
    BY <1>1, MaxOfTwo
  <2> QED BY <1>1, <2>1 DEF Slower
<1>6. Fastest(d) \in 0 .. MaxSpeed /\ lo <= Fastest(d) /\ Fastest(d) <= v + 1
      /\ (Fastest(d) = lo \/ Fastest(d) + Stop[Fastest(d)][1] <= hold[d])
  <2>1. Fastest(d) = Max(T)
    BY DEF Fastest
  <2>2. Min({v + 1, MaxSpeed}) \in Int /\ Min({v + 1, MaxSpeed}) <= v + 1 /\ Min({v + 1, MaxSpeed}) <= MaxSpeed
    <3> HIDE DEF v
    <3>1. v + 1 \in Int /\ MaxSpeed \in Int
      BY <1>1
    <3> QED BY <3>1, MinOfTwo
  <2> DEFINE top == Min({v + 1, MaxSpeed})
  <2> HIDE DEF lo, top, v
  <2>3. T \in SUBSET (0 .. MaxSpeed) /\ T # {}
    BY <1>1, <1>5, <2>2 DEF top
  <2>4. \A w \in T : w = lo \/ (lo <= w /\ w <= v + 1 /\ w + Stop[w][1] <= hold[d])
    BY <1>1, <1>5, <2>2 DEF top
  <2>5. Max(T) \in T
    <3> HIDE DEF T
    <3> QED BY <1>1, <2>3, GreatestOf
  <2> HIDE DEF T
  <2>6. PICK w \in T : Fastest(d) = w
    BY <2>1, <2>5
  <2>7. w \in 0 .. MaxSpeed /\ (w = lo \/ (lo <= w /\ w <= v + 1 /\ w + Stop[w][1] <= hold[d]))
    BY <2>3, <2>4
  <2>8. lo <= lo
    BY <1>5
  <2> QED BY <1>5, <2>6, <2>7, <2>8
<1> HIDE DEF v, u, f, lo
<1>7. u \in 0 .. MaxSpeed
  BY <1>1, <1>4, <1>5, <1>6
<1>8. Min({f + u, Gone}) \in {f + u, Gone} /\ Min({f + u, Gone}) <= f + u /\ Min({f + u, Gone}) <= Gone
  <2>1. f + u \in Int /\ Gone \in Int
    BY <1>1, <1>7
  <2> QED BY <2>1, MinOfTwo
<1>9. front'[d] \in Int /\ (front'[d] = f + u \/ front'[d] = Gone) /\ front'[d] <= f + u /\ u \in Nat
  BY <1>1, <1>3, <1>7, <1>8
<1>10. f > 0 => front'[d] > 0
  BY <1>1, <1>9
<1>11. ASSUME f <= 0
       PROVE  /\ front'[d] > 0 <=> f + u > 0
              /\ front'[d] <= 0 => front'[d] = f + u
              /\ Slower(v) <= u /\ u <= v + 1
              /\ u = Slower(v) \/ u + Stop[u][1] <= hold[d]
  <2>1. u = lo \/ u = Fastest(d)
    BY <1>1, <1>4, <1>11
  <2>2. (front'[d] > 0 <=> f + u > 0) /\ (front'[d] <= 0 => front'[d] = f + u)
    BY <1>1, <1>9
  <2>3. lo \in Int /\ lo <= lo
    BY <1>5
  <2> QED BY <1>5, <1>6, <2>1, <2>2, <2>3
<1> QED BY <1>7, <1>9, <1>10, <1>11 DEF v, u, f

LEMMA DriverNumber == \A d \in Drivers : d \in Nat /\ d >= 1 /\ d <= Cardinality(Drivers)
<1>1. Drivers = 1 .. Cardinality(Drivers) /\ Cardinality(Drivers) \in Nat
  BY JunctionAssumption, FS_CardinalityType
<1> DEFINE n == Cardinality(Drivers)
<1> HIDE DEF n
<1>2. \A d \in 1 .. n : d \in Nat /\ d >= 1 /\ d <= n
  BY <1>1 DEF n
<1> QED BY <1>1, <1>2 DEF n

LEMMA SpeedTyped ==
  ASSUME NEW v \in 0 .. MaxSpeed
  PROVE  v \in Nat /\ Stop[v][1] \in Nat /\ Stop[v][2] \in Nat /\ Stop[v][2] <= Stop[v][1]
<1>1. MaxSpeed \in Nat
  BY JunctionAssumption
<1> QED BY <1>1, StopShorter DEF Shorter

(* It takes longer to stop from a higher speed.                            *)
LEMMA StopGrows ==
  ASSUME NEW v \in 0 .. MaxSpeed
  PROVE  /\ v + 1 \in 0 .. MaxSpeed => Stop[v + 1][1] = v + Stop[v][1]
         /\ v >= 1 => v - 1 \in 0 .. MaxSpeed /\ Stop[v][1] = (v - 1) + Stop[v - 1][1]
         /\ v >= 2 => v - 2 \in 0 .. MaxSpeed /\ Stop[v][1] = (v - 1) + ((v - 2) + Stop[v - 2][1])
<1>1. MaxSpeed \in Nat /\ v \in Nat
  BY JunctionAssumption
<1>2. ASSUME NEW w \in 0 .. MaxSpeed, w >= 1 PROVE w - 1 \in 0 .. MaxSpeed /\ Stop[w][1] = (w - 1) + Stop[w - 1][1]
  <2>1. w \in Nat /\ w - 1 \in 0 .. MaxSpeed
    BY <1>1, <1>2
  <2>2. CASE w = 1
    <3>1. Stop[1][1] = 0 /\ Stop[0][1] = 0
      <4>1. 0 \in 0 .. MaxSpeed /\ 1 \in 0 .. MaxSpeed
        BY <1>1, <2>1, <2>2
      <4> QED BY <4>1, StopTakes
    <3> QED BY <2>1, <2>2, <3>1
  <2>3. CASE w > 1
    <3>1. Stop[w][1] = (w - 1) + Stop[w - 1][1]
      BY <2>1, <2>3, StopTakes
    <3> QED BY <2>1, <3>1
  <2> QED BY <1>2, <2>1, <2>2, <2>3
<1>3. ASSUME v + 1 \in 0 .. MaxSpeed PROVE Stop[v + 1][1] = v + Stop[v][1]
  <2>1. v + 1 >= 1 /\ (v + 1) - 1 = v
    BY <1>1
  <2> QED BY <1>2, <1>3, <2>1
<1>4. ASSUME v >= 2 PROVE v - 2 \in 0 .. MaxSpeed /\ Stop[v][1] = (v - 1) + ((v - 2) + Stop[v - 2][1])
  <2>1. v - 1 \in 0 .. MaxSpeed /\ Stop[v][1] = (v - 1) + Stop[v - 1][1]
    BY <1>1, <1>2, <1>4
  <2>2. v - 1 >= 1 /\ (v - 1) - 1 = v - 2
    BY <1>1, <1>4
  <2>3. v - 2 \in 0 .. MaxSpeed /\ Stop[v - 1][1] = (v - 2) + Stop[v - 2][1]
    BY <1>2, <2>1, <2>2
  <2> QED BY <2>1, <2>3
<1> QED BY <1>2, <1>3, <1>4

(* Driver at speed v, x before the line, that may go h and goes u.         *)
Goes(v, x, h, u) ==
  /\ Slower(v) <= u /\ u <= v + 1
  /\ u = Slower(v) \/ u + Stop[u][1] <= h
  /\ h = x \/ x > Stop[v][1] + 2 * v

(* Held back, it can stop comfortably if it could.                         *)
LEMMA StaysComfortable ==
  ASSUME NEW v \in 0 .. MaxSpeed, NEW u \in 0 .. MaxSpeed, NEW x \in Int, NEW h \in Int,
         Goes(v, x, h, u), Stop[v][1] <= x
  PROVE  u <= x /\ Stop[u][1] <= x - u
<1> DEFINE p == Stop[v][1]
           q == Stop[u][1]
<1>1. v \in Nat /\ u \in Nat /\ p \in Nat /\ q \in Nat /\ p <= x
  BY SpeedTyped
<1>2. Slower(v) <= u /\ u <= v + 1 /\ (u = Slower(v) \/ u + q <= h) /\ (h = x \/ x > p + 2 * v)
  BY DEF Goes
<1>3. /\ u = v + 1 => q = v + p
      /\ u = v => q = p
      /\ v >= 1 /\ u = v - 1 => p = (v - 1) + q
      /\ v >= 2 /\ u = v - 2 => p = (v - 1) + ((v - 2) + q)
  BY StopGrows
<1>4. u <= 1 => q = 0
  BY StopTakes
<1> HIDE DEF p, q
<1>5. v <= 2 \/ v - 2 <= u
  BY <1>1, <1>2 DEF Slower
<1>6. CASE u = Slower(v)
  <2>1. CASE v <= 2
    BY <1>1, <1>4, <1>6, <2>1 DEF Slower, q
  <2>2. CASE v > 2
    <3>1. u = v - 2
      BY <1>1, <1>6, <2>2 DEF Slower
    <3> QED BY <1>1, <1>3, <2>2, <3>1 DEF q
  <2> QED BY <1>1, <2>1, <2>2
<1>7. CASE u + q <= h /\ h = x
  BY <1>1, <1>7 DEF q
<1>8. CASE x > p + 2 * v
  <2>1. q <= p + v
    <3>1. CASE u \in {v + 1, v}
      BY <1>1, <1>3, <3>1
    <3>2. CASE u \notin {v + 1, v} /\ v >= 2
      <4>1. u \in {v - 1, v - 2} \/ (v = 2 /\ u <= 1)
        BY <1>1, <1>2, <1>5, <3>2
      <4> QED BY <1>1, <1>3, <1>4, <3>2, <4>1
    <3>3. CASE v <= 1 /\ u \notin {v + 1, v}
      BY <1>1, <1>2, <1>4, <3>3
    <3> QED BY <1>1, <3>1, <3>2, <3>3
  <2>2. u + q <= p + 2 * v + 1
    BY <1>1, <1>2, <2>1
  <2>3. u + q <= x
    BY <1>1, <1>8, <2>2
  <2> QED BY <1>1, <2>3 DEF q
<1> QED BY <1>2, <1>6, <1>7, <1>8

(* It does not pass the line if it can stop, braking hard.                 *)
LEMMA StopsShort ==
  ASSUME NEW v \in 0 .. MaxSpeed, NEW u \in 0 .. MaxSpeed, NEW x \in Int, NEW h \in Int,
         Goes(v, x, h, u), Stop[v][2] <= x
  PROVE  u <= x
<1> DEFINE p == Stop[v][1]
           q == Stop[u][1]
           r == Stop[v][2]
<1>1. v \in Nat /\ u \in Nat /\ p \in Nat /\ q \in Nat /\ r \in Nat /\ r <= x
  BY SpeedTyped
<1>2. u <= v + 1 /\ (u = Slower(v) \/ u + q <= h) /\ (h = x \/ x > p + 2 * v)
  BY DEF Goes
<1>3. ASSUME v > 2 PROVE r >= v - 2
  <2>1. v - 2 \in 0 .. MaxSpeed /\ r = (v - 2) + Stop[v - 2][2]
    BY <1>1, <1>3, StopGrows, StopTakes
  <2>2. Stop[v - 2][2] \in Nat
    BY <2>1, SpeedTyped
  <2> HIDE DEF r
  <2> QED BY <1>1, <2>1, <2>2
<1> HIDE DEF p, q, r
<1> QED BY <1>1, <1>2, <1>3 DEF Slower

(* And slows if it could not stop comfortably.                             *)
LEMMA HeldSlows ==
  ASSUME NEW v \in 0 .. MaxSpeed, NEW u \in 0 .. MaxSpeed, NEW x \in Nat, NEW h \in Int,
         Goes(v, x, h, u), ~(Stop[v][1] <= x)
  PROVE  u < v
<1> DEFINE p == Stop[v][1]
           q == Stop[u][1]
<1>1. v \in Nat /\ u \in Nat /\ p \in Nat /\ q \in Nat /\ p > x
  BY SpeedTyped
<1>2. u <= v + 1 /\ (u = Slower(v) \/ u + q <= h) /\ (h = x \/ x > p + 2 * v)
  BY DEF Goes
<1>3. (u = v + 1 => q = v + p) /\ (u = v => q = p)
  BY StopGrows
<1>4. v > 1
  BY <1>1, StopTakes
<1> HIDE DEF p, q
<1> QED BY <1>1, <1>2, <1>3, <1>4 DEF Slower

-----------------------------------------------------------------------------
RedCaught(d) == CrossesAtRed(d) =>
  /\ ~CanStop(speed[d], front[d], 2)
  /\ CaughtBy(d, 1)
  /\ CanStop(caught[d].speed, caught[d].front, 2) => caught[d].slowed

(* Everyone moves.                                                         *)
LEMMA MoveKeeps ==
  ASSUME LightsKept, Move, Tick, caught' = [e \in Drivers |-> CaughtAfter(e)], NEW d \in Drivers
  PROVE  CaughtOK(d)' /\ RedCaught(d)
<1>1. JunctionTyped /\ CaughtTyped /\ InCycle /\ CaughtOK(d) /\ HeldBack(d)
  BY DEF LightsKept
<1> DEFINE v == speed[d]
           u == speed'[d]
           f == front[d]
           h == hold[d]
           c == way[d]
           l == Left(way[d], now)
<1>2. v \in 0 .. MaxSpeed /\ f \in Int /\ h \in Int /\ c \in Movement
  BY <1>1 DEF JunctionTyped
<1>3. /\ u \in 0 .. MaxSpeed /\ front'[d] \in Int
      /\ f > 0 => front'[d] > 0
      /\ f <= 0 => /\ front'[d] > 0 <=> f + u > 0
                   /\ front'[d] <= 0 => front'[d] = f + u
                   /\ Slower(v) <= u /\ u <= v + 1
                   /\ u = Slower(v) \/ u + Stop[u][1] <= h
  BY <1>1, MoveTakes
<1>4. v \in Nat /\ Stop[v][2] <= Stop[v][1] /\ Stop[v][1] \in Nat /\ Stop[v][2] \in Nat
      /\ u \in Nat /\ Stop[u][1] \in Nat
  BY <1>2, <1>3, SpeedTyped
<1>5. /\ Light(c, now) \in {"green", "amber", "red"}
      /\ Light(c, now) = "green" => Light(c, now') \in {"green", "amber"}
      /\ Light(c, now) = "amber" => l \in {1, 2, 3}
      /\ Light(c, now) = "amber" /\ l # 1 => Light(c, now') = "amber" /\ Left(c, now') = l - 1
  BY <1>1, <1>2, LightGoesOn
<1>6. c' = c /\ control' = control /\ d < deciding
  <2>1. way' = way /\ control' = control /\ deciding > Cardinality(Drivers)
    BY DEF Move
  <2>2. Cardinality(Drivers) \in Nat
    BY JunctionAssumption, FS_CardinalityType
  <2>3. d \in Nat /\ d <= Cardinality(Drivers) /\ deciding \in Nat
    BY <1>1, DriverNumber DEF JunctionTyped
  <2> QED BY <2>1, <2>2, <2>3
<1>7. caught'[d] = CaughtAfter(d)
  OBVIOUS
<1>8. CASE control # "signal"
  BY <1>6, <1>8 DEF CaughtOK, FacesLight, RedCaught, CrossesAtRed, Shows
<1>9. CASE f > 0
  BY <1>2, <1>3, <1>9 DEF CaughtOK, FacesLight, RedCaught, CrossesAtRed
<1>10. ASSUME control = "signal", f <= 0, Light(c, now) = "green" PROVE CaughtOK(d)' /\ RedCaught(d)
  <2>1. Shows(c) = "green"
    BY <1>10 DEF Shows
  <2>2. caught'[d].front = front'[d] /\ caught'[d].speed = u
    BY <1>7, <2>1 DEF CaughtAfter
  <2>3. CaughtOK(d)'
    BY <1>5, <1>6, <1>10, <2>2 DEF CaughtOK, FacesLight, CaughtBy, GoesOn
  <2>4. RedCaught(d)
    BY <2>1 DEF RedCaught, CrossesAtRed
  <2> QED BY <2>3, <2>4
<1>11. ASSUME control = "signal", f <= 0, Light(c, now) # "green" PROVE CaughtOK(d)' /\ RedCaught(d)
  <2>1. Shows(c) = Light(c, now) /\ FacesLight(d) /\ -f \in Nat
    BY <1>2, <1>11 DEF Shows, FacesLight
  <2>2. caught'[d].front = caught[d].front /\ caught'[d].speed = caught[d].speed
        /\ caught'[d].slowed = (caught[d].slowed \/ u < v)
    BY <1>1, <1>7, <1>11, <2>1 DEF CaughtAfter, CaughtTyped
  <2>3. ASSUME MustStop(d) PROVE Goes(v, -f, h, u)
    BY <1>1, <1>3, <1>6, <1>11, <2>1, <2>3 DEF HeldBack, Goes
  <2>4. f + u <= 0 <=> u <= -f
    BY <1>2, <1>4
  <2>5. CASE CanStop(v, f, 1)
    <3>1. Stop[v][1] <= -f
      BY <2>5 DEF CanStop
    <3>2. Stop[v][2] <= -f
      BY <1>2, <1>4, <3>1
    <3>3. MustStop(d)
      BY <3>1, <3>2 DEF MustStop, StopsAt, CanStop
    <3>4. u <= -f /\ Stop[u][1] <= (-f) - u
      <4>1. -f \in Int
        BY <1>2
      <4> HIDE DEF v, u, f, h
      <4> QED BY <1>2, <1>3, <2>3, <3>1, <3>3, <4>1, StaysComfortable
    <3>5. front'[d] = f + u /\ ~(front'[d] > 0)
      BY <1>2, <1>3, <1>4, <1>11, <2>4, <3>4
    <3>6. Stop[u][1] <= -front'[d]
      BY <1>2, <1>4, <3>4, <3>5
    <3>7. CaughtOK(d)'
      BY <3>6 DEF CaughtOK, CanStop
    <3>8. RedCaught(d)
      BY <3>5 DEF RedCaught, CrossesAtRed
    <3> QED BY <3>7, <3>8
  <2>6. CASE ~CanStop(v, f, 1)
    <3>1. CaughtBy(d, 1) /\ (caught[d].slowed \/ CaughtBy(d, 2) \/ GoesOn(d))
      BY <1>1, <2>1, <2>6 DEF CaughtOK
    <3>2. CaughtBy(d, 1)' /\ (CaughtBy(d, 2) => CaughtBy(d, 2)')
      BY <2>2, <3>1 DEF CaughtBy, CanStop
    <3>3. RedCaught(d)
      <4>1. ASSUME CrossesAtRed(d), CanStop(v, f, 2) PROVE FALSE
        <5>1. MustStop(d) /\ Stop[v][2] <= -f
          BY <2>1, <4>1 DEF MustStop, CrossesAtRed, CanStop
        <5>2. u <= -f
          <6>1. -f \in Int
            BY <1>2
          <6> HIDE DEF v, u, f, h
          <6> QED BY <1>2, <1>3, <2>3, <5>1, <6>1, StopsShort
        <5>3. f + u > 0
          BY <1>3, <1>11, <4>1 DEF CrossesAtRed
        <5> QED BY <1>2, <1>4, <2>4, <5>2, <5>3
      <4>2. CrossesAtRed(d) => ~GoesOn(d)
        BY <2>1 DEF CrossesAtRed, GoesOn
      <4> QED BY <3>1, <4>1, <4>2 DEF RedCaught, CaughtBy
    <3>4. ASSUME MustStop(d) PROVE caught'[d].slowed
      <4>1. ~(Stop[v][1] <= -f)
        BY <2>6 DEF CanStop
      <4>2. u < v
        <5> HIDE DEF v, u, f, h
        <5> QED BY <1>2, <1>3, <2>1, <2>3, <3>4, <4>1, HeldSlows
      <4> QED BY <2>2, <4>2
    <3>5. ASSUME GoesOn(d), ~MustStop(d), ~(u < v), front'[d] <= 0 PROVE GoesOn(d)'
      <4>1. Light(c, now) = "amber" /\ l \in {1, 2, 3} /\ -f < v * l
        <5>1. Light(c, now) = "amber" /\ l \in {1, 2, 3} /\ ~StopsAt(d)
          BY <1>5, <3>5 DEF GoesOn, MustStop
        <5>2. -f < v * l \/ Stop[v][2] <= -f
          BY <3>5 DEF GoesOn, GetsOver, CanStop
        <5>3. ~(-f >= v * l /\ Stop[v][2] <= -f)
          BY <5>1 DEF StopsAt
        <5>4. v * l \in Int
          BY <1>4, <5>1
        <5> HIDE DEF l, v
        <5> QED BY <1>2, <5>1, <5>2, <5>3, <5>4
      <4>2. front'[d] = f + u
        BY <1>3, <1>11, <3>5
      <4>3. l # 1 /\ -(f + u) < u * (l - 1)
        <5>1. f + u <= 0 /\ u >= v
          BY <1>4, <3>5, <4>2
        <5> HIDE DEF l, v, u, f
        <5>2. CASE l = 1
          BY <1>2, <1>4, <4>1, <5>1, <5>2
        <5>3. CASE l = 2
          BY <1>2, <1>4, <4>1, <5>1, <5>3
        <5>4. CASE l = 3
          BY <1>2, <1>4, <4>1, <5>1, <5>4
        <5> QED BY <4>1, <5>2, <5>3, <5>4
      <4>4. Light(c, now') = "amber" /\ Left(c, now') = l - 1
        BY <1>5, <4>1, <4>3
      <4>5. (-front[d] < speed[d] * Left(way[d], now))'
        BY <1>6, <4>2, <4>3, <4>4
      <4> QED BY <1>6, <4>4, <4>5 DEF GoesOn, GetsOver
    <3>6. CaughtOK(d)'
      <4>1. CASE caught[d].slowed \/ CaughtBy(d, 2)
        BY <2>2, <3>2, <4>1 DEF CaughtOK
      <4>2. CASE MustStop(d) \/ u < v
        BY <2>2, <3>2, <3>4, <4>2 DEF CaughtOK
      <4>3. CASE GoesOn(d) /\ ~MustStop(d) /\ ~(u < v)
        BY <3>2, <3>5, <4>3 DEF CaughtOK, FacesLight
      <4> QED BY <3>1, <4>1, <4>2, <4>3
    <3> QED BY <3>3, <3>6
  <2> QED BY <2>5, <2>6
<1> QED BY <1>2, <1>8, <1>9, <1>10, <1>11

(* A driver decides: who must stop does not enter.                         *)
LEMMA DecideKeeps ==
  ASSUME LightsKept, NEW d \in Drivers, DecideNothing(d) \/ DecideEnter(d) \/ DecideHold(d),
         UNCHANGED <<places, now, caught>>
  PROVE  JunctionTyped' /\ \A e \in Drivers : CaughtOK(e)' /\ HeldBack(e)'
<1>1. JunctionTyped /\ InCycle /\ \A e \in Drivers : CaughtOK(e) /\ HeldBack(e)
  BY DEF LightsKept
<1>2. way' = way /\ control' = control /\ front' = front /\ speed' = speed /\ now' = now /\ caught' = caught
  BY DEF places
<1>3. deciding = d /\ deciding' = deciding + 1 /\ deciding \in Nat \ {0}
  BY <1>1 DEF Decided, DecideNothing, DecideEnter, DecideHold, JunctionTyped
<1> DEFINE v == speed[d]
           f == front[d]
           c == way[d]
<1>4. v \in 0 .. MaxSpeed /\ f \in Int /\ c \in Movement
      /\ v \in Nat /\ Stop[v][1] \in Nat /\ Stop[v][2] \in Nat
  BY <1>1, SpeedTyped DEF JunctionTyped
<1>5. Clearance(d) \in Int /\ Free \in Int
  BY <1>4, Limits DEF Clearance, Free
<1>6. PICK h \in Int : hold' = [hold EXCEPT ![d] = h] /\ (DecideHold(d) => h = -f)
  <2>1. CASE DecideNothing(d) \/ DecideEnter(d)
    <3>1. \E g \in BOOLEAN : hold' = [hold EXCEPT ![d] = IF g THEN Clearance(d) ELSE Free]
      BY <2>1 DEF DecideNothing, DecideEnter, Decision, OnConnector
    <3>2. ~DecideHold(d)
      <4>1. CASE DecideNothing(d)
        <5>1. f > 0 \/ ~Near(d)
          BY <4>1 DEF DecideNothing
        <5>2. DecideHold(d) => f <= 0 /\ Near(d)
          BY DEF DecideHold
        <5> QED BY <1>4, <5>1, <5>2
      <4>2. CASE DecideEnter(d)
        <5>1. MayEnter(d)
          BY <4>2 DEF DecideEnter
        <5> QED BY <5>1 DEF DecideHold
      <4> QED BY <2>1, <4>1, <4>2
    <3> QED BY <1>5, <3>1, <3>2
  <2>2. CASE DecideHold(d)
    <3>1. hold' = [hold EXCEPT ![d] = -f]
      BY <2>2 DEF DecideHold, Decision
    <3>2. -f \in Int
      BY <1>4
    <3> HIDE DEF f
    <3> QED BY <3>1, <3>2
  <2> QED BY <2>1, <2>2
<1>7. hold \in [Drivers -> Int]
  BY <1>1 DEF JunctionTyped
<1>8. JunctionTyped'
  BY <1>1, <1>2, <1>3, <1>6, <1>7 DEF JunctionTyped
<1>9. ASSUME NEW e \in Drivers
      PROVE  CaughtOK(e)' /\ (FacesLight(e)' <=> FacesLight(e)) /\ (MustStop(e)' <=> MustStop(e))
  BY <1>1, <1>2 DEF CaughtOK, FacesLight, CaughtBy, GoesOn, GetsOver, CanStop, MustStop, StopsAt
<1>10. ASSUME NEW e \in Drivers, e # d PROVE HeldBack(e)'
  <2>1. e \in Nat /\ d \in Nat
    BY DriverNumber
  <2>2. e < deciding' => e < deciding
    BY <1>3, <1>10, <2>1
  <2>3. hold'[e] = hold[e]
    BY <1>6, <1>7, <1>10
  <2> QED BY <1>1, <1>2, <1>9, <2>2, <2>3 DEF HeldBack
<1>11. ASSUME FacesLight(d), MustStop(d) PROVE hold'[d] = -f \/ -f > Stop[v][1] + 2 * v
  <2>1. control = "signal" /\ f <= 0 /\ Light(c, now) \in {"amber", "red"}
    <3>1. Cycle > 0 /\ now \in Int
      BY <1>1, CyclePositive
    <3>2. Light(c, now) = LightIs(Phases, PhaseOf(Phases, c), now % Cycle)[1]
      BY <1>4, <3>1, ShownIs
    <3> QED BY <1>11, <3>2 DEF LightIs, FacesLight
  <2>2. Shows(c) = Light(c, now)
    BY <2>1 DEF Shows
  <2>3. ~MayEnter(d)
    <3>1. CASE Light(c, now) = "amber"
      BY <1>11, <2>2, <3>1 DEF MayEnter, MustStop
    <3>2. CASE Light(c, now) = "red"
      <4>1. Stop[v][2] <= -f
        BY <1>11, <3>2 DEF MustStop, CanStop
      <4>2. ~(Stop[v][2] > -f)
        BY <1>4, <4>1
      <4> QED BY <2>2, <3>2, <4>2 DEF MayEnter
    <3> QED BY <2>1, <3>1, <3>2
  <2>4. CASE DecideNothing(d)
    <3>1. -f > Max({DecideFrom, Stop[v][1] + 2 * v})
      <4>1. ~(f > 0)
        BY <1>4, <2>1
      <4>2. ~(-f <= Max({DecideFrom, Stop[v][1] + 2 * v}))
        BY <2>4, <4>1 DEF DecideNothing, Near
      <4>3. Max({DecideFrom, Stop[v][1] + 2 * v}) \in Int
        <5> HIDE DEF v
        <5>1. DecideFrom \in Int /\ Stop[v][1] + 2 * v \in Int
          BY <1>4, Limits
        <5> QED BY <5>1, MaxOfTwo
      <4> QED BY <1>4, <4>2, <4>3
    <3> HIDE DEF v, f
    <3>2. DecideFrom \in Int /\ Stop[v][1] + 2 * v \in Int
      BY <1>4, Limits
    <3>3. Max({DecideFrom, Stop[v][1] + 2 * v}) \in Int /\ Max({DecideFrom, Stop[v][1] + 2 * v}) >= Stop[v][1] + 2 * v
      BY <3>2, MaxOfTwo
    <3>4. -f > Stop[v][1] + 2 * v
      BY <1>4, <3>1, <3>2, <3>3
    <3> QED BY <3>4
  <2>5. CASE DecideHold(d)
    BY <1>6, <1>7, <2>5
  <2> QED BY <2>3, <2>4, <2>5 DEF DecideEnter
<1>12. HeldBack(d)'
  BY <1>2, <1>9, <1>11 DEF HeldBack
<1> QED BY <1>8, <1>9, <1>10, <1>12

LEMMA LightsKeptInit == ASSUME LightsInit PROVE LightsKept
<1>1. /\ speed = [d \in Drivers |-> 0] /\ hold = [d \in Drivers |-> Free]
      /\ deciding = 1 /\ InCycle /\ caught = [d \in Drivers |-> [front |-> front[d], speed |-> 0, slowed |-> FALSE]]
  BY DEF LightsInit, JunctionInit, SignalsInit, InCycle
<1>2. way \in [Drivers -> Movement] /\ front \in [Drivers -> Int] /\ 0 \in 0 .. MaxSpeed
  <2>1. PICK s \in Scenes : way = s.way /\ front = s.front
    BY DEF LightsInit, JunctionInit
  <2> QED BY <2>1, Limits, JunctionAssumption
<1>3. JunctionTyped
  BY <1>1, <1>2 DEF JunctionTyped, Free
<1>4. CaughtTyped
  BY <1>1, <1>2 DEF CaughtTyped
<1>5. ASSUME NEW d \in Drivers PROVE CaughtOK(d) /\ HeldBack(d)
  <2>1. speed[d] = 0 /\ front[d] \in Int /\ Stop[0][1] = 0
    BY <1>1, <1>2, <1>3, StopTakes DEF JunctionTyped
  <2>2. front[d] <= 0 => CanStop(speed[d], front[d], 1)
    BY <2>1 DEF CanStop
  <2>3. ~(d < deciding)
    BY <1>1, DriverNumber
  <2> QED BY <2>2, <2>3 DEF CaughtOK, FacesLight, HeldBack
<1> QED BY <1>1, <1>3, <1>4, <1>5 DEF LightsKept

NobodyElse == \A d \in Drivers : RedCaught(d)

LEMMA LightsKeptStep == ASSUME LightsKept, [LightsNext]_lightsVars PROVE LightsKept' /\ [NobodyElse]_lightsVars
<1>1. JunctionTyped /\ CaughtTyped /\ InCycle
  BY DEF LightsKept
<1>2. CASE Move /\ Tick /\ caught' = [d \in Drivers |-> CaughtAfter(d)]
  <2>1. InCycle'
    BY <1>1, <1>2, TickInCycle
  <2>2. \A d \in Drivers : CaughtOK(d)' /\ RedCaught(d)
    BY <1>2, MoveKeeps
  <2>3. deciding' = 1 /\ way' = way /\ hold' = hold
    BY <1>2 DEF Move
  <2>4. \A d \in Drivers : front'[d] \in Int /\ speed'[d] \in 0 .. MaxSpeed
    BY <1>1, <1>2, MoveTakes
  <2>5. front' \in [Drivers -> Int] /\ speed' \in [Drivers -> 0 .. MaxSpeed]
    <3>1. front' = [d \in Drivers |-> front'[d]] /\ speed' = [d \in Drivers |-> speed'[d]]
      BY <1>2 DEF Move
    <3> QED BY <2>4, <3>1
  <2>6. JunctionTyped'
    BY <1>1, <2>3, <2>5 DEF JunctionTyped
  <2>7. CaughtTyped'
    <3>1. ASSUME NEW d \in Drivers PROVE CaughtAfter(d) \in [front : Int, speed : 0 .. MaxSpeed, slowed : BOOLEAN]
      BY <1>1, <2>4 DEF CaughtAfter, CaughtTyped
    <3> QED BY <1>2, <3>1 DEF CaughtTyped
  <2>8. \A d \in Drivers : HeldBack(d)'
    <3>1. \A d \in Drivers : ~(d < deciding')
      BY <2>3, DriverNumber
    <3> QED BY <3>1 DEF HeldBack
  <2> QED BY <2>1, <2>2, <2>6, <2>7, <2>8 DEF LightsKept, NobodyElse
<1>3. CASE DecideInOrder /\ UNCHANGED <<places, full, holds, now, caught>>
  <2>1. UNCHANGED <<places, now, caught>> /\ front' = front
    BY <1>3 DEF places
  <2>2. PICK d \in Drivers : DecideNothing(d) \/ DecideEnter(d) \/ DecideHold(d)
    BY <1>3 DEF DecideInOrder
  <2>3. JunctionTyped' /\ \A e \in Drivers : CaughtOK(e)' /\ HeldBack(e)'
    BY <2>1, <2>2, DecideKeeps
  <2>4. InCycle' /\ CaughtTyped'
    BY <1>1, <2>1 DEF InCycle, CaughtTyped
  <2>5. NobodyElse
    <3>1. ASSUME NEW e \in Drivers PROVE ~CrossesAtRed(e)
      <4>1. front[e] \in Int /\ front'[e] = front[e]
        BY <1>1, <2>1 DEF JunctionTyped
      <4> QED BY <4>1 DEF CrossesAtRed
    <3> QED BY <3>1 DEF NobodyElse, RedCaught
  <2> QED BY <2>3, <2>4, <2>5 DEF LightsKept
<1>4. CASE UNCHANGED lightsVars
  <2>1. UNCHANGED <<now, way, control, front, speed, hold, deciding, caught>>
    BY <1>4 DEF lightsVars, junctionVars, places
  <2>2. InCycle' /\ JunctionTyped' /\ CaughtTyped'
    BY <1>1, <2>1 DEF InCycle, JunctionTyped, CaughtTyped
  <2>3. ASSUME NEW d \in Drivers PROVE CaughtOK(d)' /\ HeldBack(d)'
    BY <2>1 DEF LightsKept, CaughtOK, HeldBack, FacesLight, CaughtBy, GoesOn, GetsOver, CanStop, MustStop, StopsAt
  <2> QED BY <1>4, <2>2, <2>3 DEF LightsKept
<1> QED BY <1>2, <1>3, <1>4 DEF LightsNext

(* Where the drivers are followed; elsewhere they stand.                   *)
DriversKept == JunctionTyped /\ (followed = "drivers" => LightsKept)

LEMMA DriversKeptStep == ASSUME DriversKept, [Next]_vars PROVE DriversKept' /\ [NobodyElse]_lightsVars
<1>1. CASE followed = "drivers"
  <2>1. [LightsNext]_lightsVars
    BY <1>1 DEF Next, Drives, Walks, Traffic, Changing, Serving, Trains, vars, streetVars, lightsVars
  <2> QED BY <1>1, <2>1, LightsKeptStep DEF DriversKept, LightsKept
<1>2. CASE followed # "drivers"
  <2>1. UNCHANGED <<junctionVars, followed>>
    BY <1>2 DEF Next, Drives, Walks, Traffic, Changing, Serving, Trains, vars, streetVars, trafficVars
  <2>2. UNCHANGED <<way, front, speed, hold, deciding>>
    BY <2>1 DEF junctionVars, places
  <2>3. ASSUME NEW d \in Drivers PROVE ~CrossesAtRed(d)
    <3>1. front[d] \in Int /\ front'[d] = front[d]
      BY <2>2 DEF DriversKept, JunctionTyped
    <3> QED BY <3>1 DEF CrossesAtRed
  <2>4. NobodyElse
    BY <2>3 DEF NobodyElse, RedCaught
  <2> QED BY <1>2, <2>1, <2>2, <2>4 DEF DriversKept, JunctionTyped
<1> QED BY <1>1, <1>2

(* For any junction, signals, drivers and speeds, whoever is held up and   *)
(* when: at red the line is only crossed by who cannot stop, was caught by *)
(* amber too near to stop comfortably, and either too near to stop at all  *)
(* or has had to slow since.                                               *)
THEOREM RedOnlyIfCaughtAlways == Spec => RedOnlyIfCaught
<1>1. Init => DriversKept
  BY LightsKeptInit DEF Init, DriversKept, LightsKept
<1>2. DriversKept /\ [Next]_vars => DriversKept' /\ [NobodyElse]_lightsVars
  BY DriversKeptStep
<1>3. NobodyElse => \A d \in Drivers : CrossesAtRed(d) =>
        /\ ~CanStop(speed[d], front[d], 2)
        /\ ~CanStop(caught[d].speed, caught[d].front, 1)
        /\ CanStop(caught[d].speed, caught[d].front, 2) => caught[d].slowed
  BY DEF NobodyElse, RedCaught, CaughtBy
<1> QED BY <1>1, <1>2, <1>3, PTL DEF Spec, RedOnlyIfCaught
=============================================================================
