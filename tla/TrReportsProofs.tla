---------------------------- MODULE TrReportsProofs ----------------------------
(***************************************************************************)
(* TrReports proved for every stream, every timeout that is not below the  *)
(* lower limit, every size of the two lists and any number of jumps of the *)
(* PCR: the counts shown are the sections that were too far apart or too   *)
(* close, and the runs of present/following that were incomplete; the      *)
(* parts of a brief add up to its count, and a replay lists what was       *)
(* counted.                                                                *)
(*                                                                         *)
(* Two properties speak of folds, whose values only an induction over the  *)
(* messages or the tables gives: ReplayAppend and SumGrows.  IInv has five *)
(* parts; what a report does to the views is proved of any views           *)
(* (ReportedKeeps) and used for the three reports of a section in a row.   *)
(***************************************************************************)
EXTENDS TrReports, FiniteSetTheorems, WellFoundedInduction, TLAPS

(* Induction over the natural numbers: a least number that is not in T has a
   predecessor that is. *)
LEMMA Least ==
  ASSUME NEW S, S \subseteq Nat, S # {}
  PROVE  \E x \in S : \A y \in S : x <= y
<1>1. PICK x \in S : \A y \in S : ~ (<<y, x>> \in OpToRel(<, Nat))
  BY NatLessThanWellFounded, WFMin
<1>2. ASSUME NEW y \in S PROVE x <= y
  <2>1. <<y, x>> \in Nat \X Nat /\ <<y, x>>[1] = y /\ <<y, x>>[2] = x
    OBVIOUS
  <2>2. ~ (y < x)
    BY <1>1, <2>1 DEF OpToRel
  <2> QED BY <2>2
<1> QED BY <1>1, <1>2

LEMMA ByStep ==
  ASSUME NEW T, 0 \in T, \A n \in Nat : n \in T => n + 1 \in T
  PROVE  \A n \in Nat : n \in T
<1> SUFFICES ASSUME Nat \ T # {} PROVE FALSE
  OBVIOUS
<1>1. PICK n \in Nat \ T : \A k \in Nat \ T : n <= k
  <2> DEFINE S == Nat \ T
  <2>1. S \subseteq Nat /\ S # {}
    OBVIOUS
  <2> HIDE DEF S
  <2>2. \E x \in S : \A y \in S : x <= y
    BY <2>1, Least
  <2> QED BY <2>2 DEF S
<1>2. n # 0 /\ n - 1 \in Nat /\ ~ (n <= n - 1)
  OBVIOUS
<1>3. n - 1 \in T
  BY <1>1, <1>2
<1>4. (n - 1) + 1 \in T /\ (n - 1) + 1 = n
  BY <1>2, <1>3
<1> QED BY <1>4

-----------------------------------------------------------------------------
(* Replaying a list of messages.  FoldLeft applies PlayBackMsg along the set of
   the indices, from a function on the subsets of it, Iter; there is one for
   every length, and two agree where their sequences do. *)

LEMMA LastOf ==
  ASSUME NEW n \in Nat, NEW t \in SUBSET (1 .. n + 1), n + 1 \in t
  PROVE  Max(t) = n + 1 /\ t \ {n + 1} \in SUBSET (1 .. n)
<1>1. \A y \in t : y \in Int /\ n + 1 >= y
  OBVIOUS
<1>2. \A x \in t : (\A y \in t : x >= y) => x = n + 1
  BY <1>1
<1>3. Max(t) = n + 1
  BY <1>1, <1>2 DEF Max
<1> QED BY <1>3

Replay(type, s) == FoldLeft(LAMBDA list, m : PlayBackMsg(type, list, m), <<>>, s)

Iter(f, type, s, n) ==
  f = [t \in SUBSET (1 .. n) |-> IF t = {} THEN <<>> ELSE PlayBackMsg(type, f[t \ {Max(t)}], s[Max(t)])]

LEMMA IterExists ==
  ASSUME NEW type, NEW s
  PROVE  \A n \in Nat : \E f : Iter(f, type, s, n)
<1> DEFINE T == {n \in Nat : \E f : Iter(f, type, s, n)}
<1>1. 0 \in T
  <2> DEFINE f == [t \in SUBSET (1 .. 0) |-> <<>>]
  <2>1. f = [t \in SUBSET (1 .. 0) |-> IF t = {} THEN <<>> ELSE PlayBackMsg(type, f[t \ {Max(t)}], s[Max(t)])]
    <3>1. \A t \in SUBSET (1 .. 0) : t = {}
      OBVIOUS
    <3> QED BY <3>1
  <2> QED BY <2>1 DEF Iter
<1>2. ASSUME NEW n \in Nat, n \in T PROVE n + 1 \in T
  <2>1. PICK f : Iter(f, type, s, n)
    BY <1>2
  <2> DEFINE g == [t \in SUBSET (1 .. n + 1) |->
                     IF n + 1 \in t THEN PlayBackMsg(type, f[t \ {n + 1}], s[n + 1]) ELSE f[t]]
             h == [t \in SUBSET (1 .. n + 1) |->
                     IF t = {} THEN <<>> ELSE PlayBackMsg(type, g[t \ {Max(t)}], s[Max(t)])]
  <2>2. ASSUME NEW t \in SUBSET (1 .. n + 1) PROVE g[t] = h[t]
    <3>1. CASE n + 1 \in t
      <4>1. Max(t) = n + 1 /\ t \ {n + 1} \in SUBSET (1 .. n) /\ t # {}
        BY <3>1, LastOf
      <4>2. t \ {n + 1} \in SUBSET (1 .. n + 1)
        OBVIOUS
      <4>3. g[t \ {n + 1}] = f[t \ {n + 1}]
        BY <4>2
      <4> QED BY <3>1, <4>1, <4>3
    <3>2. CASE n + 1 \notin t
      <4>0. t \in SUBSET (1 .. n)
        <5>1. \A i \in t : i \in 1 .. n + 1 /\ i # n + 1
          BY <3>2
        <5>2. \A i \in t : i \in 1 .. n
          BY <5>1
        <5> QED BY <5>2
      <4>1. t \ {Max(t)} \in SUBSET (1 .. n + 1) /\ n + 1 \notin t \ {Max(t)}
        BY <3>2
      <4>2. g[t \ {Max(t)}] = f[t \ {Max(t)}] /\ g[t] = f[t]
        BY <3>2, <4>0, <4>1
      <4>3. f[t] = IF t = {} THEN <<>> ELSE PlayBackMsg(type, f[t \ {Max(t)}], s[Max(t)])
        BY <2>1, <4>0 DEF Iter
      <4> QED BY <4>2, <4>3
    <3> QED BY <3>1, <3>2
  <2>3. g = h
    BY <2>2
  <2>4. Iter(g, type, s, n + 1)
    BY <2>3 DEF Iter
  <2> QED BY <2>4
<1> HIDE DEF T
<1>3. \A n \in Nat : n \in T
  BY <1>1, <1>2, ByStep
<1> QED BY <1>3 DEF T

Agree(s, r, n) == \A i \in 1 .. n : s[i] = r[i]

LEMMA IterSame ==
  ASSUME NEW type, NEW s, NEW r, NEW n \in Nat,
         Agree(s, r, n),
         NEW f, Iter(f, type, s, n), NEW g, Iter(g, type, r, n + 1)
  PROVE  \A t \in SUBSET (1 .. n) : f[t] = g[t]
<1> DEFINE T == {i \in Nat : i <= n => \A t \in SUBSET (1 .. i) : f[t] = g[t]}
<1>0. /\ \A t \in SUBSET (1 .. n) : f[t] = IF t = {} THEN <<>> ELSE PlayBackMsg(type, f[t \ {Max(t)}], s[Max(t)])
      /\ \A t \in SUBSET (1 .. n + 1) : g[t] = IF t = {} THEN <<>> ELSE PlayBackMsg(type, g[t \ {Max(t)}], r[Max(t)])
  BY DEF Iter
<1>1. 0 \in T
  <2>1. f[{}] = <<>> /\ g[{}] = <<>>
    BY <1>0
  <2>2. \A t \in SUBSET (1 .. 0) : t = {}
    OBVIOUS
  <2> QED BY <2>1, <2>2
<1>2. ASSUME NEW i \in Nat, i \in T PROVE i + 1 \in T
  <2>1. ASSUME i + 1 <= n, NEW t \in SUBSET (1 .. i + 1), i + 1 \in t PROVE f[t] = g[t]
    <3>1. Max(t) = i + 1 /\ t \ {i + 1} \in SUBSET (1 .. i)
      BY <2>1, LastOf
    <3>2. f[t \ {i + 1}] = g[t \ {i + 1}]
      BY <1>2, <2>1, <3>1
    <3>3. /\ t \in SUBSET (1 .. n) /\ t \in SUBSET (1 .. n + 1) /\ t # {}
          /\ s[i + 1] = r[i + 1]
      BY <2>1 DEF Agree
    <3> QED BY <1>0, <3>1, <3>2, <3>3
  <2>2. ASSUME i + 1 <= n, NEW t \in SUBSET (1 .. i + 1), i + 1 \notin t PROVE f[t] = g[t]
    <3>1. \A j \in t : j \in 1 .. i + 1 /\ j # i + 1
      BY <2>2
    <3>2. \A j \in t : j \in 1 .. i
      BY <3>1
    <3> QED BY <1>2, <2>2, <3>2
  <2>3. i + 1 <= n => \A t \in SUBSET (1 .. i + 1) : f[t] = g[t]
    BY <2>1, <2>2
  <2> QED BY <2>3
<1> HIDE DEF T
<1>3. \A i \in Nat : i \in T
  BY <1>1, <1>2, ByStep
<1> QED BY <1>3 DEF T

(* What FoldLeft chooses is such a function. *)
LEMMA ReplayIsIter ==
  ASSUME NEW type, NEW S, NEW s \in Seq(S)
  PROVE  \E f : Iter(f, type, s, Len(s)) /\ Replay(type, s) = f[1 .. Len(s)]
<1> DEFINE f == CHOOSE f : Iter(f, type, s, Len(s))
<1>1. DOMAIN s = 1 .. Len(s) /\ Len(s) \in Nat
  OBVIOUS
<1>2. Iter(f, type, s, Len(s))
  BY <1>1, IterExists
<1>3. Replay(type, s) = f[1 .. Len(s)]
  BY <1>1 DEF Replay, FoldLeft, MapThenFoldSet, Iter
<1> QED BY <1>2, <1>3

LEMMA ReplayEmpty ==
  ASSUME NEW type
  PROVE  Replay(type, <<>>) = <<>>
<1>1. PICK f : Iter(f, type, <<>>, Len(<<>>)) /\ Replay(type, <<>>) = f[1 .. Len(<<>>)]
  <2>1. <<>> \in Seq({})
    OBVIOUS
  <2> QED BY <2>1, ReplayIsIter
<1>2. Len(<<>>) = 0 /\ 1 .. 0 = {}
  OBVIOUS
<1> QED BY <1>1, <1>2 DEF Iter

(* A message that is added to the list is replayed last. *)
LEMMA ReplayAppend ==
  ASSUME NEW type, NEW S, NEW s \in Seq(S), NEW m \in S
  PROVE  Replay(type, Append(s, m)) = PlayBackMsg(type, Replay(type, s), m)
<1> DEFINE r == Append(s, m)
           n == Len(s)
<1>1. r \in Seq(S) /\ Len(r) = n + 1 /\ n \in Nat /\ r[n + 1] = m /\ \A i \in 1 .. n : s[i] = r[i]
  OBVIOUS
<1> HIDE DEF r, n
<1>2. PICK f : Iter(f, type, s, n) /\ Replay(type, s) = f[1 .. n]
  BY ReplayIsIter DEF n
<1>3. PICK g : Iter(g, type, r, n + 1) /\ Replay(type, r) = g[1 .. n + 1]
  <2>1. \E g : Iter(g, type, r, Len(r)) /\ Replay(type, r) = g[1 .. Len(r)]
    BY <1>1, ReplayIsIter
  <2> QED BY <1>1, <2>1
<1>4. f[1 .. n] = g[1 .. n]
  <2>1. n <= n + 1 /\ n + 1 \in Nat /\ 1 .. n \in SUBSET (1 .. n)
    BY <1>1
  <2>2. \A t \in SUBSET (1 .. n) : f[t] = g[t]
    <3>1. n \in Nat /\ Agree(s, r, n)
      BY <1>1 DEF Agree
    <3>2. Iter(f, type, s, n) /\ Iter(g, type, r, n + 1)
      BY <1>2, <1>3
    <3> QED BY <3>1, <3>2, IterSame
  <2> QED BY <2>1, <2>2
<1>5. /\ 1 .. n + 1 \in SUBSET (1 .. n + 1) /\ n + 1 \in 1 .. n + 1
      /\ (1 .. n + 1) \ {n + 1} = 1 .. n /\ 1 .. n + 1 # {}
  BY <1>1
<1>6. Max(1 .. n + 1) = n + 1
  BY <1>1, <1>5, LastOf
<1>7. g[1 .. n + 1] = PlayBackMsg(type, g[(1 .. n + 1) \ {n + 1}], r[n + 1])
  BY <1>3, <1>5, <1>6 DEF Iter
<1> QED BY <1>1, <1>2, <1>3, <1>4, <1>5, <1>7 DEF r

-----------------------------------------------------------------------------
(* Sums.  FoldSet takes the elements of the set one by one, as Some chooses. *)

Some(s) == CHOOSE x \in s : TRUE

SumIter(F, f, S) ==
  \A s \in SUBSET S : F[s] = IF s = {} THEN 0 ELSE f[Some(s)] + F[s \ {Some(s)}]

Smaller(S, n) == {s \in SUBSET S : Cardinality(s) <= n}

SumUpTo(F, f, S, n) ==
  F = [s \in Smaller(S, n) |->
         IF s = {} THEN 0 ELSE f[Some(s)] + F[s \ {Some(s)}]]

(* Without the element chosen, a set is smaller by one. *)
LEMMA Removed ==
  ASSUME NEW S, IsFiniteSet(S), NEW s \in SUBSET S, s # {}
  PROVE  LET x == Some(s) IN
         x \in s /\ s \ {x} \in SUBSET S /\ Cardinality(s \ {x}) = Cardinality(s) - 1
         /\ Cardinality(s) \in Nat
<1> DEFINE x == Some(s)
<1>1. x \in s
  BY DEF Some
<1> HIDE DEF x
<1>2. IsFiniteSet(s)
  BY FS_Subset
<1>3. Cardinality(s \ {x}) = Cardinality(s) - 1
  BY <1>1, <1>2, FS_RemoveElement
<1>4. Cardinality(s) \in Nat
  BY <1>2, FS_CardinalityType
<1>5. s \ {x} \in SUBSET S
  OBVIOUS
<1> QED BY <1>1, <1>3, <1>4, <1>5 DEF x

(* There is a function of the subsets that has this recursion. *)
LEMMA SumExists ==
  ASSUME NEW f, NEW S, IsFiniteSet(S)
  PROVE  \A n \in Nat : \E F : SumUpTo(F, f, S, n)
<1> DEFINE T == {n \in Nat : \E F : SumUpTo(F, f, S, n)}
<1>0. \A s \in SUBSET S : Cardinality(s) \in Nat /\ (Cardinality(s) = 0 <=> s = {})
  <2> TAKE s \in SUBSET S
  <2>1. IsFiniteSet(s)
    BY FS_Subset
  <2> QED BY <2>1, FS_CardinalityType, FS_EmptySet
<1>a. \A s \in SUBSET S : s # {} =>
        s \ {Some(s)} \in SUBSET S /\ Cardinality(s \ {Some(s)}) = Cardinality(s) - 1
  BY Removed
<1>1. 0 \in T
  <2> DEFINE F == [s \in Smaller(S, 0) |-> 0]
  <2>1. \A s \in Smaller(S, 0) : s = {}
    BY <1>0 DEF Smaller
  <2>2. F = [s \in Smaller(S, 0) |-> IF s = {} THEN 0 ELSE f[Some(s)] + F[s \ {Some(s)}]]
    BY <2>1
  <2> QED BY <2>2 DEF SumUpTo
<1>2. ASSUME NEW n \in Nat, n \in T PROVE n + 1 \in T
  <2>1. PICK F : F = [s \in Smaller(S, n) |-> IF s = {} THEN 0 ELSE f[Some(s)] + F[s \ {Some(s)}]]
    BY <1>2 DEF SumUpTo
  <2> DEFINE G == [s \in Smaller(S, n + 1) |->
                     IF Cardinality(s) = n + 1 THEN f[Some(s)] + F[s \ {Some(s)}] ELSE F[s]]
             H == [s \in Smaller(S, n + 1) |-> IF s = {} THEN 0 ELSE f[Some(s)] + G[s \ {Some(s)}]]
  <2>2. ASSUME NEW s \in Smaller(S, n + 1) PROVE G[s] = H[s]
    <3>0. s \in SUBSET S /\ Cardinality(s) \in Nat /\ Cardinality(s) <= n + 1
      BY <1>0 DEF Smaller
    <3>1. CASE s = {}
      <4>1. Cardinality(s) = 0 /\ s \in Smaller(S, n)
        BY <1>0, <3>0, <3>1 DEF Smaller
      <4>2. F[s] = 0
        BY <2>1, <3>1, <4>1
      <4> QED BY <3>1, <4>1, <4>2
    <3>2. CASE s # {}
      <4>1. /\ s \ {Some(s)} \in SUBSET S
            /\ Cardinality(s \ {Some(s)}) = Cardinality(s) - 1
            /\ Cardinality(s \ {Some(s)}) \in Nat
        BY <1>0, <1>a, <3>0, <3>2
      <4>2. s \ {Some(s)} \in Smaller(S, n + 1) /\ Cardinality(s \ {Some(s)}) # n + 1
        BY <3>0, <4>1 DEF Smaller
      <4>3. G[s \ {Some(s)}] = F[s \ {Some(s)}]
        BY <4>2
      <4>4. CASE Cardinality(s) = n + 1
        BY <3>2, <4>3, <4>4
      <4>5. CASE Cardinality(s) # n + 1
        <5>1. s \in Smaller(S, n)
          BY <3>0, <4>5 DEF Smaller
        <5> QED BY <2>1, <3>2, <4>3, <4>5, <5>1
      <4> QED BY <4>4, <4>5
    <3> QED BY <3>1, <3>2
  <2>3. G = H
    BY <2>2
  <2>4. SumUpTo(G, f, S, n + 1)
    BY <2>3 DEF SumUpTo
  <2> QED BY <2>4
<1> HIDE DEF T
<1>3. \A n \in Nat : n \in T
  BY <1>1, <1>2, ByStep
<1> QED BY <1>3 DEF T

(* What FoldSet chooses is such a function. *)
LEMMA SumIsIter ==
  ASSUME NEW f, NEW S, IsFiniteSet(S)
  PROVE  \E F : SumIter(F, f, S) /\ Sum(f, S) = F[S]
<1> DEFINE Eq(F) == F = [s \in SUBSET S |-> IF s = {} THEN 0 ELSE f[Some(s)] + F[s \ {Some(s)}]]
           F == CHOOSE F : Eq(F)
<1>1. Smaller(S, Cardinality(S)) = SUBSET S
  <2>1. \A s \in SUBSET S : Cardinality(s) <= Cardinality(S)
    BY FS_Subset
  <2> QED BY <2>1 DEF Smaller
<1>2. \E G : Eq(G)
  <2>1. \E G : SumUpTo(G, f, S, Cardinality(S))
    BY SumExists, FS_CardinalityType
  <2> QED BY <1>1, <2>1 DEF SumUpTo
<1>3. Eq(F)
  BY <1>2
<1>4. Sum(f, S) = F[S]
  BY DEF Sum, FoldSet, MapThenFoldSet, Some
<1> HIDE DEF F
<1> QED BY <1>3, <1>4 DEF SumIter

OneMore(f, g, x, S) == \A t \in S : f[t] \in Nat /\ g[t] = f[t] + (IF t = x THEN 1 ELSE 0)
AllZero(f, S) == \A t \in S : f[t] = 0

LEMMA SumOfBoth ==
  ASSUME NEW S, IsFiniteSet(S), NEW f, NEW g, NEW x, OneMore(f, g, x, S)
  PROVE  /\ Sum(f, S) \in Nat /\ Sum(g, S) = Sum(f, S) + (IF x \in S THEN 1 ELSE 0)
         /\ AllZero(f, S) => Sum(f, S) = 0
<1>1. PICK F : SumIter(F, f, S) /\ Sum(f, S) = F[S]
  BY SumIsIter
<1>2. PICK G : SumIter(G, g, S) /\ Sum(g, S) = G[S]
  BY SumIsIter
<1>3. \A s \in SUBSET S : s # {} =>
        /\ Some(s) \in s /\ s \ {Some(s)} \in SUBSET S
        /\ Cardinality(s \ {Some(s)}) = Cardinality(s) - 1
        /\ Cardinality(s) \in Nat
  BY Removed
<1>4. \A s \in SUBSET S : IsFiniteSet(s) /\ Cardinality(s) \in Nat /\ (Cardinality(s) = 0 => s = {})
  <2> TAKE s \in SUBSET S
  <2>1. IsFiniteSet(s)
    BY FS_Subset
  <2> QED BY <2>1, FS_CardinalityType, FS_EmptySet
<1> DEFINE None == AllZero(f, S)
           Grows(s) == /\ F[s] \in Nat /\ G[s] = F[s] + (IF x \in s THEN 1 ELSE 0)
                       /\ None => F[s] = 0
           T == {n \in Nat : \A s \in SUBSET S : Cardinality(s) <= n => Grows(s)}
<1>5. Grows({})
  <2>1. {} \in SUBSET S
    OBVIOUS
  <2>2. F[{}] = 0 /\ G[{}] = 0
    BY <1>1, <1>2, <2>1 DEF SumIter
  <2> QED BY <2>2
<1>6. 0 \in T
  <2>1. \A s \in SUBSET S : Cardinality(s) <= 0 => s = {}
    BY <1>4
  <2>2. \A s \in SUBSET S : Cardinality(s) <= 0 => Grows(s)
    <3> HIDE DEF Grows
    <3> QED BY <1>5, <2>1
  <2> QED BY <2>2
<1>7. ASSUME NEW n \in Nat, n \in T PROVE n + 1 \in T
  <2> SUFFICES ASSUME NEW s \in SUBSET S, Cardinality(s) <= n + 1 PROVE Grows(s)
    BY DEF T
  <2>1. CASE s = {}
    BY <1>5, <2>1
  <2>2. CASE s # {}
    <3> DEFINE y == Some(s)
               r == s \ {y}
    <3>1. y \in s /\ r \in SUBSET S /\ Cardinality(r) <= n
      BY <1>3, <2>2
    <3>2. F[r] \in Nat /\ G[r] = F[r] + (IF x \in r THEN 1 ELSE 0) /\ (None => F[r] = 0)
      BY <1>7, <3>1
    <3>3. F[s] = f[y] + F[r] /\ G[s] = g[y] + G[r]
      BY <1>1, <1>2, <2>2 DEF SumIter
    <3>4. f[y] \in Nat /\ g[y] = f[y] + (IF y = x THEN 1 ELSE 0) /\ (None => f[y] = 0)
      BY <3>1 DEF OneMore, AllZero
    <3>5. x \in s <=> x \in r \/ y = x
      BY <3>1
    <3>6. ~ (x \in r /\ y = x)
      OBVIOUS
    <3> HIDE DEF y, r, None
    <3> QED BY <3>2, <3>3, <3>4, <3>5, <3>6
  <2> QED BY <2>1, <2>2
<1> HIDE DEF T
<1>8. Cardinality(S) \in T
  <2>1. \A n \in Nat : n \in T
    BY <1>6, <1>7, ByStep
  <2> QED BY <1>4, <2>1
<1>9. Grows(S)
  <2>1. S \in SUBSET S /\ Cardinality(S) <= Cardinality(S)
    BY <1>4
  <2> QED BY <1>8, <2>1 DEF T
<1> QED BY <1>1, <1>2, <1>9

(* Where every term stays, but one that grows by one, so does the sum. *)
LEMMA SumGrows ==
  ASSUME NEW S, IsFiniteSet(S), NEW f, NEW g, NEW x,
         \A t \in S : f[t] \in Nat /\ g[t] = f[t] + (IF t = x THEN 1 ELSE 0)
  PROVE  Sum(f, S) \in Nat /\ Sum(g, S) = Sum(f, S) + (IF x \in S THEN 1 ELSE 0)
<1>1. OneMore(f, g, x, S)
  BY DEF OneMore
<1> QED BY <1>1, SumOfBoth

LEMMA SumZero ==
  ASSUME NEW S, IsFiniteSet(S), NEW f, \A t \in S : f[t] = 0
  PROVE  Sum(f, S) = 0
<1> DEFINE g == [t \in S |-> IF t = 0 THEN 1 ELSE 0]
<1>1. OneMore(f, g, 0, S) /\ AllZero(f, S)
  BY DEF OneMore, AllZero
<1> HIDE DEF g
<1>2. AllZero(f, S) => Sum(f, S) = 0
  BY <1>1, SumOfBoth
<1> QED BY <1>1, <1>2

-----------------------------------------------------------------------------
(* The reports there are, and the counters they are counted by *)

Messages ==
  {m \in [kind : {"interval", "tid", "crc", "pf", "pcr"}, table : Tables \cup {"none"},
          llVal : Int, fVal : BOOLEAN] :
     /\ m.kind = "tid" => m.table \in OwnType
     /\ m.kind \in {"interval", "crc"} => m.table \in Tables}

BagsOf(U) == UNION {[D -> Nat \ {0}] : D \in SUBSET U}

(* Counting the members of a set once more. *)
LEMMA Adding ==
  ASSUME NEW U, NEW B \in BagsOf(U), NEW S \in SUBSET U
  PROVE  /\ B (+) SetToBag(S) \in BagsOf(U)
         /\ \A e : /\ Copies(e, B) \in Nat
                   /\ Copies(e, B (+) SetToBag(S)) = Copies(e, B) + (IF e \in S THEN 1 ELSE 0)
<1>0. PICK D \in SUBSET U : B \in [D -> Nat \ {0}]
  BY DEF BagsOf
<1>1. B (+) SetToBag(S) = [e \in D \cup S |-> (IF e \in D THEN B[e] ELSE 0) + (IF e \in S THEN 1 ELSE 0)]
  BY <1>0 DEF (+), SetToBag
<1>2. B (+) SetToBag(S) \in [D \cup S -> Nat \ {0}] /\ D \cup S \in SUBSET U
  BY <1>0, <1>1
<1>3. B (+) SetToBag(S) \in BagsOf(U)
  BY <1>2 DEF BagsOf
<1>4. ASSUME NEW e PROVE /\ Copies(e, B) \in Nat
                         /\ Copies(e, B (+) SetToBag(S)) = Copies(e, B) + (IF e \in S THEN 1 ELSE 0)
  BY <1>0, <1>1 DEF Copies, BagIn, BagToSet
<1> QED BY <1>3, <1>4

LEMMA Copied ==
  ASSUME NEW U, NEW B \in BagsOf(U)
  PROVE  \A e : Copies(e, B) \in Nat
<1>0. PICK D \in SUBSET U : B \in [D -> Nat \ {0}]
  BY DEF BagsOf
<1> QED BY <1>0 DEF Copies, BagIn, BagToSet

LEMMA TablesFinite == IsFiniteSet(Si) /\ IsFiniteSet(Tables)
<1>1. \A x, y : IsFiniteSet({x, y})
  <2> TAKE x, y
  <2>1. IsFiniteSet({x}) /\ {x, y} = {x} \cup {y}
    BY FS_Singleton
  <2> QED BY <2>1, FS_AddElement
<1>2. \A x, y, z : IsFiniteSet({x, y, z})
  <2> TAKE x, y, z
  <2>1. IsFiniteSet({x, y}) /\ {x, y, z} = {x, y} \cup {z}
    BY <1>1
  <2> QED BY <2>1, FS_AddElement
<1>3. OwnType = {"nit_act", "nit_other"} \cup {"sdt_act", "sdt_other"} \cup {"eit_act_pf", "eit_other_pf", "tdt"}
  BY DEF OwnType
<1>4. SiOnly = {"bat", "eit_in8day"} \cup {"eit_out8day", "tot"}
  BY DEF SiOnly
<1>5. IsFiniteSet(OwnType) /\ IsFiniteSet(SiOnly)
  BY <1>1, <1>2, <1>3, <1>4, FS_Union
<1>6. IsFiniteSet(Si)
  BY <1>5, FS_Union DEF Si
<1> QED BY <1>1, <1>6, FS_Union DEF Tables

Inc(m, name, cause) == IF <<name, cause>> \in Causes(m) \cup Totals(m) THEN 1 ELSE 0

(* What a report adds to the total of a type it adds to one of its parts; a short
   interval of RST, to a part of SI repetition alone. *)
LEMMA Increments ==
  ASSUME NEW m \in Messages, Counted(m)
  PROVE  /\ Causes(m) \cup Totals(m) \subseteq Counters
         /\ \A type \in Types : Inc(m, type, "all") = IF type \in Shown(m) THEN 1 ELSE 0
         /\ \A t \in OwnType :
              Inc(m, t, "all") = Inc(m, t, "timeout") + Inc(m, t, "lower25ms") + Inc(m, t, "tid")
         /\ \E x : /\ \A t \in Tables : Inc(m, t, "crc") = IF t = x THEN 1 ELSE 0
                   /\ Inc(m, "crc", "all") = IF x \in Tables THEN 1 ELSE 0
         /\ \E x : /\ \A t \in Si : Inc(m, t, "timeout") = IF t = x THEN 1 ELSE 0
                   /\ Inc(m, "si", "all") + Inc(m, "rst", "lower25ms")
                        = Inc(m, "si", "lower25ms") + IF x \in Si THEN 1 ELSE 0
<1>1. Causes(m) \cup Totals(m) \subseteq Counters
  BY DEF Messages, Counted, CheckFilter, emErrType, Causes, Totals, Counters, IsSiRepetition, Nothing, Tables, Si, OwnType, SiOnly, Types
<1>2. \A type \in Types : Inc(m, type, "all") = IF type \in Shown(m) THEN 1 ELSE 0
  BY DEF Messages, Inc, Shown, Causes, Totals
<1>3. \A t \in OwnType :
              Inc(m, t, "all") = Inc(m, t, "timeout") + Inc(m, t, "lower25ms") + Inc(m, t, "tid")
  BY DEF Messages, Counted, CheckFilter, emErrType, Causes, Totals, IsSiRepetition, Nothing, Tables, Si, OwnType, SiOnly, Inc
<1>4. \E x : /\ \A t \in Tables : Inc(m, t, "crc") = IF t = x THEN 1 ELSE 0
             /\ Inc(m, "crc", "all") = IF x \in Tables THEN 1 ELSE 0
  <2> DEFINE x == IF m.kind = "crc" THEN m.table ELSE "none"
  <2>1. \A t \in Tables : Inc(m, t, "crc") = IF t = x THEN 1 ELSE 0
    BY DEF Messages, Causes, Totals, Tables, Si, OwnType, SiOnly, Inc
  <2>2. Inc(m, "crc", "all") = IF x \in Tables THEN 1 ELSE 0
    BY DEF Messages, Counted, emErrType, Causes, Totals, IsSiRepetition, Nothing, Tables, Si, OwnType, SiOnly, Inc
  <2> QED BY <2>1, <2>2
<1>5. \E x : /\ \A t \in Si : Inc(m, t, "timeout") = IF t = x THEN 1 ELSE 0
             /\ Inc(m, "si", "all") + Inc(m, "rst", "lower25ms")
                        = Inc(m, "si", "lower25ms") + IF x \in Si THEN 1 ELSE 0
  <2> DEFINE x == IF m.kind = "interval" /\ ~ (m.llVal < Lower) THEN m.table ELSE "none"
  <2>1. \A t \in Si : Inc(m, t, "timeout") = IF t = x THEN 1 ELSE 0
    BY DEF Messages, Causes, Totals, Tables, Si, OwnType, SiOnly, Inc
  <2>2. Inc(m, "si", "all") = IF IsSiRepetition(m) THEN 1 ELSE 0
    BY DEF Messages, Counted, emErrType, Causes, Totals, IsSiRepetition, Nothing, Tables, Si, OwnType, SiOnly, Inc
  <2>3. Inc(m, "rst", "lower25ms") = IF m.kind = "interval" /\ m.table = "rst" /\ m.llVal < Lower THEN 1 ELSE 0
    BY DEF Messages, Causes, Totals, Tables, Si, OwnType, SiOnly, Inc
  <2>4. Inc(m, "si", "lower25ms") = IF m.kind = "interval" /\ m.table \in Si \cup {"rst"} /\ m.llVal < Lower THEN 1 ELSE 0
    BY DEF Messages, Causes, Totals, Tables, Si, OwnType, SiOnly, Inc
  <2>5. m.kind = "interval" => m.table \in Si \/ (m.table = "rst" /\ m.llVal < Lower)
    BY DEF Messages, Counted, CheckFilter, emErrType, Nothing, Tables, Si, OwnType, SiOnly
  <2>6. "none" \notin Si /\ "rst" \notin Si
    BY DEF Si, OwnType, SiOnly
  <2> QED BY <2>1, <2>2, <2>3, <2>4, <2>5, <2>6 DEF IsSiRepetition
<1> QED BY <1>1, <1>2, <1>3, <1>4, <1>5

LEMMA Bagged ==
  ASSUME NEW U, NEW B \in BagsOf(U)
  PROVE  IsABag(B) /\ DOMAIN B \subseteq U
<1>0. PICK D \in SUBSET U : B \in [D -> Nat \ {0}]
  BY DEF BagsOf
<1>1. DOMAIN B = D /\ \A e \in D : B[e] \in {n \in Nat : n > 0}
  BY <1>0
<1>2. B \in [DOMAIN B -> {n \in Nat : n > 0}]
  BY <1>0, <1>1
<1> QED BY <1>1, <1>2 DEF IsABag

-----------------------------------------------------------------------------
(* The views and the counters behind them *)

PartOf(cnt, cause) == [t \in Tables |-> Count(cnt, t, cause)]

ViewTypes == [msgs : Seq(Messages), cnt : BagsOf(Counters), err : [Types -> Nat], list : Seq(Messages)]

CountsInv(cnt) ==
  /\ \A t \in OwnType :
       Count(cnt, t, "all") = Count(cnt, t, "timeout") + Count(cnt, t, "lower25ms") + Count(cnt, t, "tid")
  /\ Count(cnt, "crc", "all") = Sum(PartOf(cnt, "crc"), Tables)
  /\ Count(cnt, "si", "all") + Count(cnt, "rst", "lower25ms") =
       Count(cnt, "si", "lower25ms") + Sum(PartOf(cnt, "timeout"), Si)

ReplayInv(v) ==
  Len(v.msgs) < MAX_MSG_SAVE_CNT =>
    \A type \in Types :
      /\ Replay(type, v.msgs) \in Seq(Messages)
      /\ Len(Replay(type, v.msgs)) = IF v.err[type] < MAX_MSG_CNT THEN v.err[type] ELSE MAX_MSG_CNT

ViewsInv(v) ==
  /\ v \in ViewTypes
  /\ Len(v.msgs) <= MAX_MSG_SAVE_CNT + 1 /\ Len(v.list) <= MAX_MSG_CNT
  /\ \A type \in Types : v.err[type] = Count(v.cnt, type, "all")
  /\ CountsInv(v.cnt)
  /\ ReplayInv(v)

(* The counters after a report that is counted. *)
LEMMA Adds ==
  ASSUME NEW cnt \in BagsOf(Counters), NEW m \in Messages, Counted(m)
  PROVE  /\ ProcessReport(cnt, m) \in BagsOf(Counters)
         /\ \A name, cause :
              /\ Count(cnt, name, cause) \in Nat
              /\ Count(ProcessReport(cnt, m), name, cause) = Count(cnt, name, cause) + Inc(m, name, cause)
<1>1. Causes(m) \cup Totals(m) \in SUBSET Counters
  BY Increments
<1>2. ProcessReport(cnt, m) = cnt (+) SetToBag(Causes(m) \cup Totals(m))
  BY DEF ProcessReport, Counted
<1> QED BY <1>1, <1>2, Adding DEF Count, Inc

LEMMA CountsKept ==
  ASSUME NEW cnt \in BagsOf(Counters), CountsInv(cnt), NEW m \in Messages, Counted(m)
  PROVE  CountsInv(ProcessReport(cnt, m))
<1> DEFINE new == ProcessReport(cnt, m)
<1>1. \A name, cause : /\ Count(cnt, name, cause) \in Nat
                       /\ Count(new, name, cause) = Count(cnt, name, cause) + Inc(m, name, cause)
  BY Adds
<1>2. \A name, cause : Inc(m, name, cause) \in {0, 1}
  BY DEF Inc
<1> HIDE DEF new
<1>3. ASSUME NEW t \in OwnType
      PROVE  Count(new, t, "all") = Count(new, t, "timeout") + Count(new, t, "lower25ms") + Count(new, t, "tid")
  <2>1. Inc(m, t, "all") = Inc(m, t, "timeout") + Inc(m, t, "lower25ms") + Inc(m, t, "tid")
    BY Increments
  <2>2. Count(cnt, t, "all") = Count(cnt, t, "timeout") + Count(cnt, t, "lower25ms") + Count(cnt, t, "tid")
    BY DEF CountsInv
  <2> QED BY <1>1, <1>2, <2>1, <2>2
<1>4. Count(new, "crc", "all") = Sum(PartOf(new, "crc"), Tables)
  <2>1. PICK x : /\ \A t \in Tables : Inc(m, t, "crc") = IF t = x THEN 1 ELSE 0
                 /\ Inc(m, "crc", "all") = IF x \in Tables THEN 1 ELSE 0
    BY Increments
  <2> DEFINE f == PartOf(cnt, "crc")
             g == PartOf(new, "crc")
  <2>2. \A t \in Tables : f[t] \in Nat /\ g[t] = f[t] + (IF t = x THEN 1 ELSE 0)
    BY <1>1, <2>1 DEF PartOf
  <2> HIDE DEF f, g
  <2>3. Sum(f, Tables) \in Nat /\ Sum(g, Tables) = Sum(f, Tables) + (IF x \in Tables THEN 1 ELSE 0)
    BY <2>2, SumGrows, TablesFinite
  <2>4. Count(cnt, "crc", "all") = Sum(f, Tables)
    BY DEF CountsInv, f
  <2>5. Count(new, "crc", "all") = Sum(g, Tables)
    BY <1>1, <2>1, <2>3, <2>4
  <2> QED BY <2>5 DEF g
<1>5. Count(new, "si", "all") + Count(new, "rst", "lower25ms") =
        Count(new, "si", "lower25ms") + Sum(PartOf(new, "timeout"), Si)
  <2>1. PICK x : /\ \A t \in Si : Inc(m, t, "timeout") = IF t = x THEN 1 ELSE 0
                 /\ Inc(m, "si", "all") + Inc(m, "rst", "lower25ms")
                      = Inc(m, "si", "lower25ms") + IF x \in Si THEN 1 ELSE 0
    BY Increments
  <2> DEFINE f == PartOf(cnt, "timeout")
             g == PartOf(new, "timeout")
  <2>2. \A t \in Si : f[t] \in Nat /\ g[t] = f[t] + (IF t = x THEN 1 ELSE 0)
    <3>1. Si \subseteq Tables
      BY DEF Tables
    <3> QED BY <1>1, <2>1, <3>1 DEF PartOf
  <2> HIDE DEF f, g
  <2>3. Sum(f, Si) \in Nat /\ Sum(g, Si) = Sum(f, Si) + (IF x \in Si THEN 1 ELSE 0)
    BY <2>2, SumGrows, TablesFinite
  <2>4. Count(cnt, "si", "all") + Count(cnt, "rst", "lower25ms") = Count(cnt, "si", "lower25ms") + Sum(f, Si)
    BY DEF CountsInv, f
  <2>5. Count(new, "si", "all") + Count(new, "rst", "lower25ms") = Count(new, "si", "lower25ms") + Sum(g, Si)
    BY <1>1, <1>2, <2>1, <2>3, <2>4
  <2> QED BY <2>5 DEF g
<1> QED BY <1>3, <1>4, <1>5 DEF CountsInv, new

(* The list shown, and the list of reports kept, after a message. *)
LEMMA Listed ==
  ASSUME NEW list \in Seq(Messages), Len(list) <= MAX_MSG_CNT, NEW m \in Messages
  PROVE  /\ AddMsg(list, m) \in Seq(Messages)
         /\ Len(AddMsg(list, m)) = IF Len(list) < MAX_MSG_CNT THEN Len(list) + 1 ELSE MAX_MSG_CNT
<1>1. MAX_MSG_CNT \in Nat \ {0}
  BY LimitsAssumption
<1>2. CASE Len(list) < MAX_MSG_CNT
  BY <1>1, <1>2 DEF AddMsg
<1>3. CASE Len(list) = MAX_MSG_CNT
  <2>1. Tail(list) \in Seq(Messages) /\ Len(Tail(list)) = MAX_MSG_CNT - 1
    BY <1>1, <1>3
  <2>2. AddMsg(list, m) = Append(Tail(list), m)
    BY <1>1, <1>3 DEF AddMsg
  <2> QED BY <1>1, <1>3, <2>1, <2>2
<1> QED BY <1>1, <1>2, <1>3

LEMMA Kept ==
  ASSUME NEW msgs \in Seq(Messages), Len(msgs) <= MAX_MSG_SAVE_CNT + 1, NEW m \in Messages
  PROVE  /\ Remember(msgs, m) \in Seq(Messages) /\ Len(Remember(msgs, m)) <= MAX_MSG_SAVE_CNT + 1
         /\ Len(Remember(msgs, m)) < MAX_MSG_SAVE_CNT =>
              Remember(msgs, m) = Append(msgs, m) /\ Len(msgs) < MAX_MSG_SAVE_CNT
<1>1. MAX_MSG_SAVE_CNT \in Nat
  BY LimitsAssumption
<1>2. CASE Len(msgs) <= MAX_MSG_SAVE_CNT
  BY <1>1, <1>2 DEF Remember
<1>3. CASE Len(msgs) = MAX_MSG_SAVE_CNT + 1
  <2>1. Tail(msgs) \in Seq(Messages) /\ Len(Tail(msgs)) = MAX_MSG_SAVE_CNT
    BY <1>1, <1>3
  <2>2. Remember(msgs, m) = Append(Tail(msgs), m)
    BY <1>1, <1>3 DEF Remember
  <2> QED BY <1>1, <1>3, <2>1, <2>2
<1> QED BY <1>1, <1>2, <1>3

(* A report that is counted, and one that is not, keeps the views right. *)
LEMMA CountedKeeps ==
  ASSUME NEW v, ViewsInv(v), NEW m \in Messages, Counted(m)
  PROVE  ViewsInv(OnTrReport(v, m))
<1> DEFINE w == OnTrReport(v, m)
           cnt == ProcessReport(v.cnt, m)
<1>1. /\ v.msgs \in Seq(Messages) /\ v.cnt \in BagsOf(Counters) /\ v.err \in [Types -> Nat]
      /\ v.list \in Seq(Messages)
      /\ Len(v.msgs) <= MAX_MSG_SAVE_CNT + 1 /\ Len(v.list) <= MAX_MSG_CNT
  BY DEF ViewsInv, ViewTypes
<1>2. /\ cnt \in BagsOf(Counters)
      /\ \A name, cause : /\ Count(v.cnt, name, cause) \in Nat
                          /\ Count(cnt, name, cause) = Count(v.cnt, name, cause) + Inc(m, name, cause)
  BY <1>1, Adds
<1>3. w = [msgs |-> Remember(v.msgs, m), cnt |-> cnt, list |-> AddMsg(v.list, m),
           err |-> [t \in Types |-> IF t \in Shown(m) THEN Count(cnt, t, "all") ELSE v.err[t]]]
  BY DEF OnTrReport
<1>4. /\ w.msgs = Remember(v.msgs, m) /\ w.cnt = cnt /\ w.list = AddMsg(v.list, m)
      /\ w.err = [t \in Types |-> IF t \in Shown(m) THEN Count(cnt, t, "all") ELSE v.err[t]]
  BY <1>3
<1> HIDE DEF cnt
<1>5. \A type \in Types : v.err[type] = Count(v.cnt, type, "all")
  BY DEF ViewsInv
<1>6. \A type \in Types : /\ w.err[type] = v.err[type] + (IF type \in Shown(m) THEN 1 ELSE 0)
                          /\ w.err[type] = Count(cnt, type, "all")
                          /\ w.err[type] \in Nat
  <2> TAKE type \in Types
  <2>1. Inc(m, type, "all") = IF type \in Shown(m) THEN 1 ELSE 0
    BY Increments
  <2>2. Count(cnt, type, "all") = v.err[type] + (IF type \in Shown(m) THEN 1 ELSE 0)
        /\ v.err[type] \in Nat
    BY <1>2, <1>5, <2>1
  <2>3. w.err[type] = IF type \in Shown(m) THEN Count(cnt, type, "all") ELSE v.err[type]
    BY <1>4
  <2> QED BY <2>2, <2>3
<1>7. /\ AddMsg(v.list, m) \in Seq(Messages)
      /\ Len(AddMsg(v.list, m)) = IF Len(v.list) < MAX_MSG_CNT THEN Len(v.list) + 1 ELSE MAX_MSG_CNT
  BY <1>1, Listed
<1>8. /\ Remember(v.msgs, m) \in Seq(Messages) /\ Len(Remember(v.msgs, m)) <= MAX_MSG_SAVE_CNT + 1
      /\ Len(Remember(v.msgs, m)) < MAX_MSG_SAVE_CNT =>
              Remember(v.msgs, m) = Append(v.msgs, m) /\ Len(v.msgs) < MAX_MSG_SAVE_CNT
  BY <1>1, Kept
<1>9. w \in ViewTypes /\ Len(w.msgs) <= MAX_MSG_SAVE_CNT + 1 /\ Len(w.list) <= MAX_MSG_CNT
  <2>1. w.err \in [Types -> Nat]
    <3>1. w.err = [t \in Types |-> w.err[t]]
      BY <1>4
    <3> QED BY <1>6, <3>1
  <2>2. w = [msgs |-> w.msgs, cnt |-> w.cnt, list |-> w.list, err |-> w.err]
    BY <1>3, <1>4
  <2>3. Len(AddMsg(v.list, m)) <= MAX_MSG_CNT
    BY <1>1, <1>7, LimitsAssumption
  <2> HIDE DEF w
  <2> QED BY <1>2, <1>4, <1>7, <1>8, <2>1, <2>2, <2>3 DEF ViewTypes
<1>10. CountsInv(w.cnt)
  <2>1. CountsInv(v.cnt)
    BY DEF ViewsInv
  <2> QED BY <1>1, <1>4, <2>1, CountsKept DEF cnt
<1>11. ReplayInv(w)
  <2> SUFFICES ASSUME Len(w.msgs) < MAX_MSG_SAVE_CNT, NEW type \in Types
               PROVE  /\ Replay(type, w.msgs) \in Seq(Messages)
                      /\ Len(Replay(type, w.msgs)) = IF w.err[type] < MAX_MSG_CNT THEN w.err[type] ELSE MAX_MSG_CNT
    BY DEF ReplayInv
  <2> HIDE DEF w
  <2>1. w.msgs = Append(v.msgs, m) /\ Len(v.msgs) < MAX_MSG_SAVE_CNT
    BY <1>4, <1>8
  <2> DEFINE old == Replay(type, v.msgs)
  <2>2. old \in Seq(Messages) /\ Len(old) = IF v.err[type] < MAX_MSG_CNT THEN v.err[type] ELSE MAX_MSG_CNT
    BY <2>1 DEF ViewsInv, ReplayInv
  <2>3. Replay(type, w.msgs) = PlayBackMsg(type, old, m)
    BY <1>1, <2>1, ReplayAppend
  <2> HIDE DEF old
  <2>4. PlayBackMsg(type, old, m) = IF type \in Shown(m) THEN AddMsg(old, m) ELSE old
    BY DEF PlayBackMsg, Shown
  <2>5. v.err[type] \in Nat /\ w.err[type] = v.err[type] + (IF type \in Shown(m) THEN 1 ELSE 0)
    BY <1>1, <1>6
  <2>6. Len(old) <= MAX_MSG_CNT /\ MAX_MSG_CNT \in Nat \ {0}
    BY <2>2, <2>5, LimitsAssumption
  <2>7. /\ AddMsg(old, m) \in Seq(Messages)
        /\ Len(AddMsg(old, m)) = IF Len(old) < MAX_MSG_CNT THEN Len(old) + 1 ELSE MAX_MSG_CNT
    BY <2>2, <2>6, Listed
  <2> QED BY <2>2, <2>3, <2>4, <2>5, <2>6, <2>7
<1> HIDE DEF w
<1> QED BY <1>4, <1>6, <1>9, <1>10, <1>11 DEF ViewsInv, w

LEMMA IgnoredKeeps ==
  ASSUME NEW v, ViewsInv(v), NEW m \in Messages, ~ Counted(m)
  PROVE  ViewsInv(OnTrReport(v, m)) /\ OnTrReport(v, m).cnt = v.cnt
<1> DEFINE w == OnTrReport(v, m)
<1>1. /\ v.msgs \in Seq(Messages) /\ Len(v.msgs) <= MAX_MSG_SAVE_CNT + 1 /\ v \in ViewTypes
  BY DEF ViewsInv, ViewTypes
<1>2. w = [v EXCEPT !.msgs = Remember(v.msgs, m)]
  BY DEF OnTrReport
<1>3. w.msgs = Remember(v.msgs, m) /\ w.cnt = v.cnt /\ w.list = v.list /\ w.err = v.err
  BY <1>1, <1>2 DEF ViewTypes
<1>4. /\ Remember(v.msgs, m) \in Seq(Messages) /\ Len(Remember(v.msgs, m)) <= MAX_MSG_SAVE_CNT + 1
      /\ Len(Remember(v.msgs, m)) < MAX_MSG_SAVE_CNT =>
              Remember(v.msgs, m) = Append(v.msgs, m) /\ Len(v.msgs) < MAX_MSG_SAVE_CNT
  BY <1>1, Kept
<1>5. w \in ViewTypes
  BY <1>1, <1>2, <1>4 DEF ViewTypes
<1> HIDE DEF w
<1>6. ReplayInv(w)
  <2> SUFFICES ASSUME Len(w.msgs) < MAX_MSG_SAVE_CNT, NEW type \in Types
               PROVE  /\ Replay(type, w.msgs) \in Seq(Messages)
                      /\ Len(Replay(type, w.msgs)) = IF w.err[type] < MAX_MSG_CNT THEN w.err[type] ELSE MAX_MSG_CNT
    BY DEF ReplayInv
  <2>1. w.msgs = Append(v.msgs, m) /\ Len(v.msgs) < MAX_MSG_SAVE_CNT
    BY <1>3, <1>4
  <2>2. Replay(type, w.msgs) = PlayBackMsg(type, Replay(type, v.msgs), m)
    BY <1>1, <2>1, ReplayAppend
  <2>3. Replay(type, w.msgs) = Replay(type, v.msgs)
    BY <2>2 DEF PlayBackMsg
  <2> QED BY <1>3, <2>1, <2>3 DEF ViewsInv, ReplayInv
<1>7. Len(w.msgs) <= MAX_MSG_SAVE_CNT + 1
  BY <1>3, <1>4
<1> QED BY <1>3, <1>5, <1>6, <1>7 DEF ViewsInv, w

-----------------------------------------------------------------------------
(* What the reports of a section add to the counters *)

Delta(m, name, cause) == IF Counted(m) THEN Inc(m, name, cause) ELSE 0

Maybe == {<<>>} \cup {<<m>> : m \in Messages}

LEMMA ReportedKeeps ==
  ASSUME NEW v, ViewsInv(v), NEW ms \in Maybe
  PROVE  /\ ViewsInv(Reported(v, ms))
         /\ \A name, cause :
              /\ Count(v.cnt, name, cause) \in Nat
              /\ Count(Reported(v, ms).cnt, name, cause) =
                   Count(v.cnt, name, cause) + (IF ms = <<>> THEN 0 ELSE Delta(ms[1], name, cause))
<1>0. v.cnt \in BagsOf(Counters)
  BY DEF ViewsInv, ViewTypes
<1>a. \A name, cause : Count(v.cnt, name, cause) \in Nat
  BY <1>0, Copied DEF Count
<1>1. CASE ms = <<>>
  <2>1. Reported(v, ms) = v
    BY <1>1 DEF Reported
  <2> QED BY <1>1, <1>a, <2>1
<1>2. CASE ms # <<>>
  <2>1. PICK m \in Messages : ms = <<m>>
    BY <1>2 DEF Maybe
  <2>2. Reported(v, ms) = OnTrReport(v, m) /\ ms[1] = m
    BY <1>2, <2>1 DEF Reported
  <2>3. CASE Counted(m)
    <3>1. OnTrReport(v, m).cnt = ProcessReport(v.cnt, m)
      BY <2>3 DEF OnTrReport
    <3>2. ViewsInv(OnTrReport(v, m))
      BY <2>3, CountedKeeps
    <3>3. \A name, cause : Count(ProcessReport(v.cnt, m), name, cause) = Count(v.cnt, name, cause) + Inc(m, name, cause)
      BY <1>0, <2>3, Adds
    <3> QED BY <1>2, <1>a, <2>2, <2>3, <3>1, <3>2, <3>3 DEF Delta
  <2>4. CASE ~ Counted(m)
    <3>1. ViewsInv(OnTrReport(v, m)) /\ OnTrReport(v, m).cnt = v.cnt
      BY <2>4, IgnoredKeeps
    <3> QED BY <1>2, <1>a, <2>2, <2>4, <3>1 DEF Delta
  <2> QED BY <2>3, <2>4
<1> QED BY <1>1, <1>2

(* Those of an interval, and of anything else. *)
LEMMA IntervalCounts ==
  ASSUME NEW m \in Messages, m.kind = "interval", NEW x \in Si
  PROVE  /\ Delta(m, x, "lower25ms") = IF x = m.table /\ m.llVal < Lower THEN 1 ELSE 0
         /\ Delta(m, x, "timeout") = IF x = m.table /\ m.llVal > m_PsiTimeOut[x] THEN 1 ELSE 0
         /\ Delta(m, "pf", "all") = 0
<1>1. /\ m_PsiTimeOut[x] \in Nat /\ Lower \in Nat /\ m_PsiTimeOut[x] >= Lower /\ m.llVal \in Int
      /\ m.table \in Tables
  BY LimitsAssumption DEF Messages
<1>2. Inc(m, x, "lower25ms") = IF x = m.table /\ m.llVal < Lower THEN 1 ELSE 0
  BY DEF Inc, Causes, Totals, Si, OwnType, SiOnly
<1>3. Inc(m, x, "timeout") = IF x = m.table /\ ~ (m.llVal < Lower) THEN 1 ELSE 0
  BY DEF Inc, Causes, Totals, Si, OwnType, SiOnly
<1>4. Delta(m, "pf", "all") = 0
  <2>1. emErrType(m) # "pf"
    BY DEF emErrType, Nothing, OwnType
  <2>2. <<"pf", "all">> \notin Totals(m)
    BY <2>1 DEF Totals
  <2>3. <<"pf", "all">> \notin Causes(m)
    BY DEF Causes
  <2> QED BY <2>2, <2>3 DEF Delta, Inc
<1>5. x = m.table => (Counted(m) <=> m.llVal < Lower \/ m.llVal > m_PsiTimeOut[x])
  <2> SUFFICES ASSUME x = m.table PROVE Counted(m) <=> m.llVal < Lower \/ m.llVal > m_PsiTimeOut[x]
    OBVIOUS
  <2>1. m.table \in Si /\ m.table # "rst" /\ m.table # "none"
    BY DEF Si, OwnType, SiOnly
  <2>2. emErrType(m) # Nothing
    BY <2>1 DEF emErrType, Nothing, Si
  <2>3. CheckFilter(m) <=> m.llVal < Lower \/ m.llVal > m_PsiTimeOut[x]
    BY <2>1 DEF CheckFilter
  <2> QED BY <2>2, <2>3 DEF Counted
<1> QED BY <1>1, <1>2, <1>3, <1>4, <1>5 DEF Delta

LEMMA OtherCounts ==
  ASSUME NEW m \in Messages, m.kind # "interval", NEW x \in Si
  PROVE  /\ Delta(m, x, "lower25ms") = 0 /\ Delta(m, x, "timeout") = 0
         /\ Delta(m, "pf", "all") = IF m.kind = "pf" THEN 1 ELSE 0
<1>1. Delta(m, x, "lower25ms") = 0 /\ Delta(m, x, "timeout") = 0
  BY DEF Messages, Delta, Inc, Causes, Totals, Si, OwnType, SiOnly
<1>2. Delta(m, "pf", "all") = IF m.kind = "pf" THEN 1 ELSE 0
  BY DEF Messages, Delta, Inc, Counted, CheckFilter, Nothing, IsSiRepetition, Causes, Totals, emErrType, OwnType
<1> QED BY <1>1, <1>2

(* A run of sections and the next one. *)
LEMMA RunsAppended ==
  ASSUME NEW S, NEW p \in Seq(S), NEW s \in S
  PROVE  LET n == Len(p)
             q == Append(p, s)
             over == n > 0 /\ SubTable(p[n]) # SubTable(s)
         IN /\ Incomplete(q) = Incomplete(p) \cup (IF over /\ ~Both(p, n) THEN {n} ELSE {})
            /\ n \notin Incomplete(p)
            /\ Run(q, n + 1) = (IF n > 0 /\ ~over THEN Run(p, n) ELSE {}) \cup {n + 1}
            /\ \A i \in 1 .. n : Run(p, i) \subseteq 1 .. n
<1> DEFINE n == Len(p)
           q == Append(p, s)
           over == n > 0 /\ SubTable(p[n]) # SubTable(s)
<1>1. n \in Nat /\ Len(q) = n + 1 /\ q[n + 1] = s /\ \A i \in 1 .. n : q[i] = p[i]
  OBVIOUS
<1> HIDE DEF n, q
<1>2. ASSUME NEW i \in 1 .. n PROVE Run(q, i) = Run(p, i) /\ (Both(q, i) <=> Both(p, i)) /\ Run(p, i) \subseteq 1 .. n
  <2>1. Run(q, i) = Run(p, i) /\ Run(p, i) \subseteq 1 .. n
    BY <1>1 DEF Run
  <2>2. {q[j].number : j \in Run(q, i)} = {p[j].number : j \in Run(p, i)}
    BY <1>1, <2>1
  <2> QED BY <2>1, <2>2 DEF Both
<1>3. ASSUME NEW i \in 1 .. n
      PROVE  i \in Incomplete(q) <=> i \in Incomplete(p) \/ (i = n /\ over /\ ~Both(p, n))
  <2>1. i \in Incomplete(q) <=> SubTable(q[i]) # SubTable(q[i + 1]) /\ ~Both(p, i)
    BY <1>1, <1>2 DEF Incomplete
  <2>2. CASE i = n
    BY <1>1, <2>1, <2>2 DEF Incomplete, n
  <2>3. CASE i # n
    <3>1. i \in 1 .. n - 1 /\ i + 1 \in 1 .. n
      BY <1>1, <2>3
    <3> QED BY <1>1, <2>1, <2>3, <3>1 DEF Incomplete, n
  <2> QED BY <2>2, <2>3
<1>4. Incomplete(q) \subseteq 1 .. n /\ Incomplete(p) \subseteq 1 .. n - 1
  BY <1>1 DEF Incomplete, n
<1>5. Incomplete(q) = Incomplete(p) \cup (IF over /\ ~Both(p, n) THEN {n} ELSE {})
  <2>1. over => n \in 1 .. n
    BY <1>1
  <2>2. \A i : i \in Incomplete(p) => i \in 1 .. n
    BY <1>1, <1>4
  <2> HIDE DEF over
  <2> QED BY <1>3, <1>4, <2>1, <2>2
<1>6. n \notin Incomplete(p)
  BY <1>1, <1>4
<1>7. Run(q, n + 1) = (IF n > 0 /\ ~over THEN Run(p, n) ELSE {}) \cup {n + 1}
  <2>1. ASSUME NEW j \in 1 .. n
        PROVE  j \in Run(q, n + 1) <=> n > 0 /\ ~over /\ j \in Run(p, n)
    <3>1. j \in Run(q, n + 1) <=> \A k \in j .. n + 1 : SubTable(q[k]) = SubTable(s)
      BY <1>1 DEF Run
    <3>2. j .. n + 1 = (j .. n) \cup {n + 1} /\ n \in j .. n /\ j .. n \subseteq 1 .. n
      BY <1>1
    <3>3. j \in Run(q, n + 1) <=> \A k \in j .. n : SubTable(p[k]) = SubTable(s)
      BY <1>1, <3>1, <3>2
    <3>4. j \in Run(p, n) <=> \A k \in j .. n : SubTable(p[k]) = SubTable(p[n])
      BY <1>1 DEF Run
    <3> QED BY <1>1, <3>2, <3>3, <3>4
  <2>2. n + 1 \in Run(q, n + 1) /\ Run(q, n + 1) \subseteq 1 .. n + 1
    BY <1>1 DEF Run
  <2>3. \A j \in 1 .. n + 1 : j \in 1 .. n \/ j = n + 1
    BY <1>1
  <2>4. n > 0 => Run(p, n) \subseteq 1 .. n
    BY <1>1, <1>2
  <2> HIDE DEF over
  <2> QED BY <2>1, <2>2, <2>3, <2>4
<1> QED BY <1>2, <1>5, <1>6, <1>7 DEF n, q
-----------------------------------------------------------------------------
(* The invariant *)

\* what a rate may be, and one that is the stream's
Rates == {<<n, k>> : n \in Nat \ {0}, k \in Nat}
TrueRates == {<<n, n>> : n \in Nat \ {0}}

\* the clock with its last PCR at time p, when the PCR was o past the time
Counts(clock, p, o) ==
  /\ clock = [before |-> p + o, packets |-> (time - p) + 1, rate |-> clock.rate]
  /\ clock.rate \in {NoRate} \cup (IF skewed THEN Rates ELSE TrueRates)

Notes == [time : Nat, jumps : Nat, skewed : BOOLEAN, behind : Nat]

ClockInv ==
  /\ mux \in Muxes
  /\ time \in Nat /\ time <= mux.time /\ offset \in mux.offsets /\ jumps \in Nat /\ skewed \in BOOLEAN
  /\ lastPcr \in Nat \cup {-1} /\ lastPcr <= time
  /\ IF lastPcr = -1 THEN m_pSysClock = ResetClock /\ ~skewed
                     ELSE Counts(m_pSysClock, lastPcr, offset)
  /\ m_pOldOccurTime \in [Tables -> Nat \cup {-1}]
  /\ last \in [Tables -> {<<>>} \cup {<<n>> : n \in Notes}]

(* What was noted of a table is what a running clock would have shown, less what
   the clock was behind, unless the PCR has jumped since. *)
TimesInv ==
  \A t \in Tables :
    /\ last[t] = <<>> <=> m_pOldOccurTime[t] = -1
    /\ last[t] # <<>> =>
         /\ lastPcr # -1 /\ last[t][1] \in Notes /\ last[t][1].jumps <= jumps /\ last[t][1].time <= time
         /\ last[t][1].jumps = jumps /\ ~last[t][1].skewed =>
              m_pOldOccurTime[t] = ((last[t][1].time + offset) + 1) - last[t][1].behind

(* IntervalErrorsAreTrue of any counters. *)
IntervalsTrue(cnt, l, e, ml, me) ==
  \A t \in Si :
    /\ Count(cnt, t, "timeout") - Copies(t, l) \in 0 .. Copies(t, ml)
    /\ Count(cnt, t, "lower25ms") - Copies(t, e) \in 0 .. Copies(t, me)

IntervalsInv ==
  /\ late \in BagsOf(Tables) /\ early \in BagsOf(Tables)
  /\ maybeLate \in BagsOf(Tables) /\ maybeEarly \in BagsOf(Tables)
  /\ IntervalsTrue(m_nErrCnt, late, early, maybeLate, maybeEarly)

Has(p, i, n) == \E j \in Run(p, i) : p[j].number = n

PFInv ==
  /\ pf \in Seq(mux.sections)
  /\ m_bHaveEit_P \in BOOLEAN /\ m_bHaveEit_F \in BOOLEAN
  /\ m_bWaitFirstEitSection \in BOOLEAN /\ (m_bWaitFirstEitSection <=> Len(pf) = 0)
  /\ Len(pf) = 0 => ~m_bHaveEit_P /\ ~m_bHaveEit_F
  /\ Len(pf) > 0 =>
       /\ m_PrevEitSection = SubTable(pf[Len(pf)])
       /\ m_bHaveEit_P <=> Has(pf, Len(pf), 0)
       /\ m_bHaveEit_F <=> Has(pf, Len(pf), 1)

IInv == ClockInv /\ TimesInv /\ ViewsInv(Views) /\ IntervalsInv /\ PFInv /\ PFErrorsAreTrue

LEMMA IntervalsOf == IntervalErrorsAreTrue <=> IntervalsTrue(m_nErrCnt, late, early, maybeLate, maybeEarly)
<1>1. \A t \in Si : /\ Part("timeout")[t] = Count(m_nErrCnt, t, "timeout")
                    /\ Part("lower25ms")[t] = Count(m_nErrCnt, t, "lower25ms")
  BY DEF Part, Tables
<1> QED BY <1>1 DEF IntervalErrorsAreTrue, IntervalsTrue

LEMMA Initial == Init => IInv
<1> SUFFICES ASSUME Init PROVE IInv
  OBVIOUS
<1>1. ClockInv /\ TimesInv
  <2>1. 0 \in Nat /\ 0 <= mux.time /\ -1 <= 0
    BY ClockAssumption DEF Init
  <2>2. /\ m_pOldOccurTime \in [Tables -> Nat \cup {-1}]
        /\ last \in [Tables -> {<<>>} \cup {<<n>> : n \in Notes}]
        /\ \A t \in Tables : last[t] = <<>> /\ m_pOldOccurTime[t] = -1
    BY DEF Init
  <2>3. TimesInv
    BY <2>2 DEF TimesInv
  <2>4. ClockInv
    BY <2>1, <2>2 DEF Init, ClockInv
  <2> QED BY <2>3, <2>4
<1>2. EmptyBag \in BagsOf(Tables) /\ EmptyBag \in BagsOf(Counters) /\ \A e : Copies(e, EmptyBag) = 0
  <2>1. EmptyBag \in [{} -> Nat \ {0}]
    BY DEF EmptyBag, SetToBag
  <2>2. \A U : EmptyBag \in BagsOf(U)
    BY <2>1 DEF BagsOf
  <2>3. \A e : Copies(e, EmptyBag) = 0
    BY <2>1 DEF Copies, BagIn, BagToSet
  <2> QED BY <2>2, <2>3
<1>3. \A name, cause : Count(EmptyBag, name, cause) = 0
  BY <1>2 DEF Count
<1>4. CountsInv(EmptyBag)
  <2>1. ASSUME NEW cause, NEW S \in {Si, Tables} PROVE Sum(PartOf(EmptyBag, cause), S) = 0
    <3> DEFINE f == PartOf(EmptyBag, cause)
    <3>1. IsFiniteSet(S) /\ S \subseteq Tables
      BY TablesFinite DEF Tables
    <3>2. \A t \in S : f[t] = 0
      BY <1>3, <3>1 DEF PartOf
    <3> HIDE DEF f
    <3>3. Sum(f, S) = 0
      BY <3>1, <3>2, SumZero
    <3> QED BY <3>3 DEF f
  <2> QED BY <1>3, <2>1 DEF CountsInv
<1>5. ViewsInv(Views)
  <2>1. ReplayInv(Views)
    <3>1. Views.msgs = <<>> /\ \A type \in Types : Views.err[type] = 0
      BY DEF Views, Init
    <3>2. \A type \in Types : Replay(type, Views.msgs) = <<>>
      BY <3>1, ReplayEmpty
    <3>3. <<>> \in Seq(Messages) /\ Len(<<>>) = 0 /\ 0 < MAX_MSG_CNT
      BY LimitsAssumption
    <3> QED BY <3>1, <3>2, <3>3 DEF ReplayInv
  <2>2. Views \in ViewTypes
    BY <1>2 DEF ViewTypes, Views, Init
  <2>3. \A type \in Types : Views.err[type] = Count(Views.cnt, type, "all")
    BY <1>3 DEF Views, Init
  <2> QED BY <1>4, <2>1, <2>2, <2>3, LimitsAssumption DEF ViewsInv, Views, Init
<1>6. IntervalsInv
  <2>1. \A t \in Si : Part("timeout")[t] = 0 /\ Part("lower25ms")[t] = 0
    BY <1>3 DEF Part, Init, Tables
  <2>2. IntervalErrorsAreTrue
    BY <1>2, <2>1 DEF IntervalErrorsAreTrue, Init
  <2> QED BY <1>2, <2>2, IntervalsOf DEF IntervalsInv, Init
<1>7. PFInv
  <2>1. pf = <<>> /\ Len(pf) = 0 /\ pf \in Seq(mux.sections)
    BY DEF Init
  <2>2. m_bHaveEit_P = FALSE /\ m_bHaveEit_F = FALSE /\ m_bWaitFirstEitSection = TRUE
    BY DEF Init
  <2>3. ~ (Len(pf) > 0)
    BY <2>1
  <2> QED BY <2>1, <2>2, <2>3, Zenon DEF PFInv
<1>8. PFErrorsAreTrue
  <2>1. Incomplete(pf) = {}
    BY DEF Incomplete, Init
  <2> QED BY <2>1, FS_EmptySet DEF PFErrorsAreTrue, Init, Types
<1> QED BY <1>1, <1>5, <1>6, <1>7, <1>8 DEF IInv

-----------------------------------------------------------------------------
(* Steps that leave the counts alone *)

LEMMA ViewsAfter ==
  ASSUME NEW v, ViewsInv(v), Show(v) PROVE Views' = v
  BY DEF Show, Views, ViewsInv, ViewTypes

LEMMA SameHistory ==
  ASSUME IntervalsInv, PFInv, UNCHANGED <<psi, hist>>,
         \A t \in Si : /\ Count(m_nErrCnt, t, "timeout")' = Count(m_nErrCnt, t, "timeout")
                       /\ Count(m_nErrCnt, t, "lower25ms")' = Count(m_nErrCnt, t, "lower25ms")
  PROVE  IntervalsInv' /\ PFInv'
<1>1. UNCHANGED <<late, early, maybeLate, maybeEarly, pf, mux, m_bHaveEit_P, m_bHaveEit_F, m_bWaitFirstEitSection, m_PrevEitSection>>
  BY DEF psi, hist
<1>2. PFInv'
  BY <1>1 DEF PFInv, Has, Run
<1>3. IntervalsTrue(m_nErrCnt, late, early, maybeLate, maybeEarly)'
  BY <1>1 DEF IntervalsInv, IntervalsTrue
<1> QED BY <1>1, <1>2, <1>3 DEF IntervalsInv

-----------------------------------------------------------------------------
(* The clock *)

(* What the bounds are: numbers, and no PCR near the wrap. *)
LEMMA Limits ==
  ASSUME mux \in Muxes, NEW o \in mux.offsets, NEW t \in Nat, t <= mux.time
  PROVE  /\ o \in Nat /\ t + o \in Nat /\ ((t + o) + 1) + WrapWindow < PcrMax
         /\ PcrMax \in Nat /\ WrapWindow \in Nat /\ Tolerance \in Nat /\ mux.time \in Nat
<1>1. /\ PcrMax \in Nat /\ WrapWindow \in Nat /\ Tolerance \in Nat /\ mux.time \in Nat
      /\ o \in Nat /\ o + mux.time + 1 + WrapWindow < PcrMax
  BY ClockAssumption
<1> QED BY <1>1

(* A rate makes a number of packets a time, the stream's the same number. *)
LEMMA Rated ==
  ASSUME NEW n \in Nat \ {0}, NEW k \in Nat, NEW p \in Nat
  PROVE  (p * k) \div n \in Nat /\ (p * n) \div n = p
<1>1. p * k \in Nat
  BY Z3
<1>2. \A x \in Nat : x \div n \in Nat
  BY Z3
<1>3. (p * n) \div n = p
  BY Z3
<1> QED BY <1>1, <1>2, <1>3

(* What the clock shows: nothing before the first PCR; then, if its rate is the
   stream's, the end of the packet, less what it is behind. *)
LEMMA Shows ==
  ASSUME ClockInv
  PROVE  /\ llCurTime \in Nat \cup {-1}
         /\ llCurTime = -1 <=> lastPcr = -1
         /\ lastPcr # -1 => Behind \in Nat
         /\ lastPcr # -1 /\ ~skewed => llCurTime = ((time + offset) + 1) - Behind
<1>1. CASE lastPcr = -1
  BY <1>1 DEF ClockInv, ResetClock, llCurTime, GetPcr
<1>2. CASE lastPcr # -1
  <2>1. /\ lastPcr \in Nat /\ time \in Nat /\ lastPcr <= time /\ offset \in Nat
        /\ ((time + offset) + 1) + WrapWindow < PcrMax /\ PcrMax \in Nat /\ WrapWindow \in Nat
    BY <1>2, Limits DEF ClockInv
  <2>2. /\ m_pSysClock = [before |-> lastPcr + offset, packets |-> (time - lastPcr) + 1, rate |-> m_pSysClock.rate]
        /\ m_pSysClock.rate \in {NoRate} \cup (IF skewed THEN Rates ELSE TrueRates)
    BY <1>2 DEF ClockInv, Counts
  <2>3. m_pSysClock.before = lastPcr + offset /\ m_pSysClock.packets = (time - lastPcr) + 1
    BY <2>2
  <2>4. CASE m_pSysClock.rate = NoRate
    <3>1. llCurTime = lastPcr + offset /\ Behind = (time - lastPcr) + 1
      BY <2>3, <2>4 DEF llCurTime, GetPcr, Behind
    <3> QED BY <1>2, <2>1, <3>1
  <2>5. CASE m_pSysClock.rate # NoRate
    <3>1. PICK n \in Nat \ {0}, k \in Nat : m_pSysClock.rate = <<n, k>> /\ (~skewed => k = n)
      BY <2>2, <2>5 DEF Rates, TrueRates
    <3>2. PICK p \in Nat : p = (time - lastPcr) + 1
      BY <2>1
    <3>3. PICK x \in Nat : x = (p * k) \div n /\ (k = n => x = p)
      BY Rated
    <3>4. llCurTime = ((lastPcr + offset) + x) % (PcrMax + 1) /\ Behind = 0
      BY <2>3, <2>5, <3>1, <3>2, <3>3 DEF llCurTime, GetPcr, Behind
    <3>5. \A y \in Nat : y % (PcrMax + 1) \in Nat /\ (y <= PcrMax => y % (PcrMax + 1) = y)
      BY <2>1
    <3>6. (lastPcr + offset) + x \in Nat
      BY <2>1
    <3>7. llCurTime \in Nat
      BY <3>4, <3>5, <3>6
    <3>8. ~skewed => (lastPcr + offset) + x = (time + offset) + 1
      BY <2>1, <3>1, <3>2, <3>3
    <3>9. (time + offset) + 1 <= PcrMax
      BY <2>1
    <3>10. ~skewed => llCurTime = (time + offset) + 1
      BY <3>4, <3>5, <3>6, <3>8, <3>9
    <3> QED BY <1>2, <2>1, <3>4, <3>7, <3>10
  <2> QED BY <2>4, <2>5
<1> QED BY <1>1, <1>2

(* What a PCR makes of a clock that has one: it starts again, or has a rate. *)
LEMMA NextPcr ==
  ASSUME NEW clock, NEW b \in Nat, NEW n \in Nat \ {0}, NEW pcr \in Nat, b <= PcrMax, PcrMax \in Nat,
         clock = [before |-> b, packets |-> n, rate |-> clock.rate]
  PROVE  \E rate \in {NoRate} \cup Rates :
           /\ AddPcrPacket(Checked(clock, pcr), pcr) = [before |-> pcr, packets |-> 1, rate |-> rate]
           /\ rate # NoRate /\ b <= pcr => rate = <<n, pcr - b>>
<1>1. CASE Checked(clock, pcr) = ResetClock
  <2>1. AddPcrPacket(ResetClock, pcr) = [ResetClock EXCEPT !.before = pcr, !.packets = 1]
    BY DEF AddPcrPacket, ResetClock
  <2>2. AddPcrPacket(ResetClock, pcr) = [before |-> pcr, packets |-> 1, rate |-> NoRate]
    BY <2>1 DEF ResetClock
  <2> QED BY <1>1, <2>2
<1>2. CASE Checked(clock, pcr) = clock
  <2>1. clock.before = b /\ clock.packets = n /\ ~(b < 0)
    OBVIOUS
  <2> DEFINE k == IF pcr < b THEN PcrMax - b + pcr ELSE pcr - b
  <2>2. AddPcrPacket(clock, pcr) = [before |-> pcr, packets |-> 1, rate |-> <<n, k>>]
    BY <2>1 DEF AddPcrPacket
  <2>3. k \in Nat /\ (b <= pcr => k = pcr - b)
    OBVIOUS
  <2> HIDE DEF k
  <2>4. <<n, k>> \in Rates
    BY <2>3 DEF Rates
  <2> QED BY <1>2, <2>2, <2>3, <2>4
<1> QED BY <1>1, <1>2 DEF Checked

(* A packet without a PCR is counted. *)
LEMMA PayloadCounts ==
  ASSUME ClockInv, PayloadPacket PROVE ClockInv'
<1>1. /\ time < mux.time /\ time' = time + 1 /\ m_pSysClock' = AddPayloadPacket(m_pSysClock)
      /\ UNCHANGED <<offset, jumps, lastPcr, skewed, m_pOldOccurTime, last, mux>>
  BY DEF PayloadPacket, psi, hist
<1>2. time \in Nat /\ mux.time \in Nat /\ offset \in Nat /\ lastPcr \in Nat \cup {-1} /\ lastPcr <= time
  BY Limits DEF ClockInv
<1>3. PICK now \in Nat : now = time' /\ now = time + 1 /\ now <= mux.time /\ lastPcr <= now
  BY <1>1, <1>2
<1>4. CASE lastPcr = -1
  <2>1. m_pSysClock = ResetClock /\ ~skewed
    BY <1>4 DEF ClockInv
  <2>2. m_pSysClock' = ResetClock
    BY <1>1, <2>1 DEF AddPayloadPacket, ResetClock
  <2> QED BY <1>1, <1>3, <1>4, <2>1, <2>2 DEF ClockInv
<1>5. CASE lastPcr # -1
  <2> DEFINE rate == m_pSysClock.rate
             b == lastPcr + offset
             n == (time - lastPcr) + 1
  <2>1. /\ m_pSysClock = [before |-> b, packets |-> n, rate |-> rate]
        /\ rate \in {NoRate} \cup (IF skewed THEN Rates ELSE TrueRates)
    BY <1>5 DEF ClockInv, Counts
  <2>2. b # -1 /\ n + 1 = (now - lastPcr) + 1
    BY <1>2, <1>3, <1>5
  <2> HIDE DEF rate, b, n
  <2>3. m_pSysClock' = [before |-> b, packets |-> n + 1, rate |-> rate]
    BY <1>1, <2>1, <2>2 DEF AddPayloadPacket
  <2>4. m_pSysClock'.rate = rate
    BY <2>3
  <2>5. Counts(m_pSysClock, lastPcr, offset)'
    BY <1>1, <1>3, <2>1, <2>2, <2>3, <2>4 DEF Counts, b
  <2> QED BY <1>1, <1>3, <1>5, <2>5 DEF ClockInv
<1> QED BY <1>4, <1>5

(* A PCR that goes on from the last one leaves a clock that starts again or has
   the stream's rate; one that jumps may leave one with any rate. *)
LEMMA PcrCounts ==
  ASSUME ClockInv, NEW o \in mux.offsets, PcrPacket(o) PROVE ClockInv'
<1>1. /\ time < mux.time /\ time' = time + 1
      /\ m_pSysClock' = AddPcrPacket(Checked(m_pSysClock, time' + o), time' + o)
      /\ offset' = o /\ lastPcr' = time' /\ jumps' = (IF o = offset THEN jumps ELSE jumps + 1)
      /\ skewed' = (o # offset /\ m_pSysClock'.rate # NoRate)
      /\ UNCHANGED <<m_pOldOccurTime, last, mux>>
  BY DEF PcrPacket, psi, hist
<1>2. /\ time \in Nat /\ mux.time \in Nat /\ offset \in Nat /\ lastPcr \in Nat \cup {-1} /\ lastPcr <= time
      /\ jumps \in Nat /\ o \in Nat
  BY Limits DEF ClockInv
<1>3. PICK now \in Nat : now = time' /\ now = time + 1 /\ now <= mux.time
  BY <1>1, <1>2
<1>4. PICK pcr \in Nat : pcr = now + o
  BY <1>2, <1>3
<1>5. m_pSysClock' = AddPcrPacket(Checked(m_pSysClock, pcr), pcr)
  BY <1>1, <1>3, <1>4
<1>6. \E rate \in {NoRate} \cup Rates :
        /\ m_pSysClock' = [before |-> pcr, packets |-> 1, rate |-> rate]
        /\ rate # NoRate /\ o = offset => rate \in TrueRates
  <2>1. CASE lastPcr = -1
    <3>1. m_pSysClock = ResetClock
      BY <2>1 DEF ClockInv
    <3>2. Checked(ResetClock, pcr) = ResetClock
      BY DEF Checked
    <3>3. AddPcrPacket(ResetClock, pcr) = [ResetClock EXCEPT !.before = pcr, !.packets = 1]
      BY DEF AddPcrPacket, ResetClock
    <3>4. m_pSysClock' = [before |-> pcr, packets |-> 1, rate |-> NoRate]
      BY <1>5, <3>1, <3>2, <3>3 DEF ResetClock
    <3> QED BY <3>4
  <2>2. CASE lastPcr # -1
    <3>1. m_pSysClock = [before |-> lastPcr + offset, packets |-> (time - lastPcr) + 1, rate |-> m_pSysClock.rate]
      BY <2>2 DEF ClockInv, Counts
    <3>2. PICK b \in Nat, n \in Nat \ {0} : b = lastPcr + offset /\ n = (time - lastPcr) + 1
      BY <1>2, <2>2
    <3>3. PcrMax \in Nat /\ b <= PcrMax
      <4>1. ((time + offset) + 1) + WrapWindow < PcrMax /\ PcrMax \in Nat /\ WrapWindow \in Nat
        BY Limits DEF ClockInv
      <4> QED BY <1>2, <3>2, <4>1
    <3>4. m_pSysClock = [before |-> b, packets |-> n, rate |-> m_pSysClock.rate]
      BY <3>1, <3>2
    <3>5. PICK rate \in {NoRate} \cup Rates :
            /\ m_pSysClock' = [before |-> pcr, packets |-> 1, rate |-> rate]
            /\ rate # NoRate /\ b <= pcr => rate = <<n, pcr - b>>
      BY <1>5, <3>3, <3>4, NextPcr
    <3>6. o = offset => b <= pcr /\ pcr - b = n
      BY <1>2, <1>3, <1>4, <2>2, <3>2
    <3>7. <<n, n>> \in TrueRates
      BY DEF TrueRates
    <3> QED BY <3>5, <3>6, <3>7
  <2> QED BY <2>1, <2>2
<1>7. PICK rate \in {NoRate} \cup Rates :
        /\ m_pSysClock' = [before |-> pcr, packets |-> 1, rate |-> rate]
        /\ rate # NoRate /\ o = offset => rate \in TrueRates
  BY <1>6
<1>8. m_pSysClock'.rate = rate
  BY <1>7
<1>9. rate \in {NoRate} \cup (IF skewed' THEN Rates ELSE TrueRates)
  BY <1>1, <1>7, <1>8
<1>10. (now - now) + 1 = 1 /\ now # -1 /\ now <= now
  BY <1>3
<1>11. Counts(m_pSysClock, lastPcr, offset)'
  BY <1>1, <1>3, <1>4, <1>7, <1>8, <1>9, <1>10 DEF Counts
<1>12. jumps' \in Nat /\ skewed' \in BOOLEAN
  BY <1>1, <1>2
<1> QED BY <1>1, <1>3, <1>10, <1>11, <1>12 DEF ClockInv

LEMMA ClockSteps ==
  ASSUME IInv, PayloadPacket \/ (\E o \in mux.offsets : PcrPacket(o))
  PROVE  ClockInv' /\ TimesInv' /\ UNCHANGED <<views, psi, hist>>
<1>1. ClockInv /\ TimesInv
  BY DEF IInv
<1>2. ClockInv'
  BY <1>1, PayloadCounts, PcrCounts
<1>3. /\ UNCHANGED <<views, psi, hist>> /\ time' = time + 1
      /\ lastPcr' \in {lastPcr, time'} /\ jumps' \in {jumps, jumps + 1}
      /\ jumps' = jumps => offset' = offset
  BY <1>1 DEF PayloadPacket, PcrPacket, ClockInv
<1>4. time \in Nat /\ jumps \in Nat
  BY <1>1 DEF ClockInv
<1>5. PICK now \in Nat, j \in Nat : now = time' /\ j = jumps' /\ now = time + 1 /\ j >= jumps
  BY <1>3, <1>4
<1>6. ASSUME NEW t \in Tables, last[t] # <<>>
      PROVE  /\ lastPcr' # -1 /\ last[t][1] \in Notes /\ last[t][1].jumps <= j /\ last[t][1].time <= now
             /\ last[t][1].jumps = j /\ ~last[t][1].skewed =>
                  m_pOldOccurTime[t] = ((last[t][1].time + offset') + 1) - last[t][1].behind
  <2>1. /\ lastPcr # -1 /\ last[t][1] \in Notes /\ last[t][1].jumps <= jumps /\ last[t][1].time <= time
        /\ last[t][1].jumps = jumps /\ ~last[t][1].skewed =>
             m_pOldOccurTime[t] = ((last[t][1].time + offset) + 1) - last[t][1].behind
    BY <1>1, <1>6 DEF TimesInv
  <2>2. last[t][1].jumps \in Nat /\ last[t][1].time \in Nat
    BY <2>1 DEF Notes
  <2>3. lastPcr' # -1
    BY <1>3, <1>5, <2>1
  <2>4. last[t][1].jumps = j => jumps' = jumps /\ last[t][1].jumps = jumps
    BY <1>4, <1>5, <2>1, <2>2
  <2> QED BY <1>3, <1>4, <1>5, <2>1, <2>2, <2>3, <2>4
<1>7. UNCHANGED <<last, m_pOldOccurTime>>
  BY <1>3 DEF psi, hist
<1>8. TimesInv'
  BY <1>1, <1>5, <1>6, <1>7 DEF TimesInv
<1> QED BY <1>2, <1>3, <1>8

-----------------------------------------------------------------------------
(* Reports of others *)

LEMMA OthersReport ==
  ASSUME IInv, NEW ms \in Maybe, Show(Reported(Views, ms)),
         ms # <<>> => ms[1].kind \notin {"interval", "pf"},
         UNCHANGED <<psi, hist, stream>>
  PROVE  IInv'
<1> DEFINE v == Reported(Views, ms)
<1>0. ViewsInv(Views) /\ Views.cnt = m_nErrCnt /\ Views.err = m_pErrCnt
  BY DEF IInv, Views
<1>1. ViewsInv(v) /\ \A name, cause :
              /\ Count(Views.cnt, name, cause) \in Nat
              /\ Count(v.cnt, name, cause) =
                   Count(Views.cnt, name, cause) + (IF ms = <<>> THEN 0 ELSE Delta(ms[1], name, cause))
  BY <1>0, ReportedKeeps
<1> HIDE DEF v
<1>2. Views' = v
  BY <1>1, ViewsAfter DEF v
<1>3. m_nErrCnt' = v.cnt /\ m_pErrCnt' = v.err
  BY <1>2 DEF Views
<1>4. ms # <<>> => ms[1] \in Messages /\ ms[1].kind # "interval" /\ ms[1].kind # "pf"
  BY DEF Maybe
<1>5. \A t \in Si : /\ Count(m_nErrCnt', t, "timeout") = Count(m_nErrCnt, t, "timeout")
                    /\ Count(m_nErrCnt', t, "lower25ms") = Count(m_nErrCnt, t, "lower25ms")
                    /\ Count(m_nErrCnt', "pf", "all") = Count(m_nErrCnt, "pf", "all")
  BY <1>0, <1>1, <1>3, <1>4, OtherCounts
<1>6. m_pErrCnt' = m_pErrCnt \/ m_pErrCnt'["pf"] = m_pErrCnt["pf"]
  <2>1. "nit_act" \in Si /\ "pf" \in Types
    BY DEF Si, OwnType, Types
  <2>2. v.err["pf"] = Count(v.cnt, "pf", "all") /\ Views.err["pf"] = Count(Views.cnt, "pf", "all")
    BY <1>0, <1>1, <2>1 DEF ViewsInv
  <2> QED BY <1>0, <1>3, <1>5, <2>1, <2>2
<1>7. ClockInv' /\ TimesInv'
  BY DEF IInv, ClockInv, TimesInv, Counts, psi, hist, stream
<1>8. ViewsInv(Views')
  BY <1>1, <1>2
<1>9. IntervalsInv' /\ PFInv'
  <2>1. \A t \in Si : /\ Count(m_nErrCnt, t, "timeout")' = Count(m_nErrCnt, t, "timeout")
                      /\ Count(m_nErrCnt, t, "lower25ms")' = Count(m_nErrCnt, t, "lower25ms")
    BY <1>5 DEF Count, Copies
  <2> QED BY <2>1, SameHistory DEF IInv
<1>10. PFErrorsAreTrue'
  BY <1>6 DEF IInv, PFErrorsAreTrue, hist
<1> QED BY <1>7, <1>8, <1>9, <1>10 DEF IInv

-----------------------------------------------------------------------------
(* A section *)

LEMMA SectionMessages ==
  ASSUME ClockInv, NEW s \in mux.sections
  PROVE  /\ s.table \in Tables
         /\ IntervalReport(s) \in Maybe /\ TidReport(s) \in Maybe /\ PFReport(s) \in Maybe
         /\ IntervalReport(s) # <<>> => IntervalReport(s)[1].kind = "interval"
         /\ TidReport(s) # <<>> => TidReport(s)[1].kind = "tid"
         /\ PFReport(s) # <<>> => PFReport(s)[1].kind = "pf"
<1>1. s.table \in Tables
  BY MuxesAssumption DEF ClockInv
<1>2. ASSUME NEW kind \in {"interval", "tid", "pf"}, NEW t \in Tables, NEW n \in Int,
             kind = "tid" => t \in OwnType
      PROVE  <<Msg(kind, t, n, FALSE)>> \in Maybe /\ <<Msg(kind, t, n, FALSE)>>[1].kind = kind
  <2>1. Msg(kind, t, n, FALSE) \in Messages
    BY <1>2 DEF Msg, Messages
  <2> QED BY <2>1 DEF Maybe, Msg
<1>3. diff_pcr(llCurTime, m_pOldOccurTime[s.table]) \in Int /\ -1 \in Int
  <2>1. m_pOldOccurTime[s.table] \in Int /\ llCurTime \in Int /\ PcrMax \in Int
    BY <1>1, Shows, ClockAssumption DEF ClockInv
  <2> QED BY <2>1 DEF diff_pcr
<1>4. s.table \notin AllowedOn(s.pid) => TidType(s.pid) \in OwnType /\ TidType(s.pid) \in Tables
  BY <1>1 DEF AllowedOn, TidType, OwnType, Tables, Si
<1>5. <<>> \in Maybe
  BY DEF Maybe
<1>6. IntervalReport(s) \in Maybe /\ (IntervalReport(s) # <<>> => IntervalReport(s)[1].kind = "interval")
  BY <1>1, <1>2, <1>3, <1>5 DEF IntervalReport
<1>7. TidReport(s) \in Maybe /\ (TidReport(s) # <<>> => TidReport(s)[1].kind = "tid")
  BY <1>2, <1>3, <1>4, <1>5 DEF TidReport
<1>8. PFReport(s) \in Maybe /\ (PFReport(s) # <<>> => PFReport(s)[1].kind = "pf")
  BY <1>1, <1>2, <1>3, <1>5 DEF PFReport
<1> QED BY <1>1, <1>6, <1>7, <1>8

Past(s, t) == IntervalReport(s) # <<>> /\ t = s.table
Gap(s) == diff_pcr(llCurTime, m_pOldOccurTime[s.table])

(* The three reports of a section, one after the other. *)
LEMMA SectionReports ==
  ASSUME ClockInv, ViewsInv(Views), NEW s \in mux.sections, OnRecvNewSection(s)
  PROVE  /\ ViewsInv(Views')
         /\ \A t \in Si :
              /\ Count(m_nErrCnt', t, "timeout") = Count(m_nErrCnt, t, "timeout")
                   + (IF Past(s, t) /\ Gap(s) > m_PsiTimeOut[t] THEN 1 ELSE 0)
              /\ Count(m_nErrCnt', t, "lower25ms") = Count(m_nErrCnt, t, "lower25ms")
                   + (IF Past(s, t) /\ Gap(s) < Lower THEN 1 ELSE 0)
              /\ Count(m_nErrCnt, t, "timeout") \in Nat /\ Count(m_nErrCnt, t, "lower25ms") \in Nat
         /\ m_pErrCnt'["pf"] = m_pErrCnt["pf"] + (IF PFReport(s) # <<>> THEN 1 ELSE 0)
<1> DEFINE Added(v, w, ms) ==
      \A name, cause :
        /\ Count(v.cnt, name, cause) \in Nat
        /\ Count(w.cnt, name, cause) =
             Count(v.cnt, name, cause) + (IF ms = <<>> THEN 0 ELSE Delta(ms[1], name, cause))
<1> DEFINE i == IntervalReport(s)
           d == TidReport(s)
           p == PFReport(s)
           v1 == Reported(Views, i)
           v2 == Reported(v1, d)
           v3 == Reported(v2, p)
<1>1. /\ i \in Maybe /\ d \in Maybe /\ p \in Maybe /\ s.table \in Tables
      /\ i # <<>> => i[1].kind = "interval"
      /\ d # <<>> => d[1].kind = "tid"
      /\ p # <<>> => p[1].kind = "pf"
  BY SectionMessages
<1>2. ASSUME NEW ms \in Maybe, ms # <<>> PROVE ms[1] \in Messages
  BY <1>2 DEF Maybe
<1>3. i # <<>> => i[1].table = s.table /\ i[1].llVal = Gap(s)
  BY DEF IntervalReport, Msg, Gap
<1>4. Show(v3)
  BY DEF OnRecvNewSection
<1> HIDE DEF i, d, p
<1>5. ViewsInv(v1) /\ Added(Views, v1, i)
  BY <1>1, ReportedKeeps
<1> HIDE DEF v1
<1>6. ViewsInv(v2) /\ Added(v1, v2, d)
  BY <1>1, <1>5, ReportedKeeps
<1> HIDE DEF v2
<1>7. ViewsInv(v3) /\ Added(v2, v3, p)
  BY <1>1, <1>6, ReportedKeeps
<1> HIDE DEF v3
<1>8. Views' = v3
  BY <1>4, <1>7, ViewsAfter
<1>9. m_nErrCnt' = v3.cnt /\ m_pErrCnt' = v3.err /\ m_nErrCnt = Views.cnt /\ m_pErrCnt = Views.err
  BY <1>8 DEF Views
<1>10. ASSUME NEW t \in Si
       PROVE  /\ Count(v3.cnt, t, "timeout") = Count(Views.cnt, t, "timeout")
                   + (IF Past(s, t) /\ Gap(s) > m_PsiTimeOut[t] THEN 1 ELSE 0)
              /\ Count(v3.cnt, t, "lower25ms") = Count(Views.cnt, t, "lower25ms")
                   + (IF Past(s, t) /\ Gap(s) < Lower THEN 1 ELSE 0)
              /\ Count(v3.cnt, "pf", "all") = Count(Views.cnt, "pf", "all") + (IF p # <<>> THEN 1 ELSE 0)
  <2>1. i # <<>> => /\ Delta(i[1], t, "timeout") = (IF Past(s, t) /\ Gap(s) > m_PsiTimeOut[t] THEN 1 ELSE 0)
                    /\ Delta(i[1], t, "lower25ms") = (IF Past(s, t) /\ Gap(s) < Lower THEN 1 ELSE 0)
                    /\ Delta(i[1], "pf", "all") = 0
    <3> SUFFICES ASSUME i # <<>> PROVE
                    /\ Delta(i[1], t, "timeout") = (IF Past(s, t) /\ Gap(s) > m_PsiTimeOut[t] THEN 1 ELSE 0)
                    /\ Delta(i[1], t, "lower25ms") = (IF Past(s, t) /\ Gap(s) < Lower THEN 1 ELSE 0)
                    /\ Delta(i[1], "pf", "all") = 0
      OBVIOUS
    <3>1. i[1] \in Messages /\ i[1].kind = "interval"
      BY <1>1, <1>2
    <3>2. Past(s, t) <=> t = i[1].table
      BY <1>3 DEF Past, i
    <3> QED BY <1>3, <3>1, <3>2, IntervalCounts
  <2>2. i = <<>> => ~Past(s, t)
    BY DEF Past, i
  <2>3. d # <<>> => /\ Delta(d[1], t, "timeout") = 0 /\ Delta(d[1], t, "lower25ms") = 0
                    /\ Delta(d[1], "pf", "all") = 0
    BY <1>1, <1>2, OtherCounts
  <2>4. p # <<>> => /\ Delta(p[1], t, "timeout") = 0 /\ Delta(p[1], t, "lower25ms") = 0
                    /\ Delta(p[1], "pf", "all") = 1
    BY <1>1, <1>2, OtherCounts
  <2>5. ASSUME NEW name, NEW cause
        PROVE  Count(v3.cnt, name, cause) = Count(Views.cnt, name, cause)
                 + (IF i = <<>> THEN 0 ELSE Delta(i[1], name, cause))
                 + (IF d = <<>> THEN 0 ELSE Delta(d[1], name, cause))
                 + (IF p = <<>> THEN 0 ELSE Delta(p[1], name, cause))
               /\ Count(Views.cnt, name, cause) \in Nat
    BY <1>5, <1>6, <1>7
  <2> HIDE DEF Added
  <2> QED BY <2>1, <2>2, <2>3, <2>4, <2>5
<1>11. "pf" \in Types /\ "nit_act" \in Si
  BY DEF Types, Si, OwnType
<1>12. v3.err["pf"] = Count(v3.cnt, "pf", "all") /\ Views.err["pf"] = Count(Views.cnt, "pf", "all")
  BY <1>7, <1>11 DEF ViewsInv
<1>13. m_pErrCnt'["pf"] = m_pErrCnt["pf"] + (IF p # <<>> THEN 1 ELSE 0)
  BY <1>9, <1>10, <1>11, <1>12
<1> QED BY <1>5, <1>7, <1>8, <1>9, <1>10, <1>13 DEF p

LEMMA SectionTimes ==
  ASSUME IInv, NEW s \in mux.sections, OnRecvNewSection(s), UNCHANGED stream
  PROVE  ClockInv' /\ TimesInv'
<1> DEFINE note == [time |-> time, jumps |-> jumps, skewed |-> skewed, behind |-> Behind]
<1>1. s.table \in Tables /\ ClockInv /\ TimesInv
  BY SectionMessages DEF IInv
<1>2. /\ m_pOldOccurTime' = [m_pOldOccurTime EXCEPT ![s.table] = llCurTime]
      /\ last' = [last EXCEPT ![s.table] = IF llCurTime = -1 THEN <<>> ELSE <<note>>]
      /\ mux' = mux
  BY DEF OnRecvNewSection, Observe
<1>3. /\ llCurTime \in Nat \cup {-1} /\ (llCurTime = -1 <=> lastPcr = -1)
      /\ lastPcr # -1 => Behind \in Nat
      /\ lastPcr # -1 /\ ~skewed => llCurTime = ((time + offset) + 1) - Behind
  BY <1>1, Shows
<1>4. llCurTime # -1 => note \in Notes
  BY <1>1, <1>3 DEF Notes, ClockInv
<1>5. /\ note.time = time /\ note.jumps = jumps /\ note.skewed = skewed /\ note.behind = Behind
      /\ <<note>>[1] = note /\ <<note>> # <<>>
  OBVIOUS
<1> HIDE DEF note
<1>6. UNCHANGED <<m_pSysClock, time, offset, jumps, lastPcr, skewed>>
  BY DEF stream
<1>7. ClockInv'
  <2>1. m_pOldOccurTime' \in [Tables -> Nat \cup {-1}]
    BY <1>1, <1>2, <1>3 DEF ClockInv
  <2>2. last' \in [Tables -> {<<>>} \cup {<<n>> : n \in Notes}]
    BY <1>1, <1>2, <1>4 DEF ClockInv
  <2> QED BY <1>1, <1>2, <1>6, <2>1, <2>2 DEF ClockInv, Counts
<1>8. ASSUME NEW t \in Tables, t # s.table
      PROVE  last'[t] = last[t] /\ m_pOldOccurTime'[t] = m_pOldOccurTime[t]
  BY <1>1, <1>2, <1>8 DEF ClockInv
<1>9. last'[s.table] = (IF llCurTime = -1 THEN <<>> ELSE <<note>>) /\ m_pOldOccurTime'[s.table] = llCurTime
  BY <1>1, <1>2 DEF ClockInv
<1>10. time \in Nat /\ jumps \in Nat
  BY <1>1 DEF ClockInv
<1>11. ASSUME NEW t \in Tables
      PROVE  /\ last'[t] = <<>> <=> m_pOldOccurTime'[t] = -1
             /\ last'[t] # <<>> =>
                  /\ lastPcr # -1 /\ last'[t][1] \in Notes /\ last'[t][1].jumps <= jumps /\ last'[t][1].time <= time
                  /\ last'[t][1].jumps = jumps /\ ~last'[t][1].skewed =>
                       m_pOldOccurTime'[t] = ((last'[t][1].time + offset) + 1) - last'[t][1].behind
  <2>1. CASE t = s.table
    <3>1. CASE llCurTime = -1
      BY <1>9, <2>1, <3>1
    <3>2. CASE llCurTime # -1
      <4>1. last'[t] = <<note>> /\ m_pOldOccurTime'[t] = llCurTime
        BY <1>9, <2>1, <3>2
      <4> QED BY <1>3, <1>4, <1>5, <1>10, <3>2, <4>1
    <3> QED BY <3>1, <3>2
  <2>2. CASE t # s.table
    BY <1>1, <1>8, <2>2 DEF TimesInv
  <2> QED BY <2>1, <2>2
<1> QED BY <1>6, <1>7, <1>11 DEF TimesInv

(* What OnRecvNewSection makes of two readings: the time between the sections,
   more by what the clock was behind at the first and less by what it is now. *)
LEMMA Measured ==
  ASSUME ClockInv, TimesInv, NEW t \in Tables, llCurTime # -1, last[t] # <<>>,
         last[t][1].jumps = jumps, ~last[t][1].skewed, ~skewed
  PROVE  /\ diff_pcr(llCurTime, m_pOldOccurTime[t]) =
              ((time - last[t][1].time) + last[t][1].behind) - Behind
         /\ time - last[t][1].time \in Nat /\ last[t][1].behind \in Nat /\ Behind \in Nat
<1>1. /\ lastPcr # -1 /\ Behind \in Nat /\ llCurTime = ((time + offset) + 1) - Behind
      /\ llCurTime \in Nat
  BY Shows
<1>2. /\ last[t][1] \in Notes /\ last[t][1].time <= time
      /\ m_pOldOccurTime[t] = ((last[t][1].time + offset) + 1) - last[t][1].behind
  BY DEF TimesInv
<1>3. PICK u \in Nat, d \in Nat : u = last[t][1].time /\ d = last[t][1].behind
  BY <1>2 DEF Notes
<1>4. PICK e \in Nat : e = Behind
  BY <1>1
<1>5. /\ time \in Nat /\ offset \in Nat /\ u <= time
      /\ ((time + offset) + 1) + WrapWindow < PcrMax /\ PcrMax \in Nat /\ WrapWindow \in Nat
  BY <1>2, <1>3, Limits DEF ClockInv
<1>6. /\ llCurTime = ((time + offset) + 1) - e /\ m_pOldOccurTime[t] = ((u + offset) + 1) - d
  BY <1>1, <1>2, <1>3, <1>4
<1>7. diff_pcr(((time + offset) + 1) - e, ((u + offset) + 1) - d) = ((time - u) + d) - e
  <2>1. PICK x \in Nat, o \in Nat : x = time /\ o = offset
    BY <1>5
  <2>2. u <= x /\ PcrMax \in Nat /\ WrapWindow \in Nat /\ ((x + o) + 1) + WrapWindow < PcrMax
    BY <1>5, <2>1
  <2>3. diff_pcr(((x + o) + 1) - e, ((u + o) + 1) - d) = ((x - u) + d) - e
    <3>1. PICK z \in Int : z = ((u + o) + 1) - d
      OBVIOUS
    <3>2. PICK w \in Int : w = ((x + o) + 1) - e
      OBVIOUS
    <3>3. PcrMax - z > WrapWindow
      BY <2>2, <3>1
    <3>4. diff_pcr(w, z) = w - z
      BY <3>3 DEF diff_pcr
    <3>5. w - z = ((x - u) + d) - e
      BY <3>1, <3>2
    <3> QED BY <3>1, <3>2, <3>4, <3>5
  <2> QED BY <2>1, <2>3
<1>8. time - u \in Nat
  BY <1>5
<1> QED BY <1>3, <1>4, <1>6, <1>7, <1>8

\* a count between the sure ones and those with the doubtful ones stays so
Between(n, sure, maybe, n1, sure1, maybe1) == n - sure \in 0 .. maybe => n1 - sure1 \in 0 .. maybe1

LEMMA SectionIntervals ==
  ASSUME IInv, NEW s \in mux.sections, OnRecvNewSection(s)
  PROVE  IntervalsInv'
<1> DEFINE known == llCurTime # -1 /\ last[s.table] # <<>>
           was == last[s.table][1]
           gap == time - was.time
           sure == jumps = was.jumps /\ ~was.skewed /\ ~skewed
           isLate == sure /\ gap - Behind > m_PsiTimeOut[s.table]
           isEarly == sure /\ gap + was.behind < Lower
           perhapsLate == ~isLate /\ (sure => gap + was.behind > m_PsiTimeOut[s.table])
           perhapsEarly == ~isEarly /\ (sure => gap - Behind < Lower)
           Only(b) == IF s.table \in Si /\ known /\ b THEN {s.table} ELSE {}
           A == Only(isLate)
           B == Only(isEarly)
           C == Only(perhapsLate)
           D == Only(perhapsEarly)
<1>0. ClockInv /\ TimesInv /\ ViewsInv(Views)
  BY DEF IInv
<1>1. s.table \in Tables
  BY <1>0, SectionMessages
<1>2. /\ late' = late (+) SetToBag(A) /\ early' = early (+) SetToBag(B)
      /\ maybeLate' = maybeLate (+) SetToBag(C) /\ maybeEarly' = maybeEarly (+) SetToBag(D)
  BY DEF OnRecvNewSection, Observe, EmptyBag
<1>3. Past(s, s.table) <=> known
  <2>1. last[s.table] = <<>> <=> m_pOldOccurTime[s.table] = -1
    BY <1>0, <1>1 DEF TimesInv
  <2> QED BY <2>1 DEF Past, IntervalReport
<1>4. known /\ sure => /\ Gap(s) = (gap + was.behind) - Behind
                       /\ gap \in Nat /\ was.behind \in Nat /\ Behind \in Nat
  BY <1>0, <1>1, Measured DEF Gap
<1>5. Lower \in Int /\ (s.table \in Si => m_PsiTimeOut[s.table] \in Int)
  BY LimitsAssumption
<1>6. known /\ sure /\ s.table \in Si =>
        /\ isLate => Gap(s) > m_PsiTimeOut[s.table]
        /\ Gap(s) > m_PsiTimeOut[s.table] => isLate \/ perhapsLate
        /\ isEarly => Gap(s) < Lower
        /\ Gap(s) < Lower => isEarly \/ perhapsEarly
  <2> SUFFICES ASSUME known, sure, s.table \in Si
               PROVE  /\ isLate => Gap(s) > m_PsiTimeOut[s.table]
                      /\ Gap(s) > m_PsiTimeOut[s.table] => isLate \/ perhapsLate
                      /\ isEarly => Gap(s) < Lower
                      /\ Gap(s) < Lower => isEarly \/ perhapsEarly
    OBVIOUS
  <2>0. PICK g \in Nat, d \in Nat, e \in Nat :
          g = gap /\ d = was.behind /\ e = Behind /\ Gap(s) = (g + d) - e
    BY <1>4
  <2>a. ASSUME NEW limit \in Int
        PROVE  /\ g - e > limit => Gap(s) > limit
               /\ Gap(s) > limit => g + d > limit
               /\ g + d < limit => Gap(s) < limit
               /\ Gap(s) < limit => g - e < limit
    <3>1. PICK x \in Int : x = Gap(s) /\ x = (g + d) - e
      BY <2>0
    <3>2. /\ g - e > limit => x > limit
          /\ x > limit => g + d > limit
          /\ g + d < limit => x < limit
          /\ x < limit => g - e < limit
      BY <3>1
    <3> QED BY <3>1, <3>2
  <2>1. /\ gap - Behind > m_PsiTimeOut[s.table] => Gap(s) > m_PsiTimeOut[s.table]
        /\ Gap(s) > m_PsiTimeOut[s.table] => gap + was.behind > m_PsiTimeOut[s.table]
    BY <1>5, <2>0, <2>a
  <2>2. /\ gap + was.behind < Lower => Gap(s) < Lower
        /\ Gap(s) < Lower => gap - Behind < Lower
    BY <1>5, <2>0, <2>a
  <2> HIDE DEF gap, was
  <2> QED BY <2>1, <2>2
<1>7. ~sure => perhapsLate /\ perhapsEarly /\ ~isLate /\ ~isEarly
  OBVIOUS
<1>8. ~(isLate /\ perhapsLate) /\ ~(isEarly /\ perhapsEarly)
  OBVIOUS
<1> HIDE DEF known, sure, isLate, isEarly, perhapsLate, perhapsEarly
<1>9. /\ A \in SUBSET Tables /\ B \in SUBSET Tables /\ C \in SUBSET Tables /\ D \in SUBSET Tables
      /\ \A t \in Si : /\ t \in A <=> t = s.table /\ known /\ isLate
                       /\ t \in B <=> t = s.table /\ known /\ isEarly
                       /\ t \in C <=> t = s.table /\ known /\ perhapsLate
                       /\ t \in D <=> t = s.table /\ known /\ perhapsEarly
  BY <1>1
<1> HIDE DEF A, B, C, D
<1>10. /\ late' \in BagsOf(Tables)
       /\ \A t : Copies(t, late) \in Nat /\ Copies(t, late') = Copies(t, late) + (IF t \in A THEN 1 ELSE 0)
  BY <1>2, <1>9, Adding DEF IInv, IntervalsInv
<1>11. /\ early' \in BagsOf(Tables)
       /\ \A t : Copies(t, early) \in Nat /\ Copies(t, early') = Copies(t, early) + (IF t \in B THEN 1 ELSE 0)
  BY <1>2, <1>9, Adding DEF IInv, IntervalsInv
<1>12. /\ maybeLate' \in BagsOf(Tables)
       /\ \A t : Copies(t, maybeLate) \in Nat /\ Copies(t, maybeLate') = Copies(t, maybeLate) + (IF t \in C THEN 1 ELSE 0)
  BY <1>2, <1>9, Adding DEF IInv, IntervalsInv
<1>13. /\ maybeEarly' \in BagsOf(Tables)
       /\ \A t : Copies(t, maybeEarly) \in Nat /\ Copies(t, maybeEarly') = Copies(t, maybeEarly) + (IF t \in D THEN 1 ELSE 0)
  BY <1>2, <1>9, Adding DEF IInv, IntervalsInv
<1>14. ASSUME NEW t \in Si
       PROVE  /\ Count(m_nErrCnt', t, "timeout") - Copies(t, late') \in 0 .. Copies(t, maybeLate')
              /\ Count(m_nErrCnt', t, "lower25ms") - Copies(t, early') \in 0 .. Copies(t, maybeEarly')
  <2>1. /\ Count(m_nErrCnt, t, "timeout") - Copies(t, late) \in 0 .. Copies(t, maybeLate)
        /\ Count(m_nErrCnt, t, "lower25ms") - Copies(t, early) \in 0 .. Copies(t, maybeEarly)
    BY DEF IInv, IntervalsInv, IntervalsTrue
  <2>2. /\ Count(m_nErrCnt', t, "timeout") = Count(m_nErrCnt, t, "timeout")
             + (IF Past(s, t) /\ Gap(s) > m_PsiTimeOut[t] THEN 1 ELSE 0)
        /\ Count(m_nErrCnt', t, "lower25ms") = Count(m_nErrCnt, t, "lower25ms")
             + (IF Past(s, t) /\ Gap(s) < Lower THEN 1 ELSE 0)
        /\ Count(m_nErrCnt, t, "timeout") \in Nat /\ Count(m_nErrCnt, t, "lower25ms") \in Nat
    BY <1>0, SectionReports
  <2>3. Past(s, t) <=> t = s.table /\ known
    BY <1>3 DEF Past
  <2>4. /\ t \in A => Past(s, t) /\ Gap(s) > m_PsiTimeOut[t] /\ t \notin C
        /\ Past(s, t) /\ Gap(s) > m_PsiTimeOut[t] => t \in A \/ t \in C
        /\ t \in B => Past(s, t) /\ Gap(s) < Lower /\ t \notin D
        /\ Past(s, t) /\ Gap(s) < Lower => t \in B \/ t \in D
    BY <1>6, <1>7, <1>8, <1>9, <2>3
  <2>5. Between(Count(m_nErrCnt, t, "timeout"), Copies(t, late), Copies(t, maybeLate),
              Count(m_nErrCnt', t, "timeout"), Copies(t, late'), Copies(t, maybeLate'))
    BY <1>10, <1>12, <2>1, <2>2, <2>4 DEF Between
  <2>6. Between(Count(m_nErrCnt, t, "lower25ms"), Copies(t, early), Copies(t, maybeEarly),
              Count(m_nErrCnt', t, "lower25ms"), Copies(t, early'), Copies(t, maybeEarly'))
    BY <1>11, <1>13, <2>1, <2>2, <2>4 DEF Between
  <2> QED BY <2>1, <2>5, <2>6 DEF Between
<1> QED BY <1>10, <1>11, <1>12, <1>13, <1>14 DEF IntervalsInv, IntervalsTrue

LEMMA SectionPF ==
  ASSUME IInv, NEW s \in mux.sections, OnRecvNewSection(s)
  PROVE  PFInv' /\ PFErrorsAreTrue'
<1>0. PFInv /\ m_pErrCnt["pf"] = Cardinality(Incomplete(pf)) /\ mux' = mux
  BY DEF IInv, PFErrorsAreTrue, OnRecvNewSection, Observe
<1>1. m_pErrCnt'["pf"] = m_pErrCnt["pf"] + (IF PFReport(s) # <<>> THEN 1 ELSE 0)
  BY SectionReports DEF IInv
<1>2. CASE s.table \notin PF
  <2>1. UNCHANGED <<m_bHaveEit_P, m_bHaveEit_F, m_bWaitFirstEitSection, m_PrevEitSection>> /\ pf' = pf
    BY <1>2 DEF OnRecvNewSection, Observe
  <2>2. PFReport(s) = <<>>
    BY <1>2 DEF PFReport, NewSubTable
  <2>3. PFInv'
    BY <1>0, <2>1 DEF PFInv, Has, Run
  <2>4. IsFiniteSet(Incomplete(pf))
    <3>1. Incomplete(pf) \subseteq 1 .. Len(pf) /\ Len(pf) \in Nat
      BY <1>0 DEF Incomplete, PFInv
    <3>2. IsFiniteSet(1 .. Len(pf))
      BY <3>1, FS_Interval
    <3> QED BY <3>1, <3>2, FS_Subset
  <2>5. m_pErrCnt'["pf"] = Cardinality(Incomplete(pf'))
    BY <1>0, <1>1, <2>1, <2>2, <2>4, FS_CardinalityType
  <2> QED BY <2>3, <2>5 DEF PFErrorsAreTrue
<1>3. CASE s.table \in PF
  <2> DEFINE n == Len(pf)
             over == n > 0 /\ SubTable(pf[n]) # SubTable(s)
  <2>1. /\ pf' = Append(pf, s) /\ UpdatePF(s)
        /\ m_bWaitFirstEitSection' = FALSE /\ m_PrevEitSection' = SubTable(s)
    BY <1>3 DEF OnRecvNewSection, Observe
  <2>2. pf \in Seq(mux.sections) /\ n \in Nat
    BY <1>0 DEF PFInv
  <2>3. /\ pf' \in Seq(mux.sections) /\ Len(pf') = n + 1 /\ pf'[n + 1] = s /\ \A i \in 1 .. n : pf'[i] = pf[i]
    BY <2>1, <2>2
  <2>4. /\ Incomplete(pf') = Incomplete(pf) \cup (IF over /\ ~Both(pf, n) THEN {n} ELSE {})
        /\ n \notin Incomplete(pf)
        /\ Run(pf', n + 1) = (IF n > 0 /\ ~over THEN Run(pf, n) ELSE {}) \cup {n + 1}
        /\ \A i \in 1 .. n : Run(pf, i) \subseteq 1 .. n
    BY <2>1, <2>2, RunsAppended
  <2>5. NewSubTable(s) <=> over
    BY <1>0, <1>3 DEF NewSubTable, PFInv
  <2>6. n > 0 => (Both(pf, n) <=> m_bHaveEit_P /\ m_bHaveEit_F)
    BY <1>0 DEF PFInv, Both, Has
  <2>7. PFReport(s) # <<>> <=> over /\ ~Both(pf, n)
    BY <2>5, <2>6 DEF PFReport
  <2>8. ASSUME NEW k PROVE Has(pf', n + 1, k) <=> s.number = k \/ (n > 0 /\ ~over /\ Has(pf, n, k))
    <3>1. n > 0 => \A j \in Run(pf, n) : pf'[j] = pf[j]
      BY <2>2, <2>3, <2>4
    <3> HIDE DEF n, over
    <3> QED BY <2>3, <2>4, <3>1 DEF Has
  <2>9. /\ m_bHaveEit_P' <=> Has(pf', n + 1, 0)
        /\ m_bHaveEit_F' <=> Has(pf', n + 1, 1)
    <3>1. /\ m_bHaveEit_P <=> n > 0 /\ Has(pf, n, 0)
          /\ m_bHaveEit_F <=> n > 0 /\ Has(pf, n, 1)
      BY <1>0, <2>2 DEF PFInv
    <3>2. /\ m_bHaveEit_P' <=> s.number = 0 \/ (m_bHaveEit_P /\ ~NewSubTable(s))
          /\ m_bHaveEit_F' <=> s.number = 1 \/ (m_bHaveEit_F /\ ~NewSubTable(s))
      BY <2>1 DEF UpdatePF
    <3> HIDE DEF over, n
    <3> QED BY <2>5, <2>8, <3>1, <3>2
  <2>10. PFInv'
    <3>1. m_bHaveEit_P' \in BOOLEAN /\ m_bHaveEit_F' \in BOOLEAN
      BY <2>1 DEF UpdatePF
    <3>2. Len(pf') > 0 /\ ~ (Len(pf') = 0) /\ pf'[Len(pf')] = s
      BY <2>2, <2>3
    <3> HIDE DEF n
    <3> QED BY <1>0, <2>1, <2>3, <2>9, <3>1, <3>2 DEF PFInv
  <2>11. m_pErrCnt'["pf"] = Cardinality(Incomplete(pf'))
    <3>1. Incomplete(pf) \subseteq 1 .. n /\ IsFiniteSet(1 .. n)
      BY <2>2, FS_Interval DEF Incomplete
    <3>2. IsFiniteSet(Incomplete(pf)) /\ Cardinality(Incomplete(pf)) \in Nat
      BY <3>1, FS_Subset, FS_CardinalityType
    <3>3. Cardinality(Incomplete(pf) \cup {n}) = Cardinality(Incomplete(pf)) + 1
      BY <2>4, <3>2, FS_AddElement
    <3> HIDE DEF over, n
    <3>4. CASE over /\ ~Both(pf, n)
      <4>1. Incomplete(pf') = Incomplete(pf) \cup {n}
        BY <2>4, <3>4
      <4> QED BY <1>0, <1>1, <2>7, <3>3, <3>4, <4>1
    <3>5. CASE ~ (over /\ ~Both(pf, n))
      <4>1. Incomplete(pf') = Incomplete(pf)
        BY <2>4, <3>5
      <4> QED BY <1>0, <1>1, <2>7, <3>2, <3>5, <4>1
    <3> QED BY <3>4, <3>5
  <2> QED BY <2>10, <2>11 DEF PFErrorsAreTrue
<1> QED BY <1>2, <1>3

-----------------------------------------------------------------------------
(* Every step *)

LEMMA Inductive == IInv /\ [Next]_vars => IInv'
<1> SUFFICES ASSUME IInv, [Next]_vars PROVE IInv'
  OBVIOUS
<1>1. CASE Section
  <2>1. PICK s \in mux.sections : OnRecvNewSection(s)
    BY <1>1 DEF Section
  <2>2. UNCHANGED stream
    BY <1>1 DEF Section, Arrive
  <2>3. ViewsInv(Views')
    BY <2>1, SectionReports DEF IInv
  <2> QED BY <2>1, <2>2, <2>3, SectionTimes, SectionIntervals, SectionPF DEF IInv
<1>2. CASE DamagedSection
  <2>1. PICK s \in mux.sections : OnCrcError(s.table)
    BY <1>2 DEF DamagedSection
  <2>2. UNCHANGED <<stream, psi, hist>>
    BY <1>2 DEF DamagedSection, Arrive
  <2>3. s.table \in Tables
    BY SectionMessages DEF IInv
  <2> DEFINE ms == IF s.table \in {"pat", "nit_act", "nit_other", "sdt_act", "sdt_other", "bat", "tot"} \cup PF
                   THEN <<Msg("crc", s.table, -1, FALSE)>> ELSE <<>>
  <2>4. Show(Reported(Views, ms))
    BY <2>1 DEF OnCrcError
  <2>5. ms \in Maybe /\ (ms # <<>> => ms[1].kind \notin {"interval", "pf"})
    <3>1. Msg("crc", s.table, -1, FALSE) \in Messages
      BY <2>3 DEF Msg, Messages
    <3> QED BY <3>1 DEF Maybe, Msg
  <2> HIDE DEF ms
  <2> QED BY <2>2, <2>4, <2>5, OthersReport
<1>3. CASE OtherReport
  <2>1. PICK m \in mux.others : Show(OnTrReport(Views, m))
    BY <1>3 DEF OtherReport
  <2>2. UNCHANGED <<stream, psi, hist>>
    BY <1>3 DEF OtherReport, Arrive
  <2>3. m \in [kind : {"pcr"}, table : {"none"}, llVal : Int, fVal : BOOLEAN]
    BY MuxesAssumption DEF IInv, ClockInv
  <2>4. m \in Messages /\ m.kind = "pcr"
    BY <2>3 DEF Messages
  <2>5. <<m>> \in Maybe /\ <<m>> # <<>> /\ <<m>>[1] = m
    BY <2>4 DEF Maybe
  <2>6. Show(Reported(Views, <<m>>))
    BY <2>1, <2>5 DEF Reported
  <2> QED BY <2>2, <2>4, <2>5, <2>6, OthersReport
<1>4. CASE PayloadPacket \/ (\E o \in mux.offsets : PcrPacket(o))
  <2>1. ClockInv' /\ TimesInv' /\ UNCHANGED <<views, psi, hist>>
    BY <1>4, ClockSteps
  <2>2. UNCHANGED <<m_nErrCnt, m_pErrCnt, pf>> /\ Views' = Views
    BY <2>1 DEF views, hist, Views
  <2>3. IntervalsInv' /\ PFInv'
    BY <2>1, <2>2, SameHistory DEF IInv, Count, Copies
  <2>4. PFErrorsAreTrue'
    BY <2>2 DEF IInv, PFErrorsAreTrue
  <2> QED BY <2>1, <2>2, <2>3, <2>4 DEF IInv
<1>5. CASE ReadResultToJson \/ UNCHANGED vars
  <2>1. /\ UNCHANGED <<stream, psi, m_vecMsg, m_nErrCnt, m_pErrCnt, hist>>
        /\ m_dqLst' \in {m_dqLst, <<>>}
    BY <1>5 DEF ReadResultToJson, vars, views
  <2>2. ViewsInv(Views')
    <3>1. ViewsInv(Views)
      BY DEF IInv
    <3>2. /\ Views'.msgs = Views.msgs /\ Views'.cnt = Views.cnt /\ Views'.err = Views.err
          /\ Views'.list \in {Views.list, <<>>}
      BY <2>1 DEF Views
    <3>3. Views' \in ViewTypes /\ Len(Views'.list) <= MAX_MSG_CNT
      <4>1. <<>> \in Seq(Messages) /\ Len(<<>>) <= MAX_MSG_CNT
        BY LimitsAssumption
      <4>2. /\ m_vecMsg \in Seq(Messages) /\ m_nErrCnt \in BagsOf(Counters)
            /\ m_pErrCnt \in [Types -> Nat] /\ m_dqLst \in Seq(Messages) /\ Len(m_dqLst) <= MAX_MSG_CNT
        BY <3>1 DEF ViewsInv, ViewTypes, Views
      <4> QED BY <2>1, <4>1, <4>2 DEF Views, ViewTypes
    <3> QED BY <3>1, <3>2, <3>3 DEF ViewsInv, ReplayInv
  <2>3. ClockInv' /\ TimesInv'
    BY <2>1 DEF IInv, ClockInv, TimesInv, Counts, psi, hist, stream
  <2>4. IntervalsInv' /\ PFInv'
    BY <2>1, SameHistory DEF IInv, Count, Copies
  <2>5. PFErrorsAreTrue'
    BY <2>1 DEF IInv, PFErrorsAreTrue, hist
  <2> QED BY <2>2, <2>3, <2>4, <2>5 DEF IInv
<1> QED BY <1>1, <1>2, <1>3, <1>4, <1>5 DEF Next

LEMMA Invariant == Spec => []IInv
  BY Initial, Inductive, PTL DEF Spec

(* The types, and that the list shown and the messages kept never outgrow their
   limits: every report that finds one full drops the oldest. *)
THEOREM TypeCorrect == Spec => []TypeOK
<1>1. IInv => TypeOK
  <2> SUFFICES ASSUME IInv PROVE TypeOK
    OBVIOUS
  <2>1. /\ m_pSysClock \in [before : Nat \cup {-1}, packets : Nat, rate : Nat \X Nat]
        /\ m_pOldOccurTime \in [Tables -> Nat \cup {-1}]
    <3>1. ClockInv
      BY DEF IInv
    <3>2. CASE lastPcr = -1
      BY <3>1, <3>2 DEF ClockInv, ResetClock, NoRate
    <3>3. CASE lastPcr # -1
      <4>1. /\ m_pSysClock = [before |-> lastPcr + offset, packets |-> (time - lastPcr) + 1, rate |-> m_pSysClock.rate]
            /\ m_pSysClock.rate \in {NoRate} \cup Rates \cup TrueRates
        BY <3>1, <3>3 DEF ClockInv, Counts
      <4>2. lastPcr + offset \in Nat /\ (time - lastPcr) + 1 \in Nat
        BY <3>1, <3>3, Limits DEF ClockInv
      <4>3. m_pSysClock.rate \in Nat \X Nat
        BY <4>1 DEF NoRate, Rates, TrueRates
      <4> QED BY <3>1, <4>1, <4>2, <4>3 DEF ClockInv
    <3> QED BY <3>2, <3>3
  <2>2. m_bHaveEit_P \in BOOLEAN /\ m_bHaveEit_F \in BOOLEAN /\ m_bWaitFirstEitSection \in BOOLEAN
    BY DEF IInv, PFInv
  <2>3. /\ m_nErrCnt \in BagsOf(Counters) /\ m_pErrCnt \in [Types -> Nat]
        /\ Len(m_vecMsg) <= MAX_MSG_SAVE_CNT + 1 /\ Len(m_dqLst) <= MAX_MSG_CNT
    BY DEF IInv, ViewsInv, ViewTypes, Views
  <2>4. IsABag(m_nErrCnt) /\ DOMAIN m_nErrCnt \subseteq Counters
    BY <2>3, Bagged
  <2> QED BY <2>1, <2>2, <2>3, <2>4 DEF TypeOK
<1> QED BY <1>1, Invariant, PTL

(* Whatever is reported, ignored by its value or dropped for want of room: the
   parts of a type's brief add up to its count. *)
THEOREM BriefAdds == Spec => []BriefAddsUp
<1>1. IInv => BriefAddsUp
  <2> SUFFICES ASSUME IInv PROVE BriefAddsUp
    OBVIOUS
  <2>1. CountsInv(m_nErrCnt) /\ \A type \in Types : m_pErrCnt[type] = Count(m_nErrCnt, type, "all")
    BY DEF IInv, ViewsInv, Views
  <2>2. Part("crc") = PartOf(m_nErrCnt, "crc") /\ Part("timeout") = PartOf(m_nErrCnt, "timeout")
    BY DEF Part, PartOf
  <2>3. /\ \A t \in OwnType : t \in Types /\ t \in Tables
        /\ "crc" \in Types /\ "si" \in Types /\ "rst" \in Tables
    BY DEF Types, Tables, Si
  <2>4. \A t \in Tables : \A cause : Part(cause)[t] = Count(m_nErrCnt, t, cause)
    BY DEF Part
  <2> QED BY <2>1, <2>2, <2>3, <2>4 DEF BriefAddsUp, CountsInv
<1> QED BY <1>1, Invariant, PTL

(* PlayBackMsg lists again what the counts of CTrMsgMgr counted, however the
   list it fills and the list of reports are limited. *)
THEOREM ReplayMatches == Spec => []ReplayMatchesCount
<1>1. IInv => ReplayMatchesCount
  <2> SUFFICES ASSUME IInv, Len(m_vecMsg) < MAX_MSG_SAVE_CNT, NEW type \in Types
               PROVE  Len(Replayed(type)) = Min({m_pErrCnt[type], MAX_MSG_CNT})
    BY DEF ReplayMatchesCount
  <2>1. Replayed(type) = Replay(type, m_vecMsg)
    BY DEF Replayed, Replay
  <2>2. /\ m_pErrCnt[type] \in Nat
        /\ Len(Replay(type, m_vecMsg)) = IF m_pErrCnt[type] < MAX_MSG_CNT THEN m_pErrCnt[type] ELSE MAX_MSG_CNT
    BY DEF IInv, ViewsInv, ViewTypes, ReplayInv, Views
  <2>3. \A a, b \in Nat : Min({a, b}) = IF a < b THEN a ELSE b
    BY DEF Min
  <2> QED BY <2>1, <2>2, <2>3, LimitsAssumption
<1> QED BY <1>1, Invariant, PTL

(* An interval error is counted for sections that were that far apart, for every
   stream, every timeout that is not below the lower limit, every limit past
   which the clock starts again, and any PCRs and jumps of the PCR away from its
   wrap: exactly where the clock had a rate, and give or take the time since the
   last PCR where it had none. *)
THEOREM IntervalErrorsTrue == Spec => []IntervalErrorsAreTrue
<1>1. IInv => IntervalErrorsAreTrue
  BY IntervalsOf DEF IInv, IntervalsInv
<1> QED BY <1>1, Invariant, PTL

(* CheckPrevEitPF counts an error just for every run of sections of one subtable
   that ended without having had section 0 and section 1. *)
THEOREM PFErrorsTrue == Spec => []PFErrorsAreTrue
<1>1. IInv => PFErrorsAreTrue
  BY DEF IInv
<1> QED BY <1>1, Invariant, PTL
=============================================================================
