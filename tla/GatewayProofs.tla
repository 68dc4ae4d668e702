---------------------------- MODULE GatewayProofs -----------------------------
(***************************************************************************)
(* What is proved of the sanitizer and the privacy gateway, for every text, *)
(* result and setting: nothing that a pattern matches is left, and nothing *)
(* of the cache of compiled rules can make a difference.  Recursive        *)
(* functions are reasoned about by the least place at which what is to be  *)
(* shown of them would fail.                                               *)
(***************************************************************************)
EXTENDS AnalysisProperties, FiniteSetTheorems, WellFoundedInduction, TLAPS

(***************************************************************************)
(* Recursion over 0 .. N.                                                  *)
(***************************************************************************)
\* What holds at 0 and of every place that follows one of which it holds.
LEMMA Stepwise ==
    ASSUME NEW N \in Nat, NEW S, 0 \in S, \A n \in 1 .. N : n - 1 \in S => n \in S
    PROVE  0 .. N \subseteq S
<1> DEFINE Failing == {n \in 0 .. N : n \notin S}
<1> SUFFICES ASSUME Failing # {} PROVE FALSE
  OBVIOUS
<1>1. PICK n \in Failing : \A m \in Failing : ~(m < n)
  <2>1. Failing \subseteq Nat
    OBVIOUS
  <2>2. \E n \in Failing : \A m \in Failing : <<m, n>> \notin OpToRel(<, Nat)
    BY <2>1, NatLessThanWellFounded, WFMin
  <2> QED
    BY <2>1, <2>2 DEF OpToRel
<1>2. n \in 1 .. N /\ n - 1 \in 0 .. N
  <2>1. n \in 0 .. N /\ n # 0
    BY <1>1
  <2> QED
    BY <2>1
<1>3. n - 1 \in S
  BY <1>1, <1>2
<1> QED
  BY <1>1, <1>2, <1>3

\* f has a value at 0, and at each later place what the step makes of the one before.
Follows(f, N, Vals, base, step) ==
    f \in [0 .. N -> Vals] /\ f[0] = base /\ \A n \in 1 .. N : f[n] = step[n][f[n - 1]]

\* A function over 0 .. N can be given so.
LEMMA RecursionExists ==
    ASSUME NEW N \in Nat, NEW Vals, NEW base \in Vals, NEW step \in [1 .. N -> [Vals -> Vals]]
    PROVE  \E f : Follows(f, N, Vals, base, step)
<1> DEFINE Upto(k, f) == f[0] = base /\ \A n \in 1 .. k : f[n] = step[n][f[n - 1]]
           Known == {k \in 0 .. N : \E f \in [0 .. k -> Vals] : Upto(k, f)}
<1>1. 0 \in Known
  <2> DEFINE g == [n \in 0 .. 0 |-> base]
  <2>1. g \in [0 .. 0 -> Vals] /\ g[0] = base
    OBVIOUS
  <2>2. 1 .. 0 = {}
    OBVIOUS
  <2> HIDE DEF g
  <2> QED
    BY <2>1, <2>2
<1>2. ASSUME NEW k \in 1 .. N, k - 1 \in Known PROVE k \in Known
  <2>1. PICK f \in [0 .. k - 1 -> Vals] : Upto(k - 1, f)
    BY <1>2
  <2> DEFINE g == [n \in 0 .. k |-> IF n = k THEN step[k][f[k - 1]] ELSE f[n]]
  <2>2. g \in [0 .. k -> Vals]
    <3>1. f[k - 1] \in Vals
      BY <2>1
    <3> QED
      BY <2>1, <3>1
  <2>3. g[0] = base
    BY <2>1
  <2>4. ASSUME NEW n \in 1 .. k PROVE g[n] = step[n][g[n - 1]]
    <3>1. CASE n = k
      BY <3>1
    <3>2. CASE n # k
      <4>1. n \in 1 .. k - 1 /\ n - 1 \in 0 .. k /\ n - 1 # k
        BY <3>2
      <4>2. g[n] = f[n] /\ g[n - 1] = f[n - 1]
        BY <3>2, <4>1
      <4> QED
        BY <2>1, <4>1, <4>2
    <3> QED
      BY <3>1, <3>2
  <2> HIDE DEF g
  <2> QED
    BY <2>2, <2>3, <2>4
<1> HIDE DEF Upto
<1>3. 0 .. N \subseteq Known
  BY <1>1, <1>2, Stepwise
<1>4. \E f \in [0 .. N -> Vals] : Upto(N, f)
  BY <1>3
<1> QED
  BY <1>4 DEF Upto, Follows

(***************************************************************************)
(* Orders of a finite set.                                                 *)
(***************************************************************************)
\* In an order of a finite set, where below[x] is what comes before x, no two elements
\* have as many before them.
LEMMA PlacesDiffer ==
    ASSUME NEW S, IsFiniteSet(S), NEW below \in [S -> SUBSET S],
           \A x \in S : x \notin below[x],
           \A x, y \in S : x \in below[y] => below[x] \subseteq below[y],
           \A x, y \in S : x = y \/ x \in below[y] \/ y \in below[x]
    PROVE  /\ \A x \in S : Cardinality(below[x]) \in Nat /\ Cardinality(below[x]) < Cardinality(S)
           /\ \A x, y \in S : Cardinality(below[x]) = Cardinality(below[y]) => x = y
<1>1. \A x \in S : IsFiniteSet(below[x]) /\ Cardinality(below[x]) \in Nat
  BY FS_Subset, FS_CardinalityType
<1>2. ASSUME NEW x \in S, NEW y \in S, x \in below[y]
      PROVE  Cardinality(below[x]) # Cardinality(below[y])
  <2>1. below[x] \subseteq below[y] /\ below[x] # below[y]
    BY <1>2
  <2>2. below[x] \in SUBSET below[y] /\ IsFiniteSet(below[y])
    BY <1>1, <2>1
  <2>3. Cardinality(below[y]) = Cardinality(below[x]) => below[y] = below[x]
    BY <2>2, FS_Subset, Zenon
  <2> QED
    BY <2>1, <2>3
<1>3. ASSUME NEW x \in S PROVE Cardinality(below[x]) < Cardinality(S)
  <2>1. below[x] \in SUBSET S /\ below[x] # S
    BY <1>3
  <2>2. Cardinality(below[x]) <= Cardinality(S) /\ Cardinality(S) # Cardinality(below[x])
    BY <2>1, FS_Subset
  <2>3. Cardinality(S) \in Nat
    BY FS_CardinalityType
  <2> QED
    BY <1>1, <2>2, <2>3
<1> QED
  BY <1>1, <1>2, <1>3

\* Where below[x] is what comes before x in an order of S, fewer than n elements come
\* before at most n of them.
LEMMA FewBelow ==
    ASSUME NEW S, IsFiniteSet(S), NEW n \in Nat, NEW below \in [S -> SUBSET S],
           \A x \in S : x \notin below[x],
           \A x, y \in S : x \in below[y] => below[x] \subseteq below[y],
           \A x, y \in S : x = y \/ x \in below[y] \/ y \in below[x],
           NEW T, T = {x \in S : Cardinality(below[x]) < n}
    PROVE  IsFiniteSet(T) /\ Cardinality(T) <= n
<1> DEFINE place == [x \in T |-> Cardinality(below[x])]
<1>1. /\ \A x \in S : Cardinality(below[x]) \in Nat
      /\ \A x, y \in S : Cardinality(below[x]) = Cardinality(below[y]) => x = y
  BY PlacesDiffer
<1>2. place \in [T -> 0 .. n - 1]
  BY <1>1
<1>3. place \in Injection(T, 0 .. n - 1)
  <2>1. ASSUME NEW x \in T, NEW y \in T, place[x] = place[y] PROVE x = y
    BY <1>1, <2>1
  <2> HIDE DEF place
  <2> QED
    BY <1>2, <2>1 DEF Injection, IsInjective
<1>4. IsFiniteSet(0 .. n - 1) /\ Cardinality(0 .. n - 1) = n
  BY FS_Interval
<1> QED
  BY <1>3, <1>4, FS_Injection

LEMMA Intervals ==
    \A n \in Nat : /\ IsFiniteSet(1 .. n) /\ Cardinality(1 .. n) = n
                  /\ IsFiniteSet(0 .. n - 1) /\ Cardinality(0 .. n - 1) = n
<1> SUFFICES ASSUME NEW n \in Nat
             PROVE  /\ IsFiniteSet(1 .. n) /\ Cardinality(1 .. n) = n
                    /\ IsFiniteSet(0 .. n - 1) /\ Cardinality(0 .. n - 1) = n
  OBVIOUS
<1>1. IsFiniteSet(1 .. n) /\ Cardinality(1 .. n) = n
  BY FS_Interval
<1>2. IsFiniteSet(0 .. n - 1) /\ Cardinality(0 .. n - 1) = n
  BY FS_Interval
<1> QED
  BY <1>1, <1>2

\* Parts that are disjoint and make up a whole.
LEMMA TwoParts ==
    ASSUME NEW S, IsFiniteSet(S), NEW T \in SUBSET S
    PROVE  /\ IsFiniteSet(T) /\ IsFiniteSet(S \ T)
           /\ Cardinality(T) \in Nat /\ Cardinality(S \ T) \in Nat
           /\ Cardinality(S) = Cardinality(T) + Cardinality(S \ T)
<1>1. IsFiniteSet(T) /\ IsFiniteSet(S \ T)
  BY FS_Subset
<1>2. Cardinality(T) \in Nat /\ Cardinality(S \ T) \in Nat
  BY <1>1, FS_CardinalityType
<1>3. T \cup (S \ T) = S /\ T \cap (S \ T) = {}
  OBVIOUS
<1>4. Cardinality(T \cup (S \ T)) = Cardinality(T) + Cardinality(S \ T) - Cardinality(T \cap (S \ T))
  BY <1>1, FS_Union
<1>5. Cardinality({}) = 0
  BY FS_EmptySet
<1>6. Cardinality(S) = Cardinality(T) + Cardinality(S \ T) - 0
  BY <1>3, <1>4, <1>5, Zenon
<1> QED
  BY <1>1, <1>2, <1>6

Parts(S, a, b, c) ==
    /\ IsFiniteSet(S) /\ a \in SUBSET S /\ b \in SUBSET S /\ c \in SUBSET S
    /\ a \cap b = {} /\ a \cap c = {} /\ b \cap c = {} /\ a \cup b \cup c = S
SumUp(S, a, b, c) ==
    /\ Cardinality(a) \in Nat /\ Cardinality(b) \in Nat /\ Cardinality(c) \in Nat
    /\ Cardinality(S) = Cardinality(a) + Cardinality(b) + Cardinality(c)
LEMMA ThreeParts ==
    ASSUME NEW S, NEW a, NEW b, NEW c, Parts(S, a, b, c)
    PROVE  SumUp(S, a, b, c)
<1> USE DEF Parts
<1> DEFINE rest == S \ a
<1>1. IsFiniteSet(rest) /\ Cardinality(a) \in Nat /\ Cardinality(S) = Cardinality(a) + Cardinality(rest)
  BY TwoParts
<1>2. b \in SUBSET rest /\ rest \ b = c
  OBVIOUS
<1> HIDE DEF rest
<1>3. /\ Cardinality(b) \in Nat /\ Cardinality(rest \ b) \in Nat
      /\ Cardinality(rest) = Cardinality(b) + Cardinality(rest \ b)
  BY <1>1, <1>2, TwoParts
<1> QED
  BY <1>1, <1>2, <1>3 DEF SumUp

\* A set of places has a first and a last one.
LEMMA FirstPlace ==
    ASSUME NEW S \in SUBSET Nat, S # {}
    PROVE  \E first \in S : \A i \in S : first <= i
<1>1. S \subseteq Nat
  OBVIOUS
<1>2. PICK first \in S : \A i \in S : <<i, first>> \notin OpToRel(<, Nat)
  BY <1>1, NatLessThanWellFounded, WFMin
<1>3. ASSUME NEW i \in S PROVE first <= i
  <2>1. i \in Nat /\ first \in Nat /\ ~(i < first)
    BY <1>1, <1>2 DEF OpToRel
  <2> QED
    BY <2>1
<1> QED
  BY <1>3

LEMMA LastPlace ==
    ASSUME NEW N \in Nat, NEW S \in SUBSET (1 .. N), S # {}
    PROVE  \E last \in S : \A i \in S : last >= i
<1> DEFINE T == {N - i : i \in S}
<1>1. T \in SUBSET Nat /\ T # {}
  <2>1. \A i \in S : i \in 1 .. N
    OBVIOUS
  <2>2. \A i \in 1 .. N : N - i \in Nat
    OBVIOUS
  <2>3. PICK i : i \in S
    OBVIOUS
  <2> QED
    BY <2>1, <2>2, <2>3
<1>2. PICK m \in T : \A t \in T : m <= t
  BY <1>1, FirstPlace
<1>3. PICK last \in S : m = N - last
  BY <1>2
<1>4. ASSUME NEW i \in S PROVE last >= i
  <2>1. N - last <= N - i
    BY <1>2, <1>3
  <2> QED
    BY <2>1
<1> QED
  BY <1>4

(***************************************************************************)
(* Sequences.                                                              *)
(***************************************************************************)
\* A part of a sequence.
LEMMA SubSeqParts ==
    ASSUME NEW S, NEW seq \in Seq(S), NEW a \in Nat \ {0}, NEW b \in Nat, a <= b + 1, b <= Len(seq)
    PROVE  /\ SubSeq(seq, a, b) \in Seq(S) /\ Len(SubSeq(seq, a, b)) = b - a + 1
           /\ \A i \in 1 .. b - a + 1 : SubSeq(seq, a, b)[i] = seq[a + i - 1]
<1>1. SubSeq(seq, a, b) = [i \in 1 .. b - a + 1 |-> seq[a + i - 1]]
  OBVIOUS
<1>2. \A i \in 1 .. b - a + 1 : a + i - 1 \in 1 .. Len(seq)
  OBVIOUS
<1> QED
  BY <1>1, <1>2

\* The elements of out are those of seq at the places.
Taken(out, seq, places) ==
    \A x : (\E i \in DOMAIN out : out[i] = x) <=> \E i \in DOMAIN seq \cap places : seq[i] = x

\* How they are gathered.
LEMMA AtSteps ==
    ASSUME NEW S, NEW seq \in Seq(S), NEW places, NEW kept, kept = At(seq, places)
    PROVE  /\ kept[0] = <<>>
           /\ \A n \in 1 .. Len(seq) :
                 kept[n] = IF n \in places THEN Append(kept[n - 1], seq[n]) ELSE kept[n - 1]
<1> DEFINE N == Len(seq)
           step == [n \in 1 .. N |-> [s \in Seq(S) |-> IF n \in places THEN Append(s, seq[n]) ELSE s]]
           Body(g) == [n \in 0 .. N |-> IF n = 0 THEN <<>>
                                        ELSE IF n \in places THEN Append(g[n - 1], seq[n]) ELSE g[n - 1]]
<1>1. N \in Nat /\ DOMAIN seq = 1 .. N
  OBVIOUS
<1>2. step \in [1 .. N -> [Seq(S) -> Seq(S)]]
  OBVIOUS
<1>3. \E g : g = Body(g)
  <2>1. <<>> \in Seq(S)
    OBVIOUS
  <2> HIDE DEF N, step, Body
  <2>2. PICK g : Follows(g, N, Seq(S), <<>>, step)
    BY <1>1, <1>2, <2>1, RecursionExists
  <2> USE DEF Follows
  <2>3. ASSUME NEW n \in 1 .. N
        PROVE  g[n] = IF n \in places THEN Append(g[n - 1], seq[n]) ELSE g[n - 1]
    <3>1. g[n - 1] \in Seq(S)
      BY <1>1, <2>2
    <3> QED
      BY <2>2, <3>1 DEF step
  <2>4. \A n \in 0 .. N : n = 0 \/ n \in 1 .. N
    BY <1>1
  <2>5. \A n \in 0 .. N : g[n] = IF n = 0 THEN <<>>
                                 ELSE IF n \in places THEN Append(g[n - 1], seq[n]) ELSE g[n - 1]
    BY <2>2, <2>3, <2>4, Zenon
  <2>6. g = Body(g)
    BY <2>2, <2>5, Zenon DEF Body
  <2> QED
    BY <2>6
<1>4. kept = CHOOSE g : g = Body(g)
  BY DEF At
<1>5. kept = Body(kept)
  <2> HIDE DEF Body
  <2> QED
    BY <1>3, <1>4
<1> HIDE DEF N, step
<1>6. kept[0] = <<>> /\ \A n \in 1 .. N : kept[n] = IF n \in places THEN Append(kept[n - 1], seq[n]) ELSE kept[n - 1]
  <2>1. 0 \in 0 .. N /\ \A n \in 1 .. N : n \in 0 .. N /\ n # 0
    BY <1>1
  <2> QED
    BY <1>5, <2>1, Zenon
<1> QED
  BY <1>6 DEF N

LEMMA AtPlaces ==
    ASSUME NEW S, NEW seq \in Seq(S), NEW places
    PROVE  /\ At(seq, places)[Len(seq)] \in Seq(S)
           /\ Taken(At(seq, places)[Len(seq)], seq, places)
<1> DEFINE N == Len(seq)
           kept == At(seq, places)
<1>1. N \in Nat /\ DOMAIN seq = 1 .. N
  OBVIOUS
<1> HIDE DEF kept
<1>6. kept[0] = <<>> /\ \A n \in 1 .. N : kept[n] = IF n \in places THEN Append(kept[n - 1], seq[n]) ELSE kept[n - 1]
  BY AtSteps DEF kept
<1> HIDE DEF N
<1> DEFINE Holds(k, s) == \A x : (\E i \in DOMAIN s : s[i] = x) <=> \E i \in (1 .. k) \cap places : seq[i] = x
           Right == {n \in 0 .. N : kept[n] \in Seq(S) /\ Holds(n, kept[n])}
<1>7. 0 \in Right
  <2>1. (1 .. 0) \cap places = {} /\ DOMAIN <<>> = {} /\ <<>> \in Seq(S)
    OBVIOUS
  <2>2. 0 \in 0 .. N
    BY <1>1
  <2> QED
    BY <1>6, <2>1, <2>2, Zenon
<1>8. ASSUME NEW n \in 1 .. N, n - 1 \in Right PROVE n \in Right
  <2>1. kept[n - 1] \in Seq(S) /\ Holds(n - 1, kept[n - 1]) /\ seq[n] \in S
    BY <1>1, <1>8
  <2>2. CASE n \in places
    <3>1. kept[n] = Append(kept[n - 1], seq[n])
      BY <1>6, <2>2
    <3>2. kept[n] \in Seq(S)
      BY <2>1, <3>1
    <3>3. ASSUME NEW x PROVE (\E i \in DOMAIN kept[n] : kept[n][i] = x)
                               <=> (\E i \in DOMAIN kept[n - 1] : kept[n - 1][i] = x) \/ x = seq[n]
      <4>1. DOMAIN kept[n] = (1 .. Len(kept[n - 1])) \cup {Len(kept[n - 1]) + 1}
        BY <2>1, <3>1
      <4>2. \A i \in 1 .. Len(kept[n - 1]) : kept[n][i] = kept[n - 1][i]
        BY <2>1, <3>1
      <4>3. kept[n][Len(kept[n - 1]) + 1] = seq[n]
        BY <2>1, <3>1
      <4>4. DOMAIN kept[n - 1] = 1 .. Len(kept[n - 1])
        BY <2>1
      <4> QED
        BY <4>1, <4>2, <4>3, <4>4
    <3>4. (1 .. n) \cap places = ((1 .. n - 1) \cap places) \cup {n}
      BY <1>1, <2>2
    <3>5. Holds(n, kept[n])
      BY <2>1, <3>3, <3>4
    <3> QED
      BY <3>2, <3>5
  <2>3. CASE n \notin places
    <3>1. kept[n] = kept[n - 1]
      BY <1>6, <2>3
    <3>2. (1 .. n) \cap places = (1 .. n - 1) \cap places /\ n \in 0 .. N
      BY <1>1, <2>3
    <3> QED
      BY <2>1, <3>1, <3>2, Zenon
  <2> QED
    BY <2>2, <2>3
<1> HIDE DEF Holds
<1>9. 0 .. N \subseteq Right
  BY <1>1, <1>7, <1>8, Stepwise
<1>10. kept[N] \in Seq(S) /\ Holds(N, kept[N])
  BY <1>1, <1>9
<1>11. Taken(kept[N], seq, places)
  BY <1>1, <1>10 DEF Holds, Taken
<1> QED
  BY <1>10, <1>11 DEF kept, N

\* As many as there are places.
LEMMA AtCounts ==
    ASSUME NEW S, NEW seq \in Seq(S), NEW places \in SUBSET DOMAIN seq
    PROVE  IsFiniteSet(places) /\ Len(At(seq, places)[Len(seq)]) = Cardinality(places)
<1> DEFINE N == Len(seq)
           kept == At(seq, places)
           Upto(n) == (1 .. n) \cap places
           Right == {n \in 0 .. N : /\ kept[n] \in Seq(S)
                                    /\ IsFiniteSet(Upto(n)) /\ Len(kept[n]) = Cardinality(Upto(n))}
<1>1. N \in Nat /\ DOMAIN seq = 1 .. N /\ \A n \in 1 .. N : seq[n] \in S
  OBVIOUS
<1> HIDE DEF kept
<1>2. kept[0] = <<>> /\ \A n \in 1 .. N : kept[n] = IF n \in places THEN Append(kept[n - 1], seq[n]) ELSE kept[n - 1]
  BY AtSteps DEF kept
<1> HIDE DEF N
<1>3. 0 \in Right
  <2>1. Upto(0) = {} /\ Len(<<>>) = 0 /\ <<>> \in Seq(S) /\ 0 \in 0 .. N
    BY <1>1
  <2>2. IsFiniteSet({}) /\ Cardinality({}) = 0
    BY FS_EmptySet
  <2> QED
    BY <1>2, <2>1, <2>2, Zenon
<1>4. ASSUME NEW n \in 1 .. N, n - 1 \in Right PROVE n \in Right
  <2>1. /\ kept[n - 1] \in Seq(S) /\ seq[n] \in S /\ n \in 0 .. N
        /\ IsFiniteSet(Upto(n - 1)) /\ Len(kept[n - 1]) = Cardinality(Upto(n - 1))
    BY <1>1, <1>4
  <2>2. CASE n \in places
    <3>1. kept[n] = Append(kept[n - 1], seq[n])
      BY <1>2, <2>2
    <3>2. kept[n] \in Seq(S) /\ Len(kept[n]) = Len(kept[n - 1]) + 1
      BY <2>1, <3>1
    <3>3. Upto(n) = Upto(n - 1) \cup {n} /\ n \notin Upto(n - 1)
      BY <1>1, <2>2
    <3> HIDE DEF Upto
    <3>a. /\ IsFiniteSet(Upto(n - 1) \cup {n})
          /\ Cardinality(Upto(n - 1) \cup {n}) =
                IF n \in Upto(n - 1) THEN Cardinality(Upto(n - 1)) ELSE Cardinality(Upto(n - 1)) + 1
      BY <2>1, FS_AddElement, Zenon
    <3>4. IsFiniteSet(Upto(n)) /\ Cardinality(Upto(n)) = Cardinality(Upto(n - 1)) + 1
      BY <3>3, <3>a, Zenon
    <3> QED
      BY <2>1, <3>2, <3>4
  <2>3. CASE n \notin places
    <3>1. kept[n] = kept[n - 1]
      BY <1>2, <2>3
    <3>2. Upto(n) = Upto(n - 1)
      BY <1>1, <2>3
    <3> QED
      BY <2>1, <3>1, <3>2, Zenon
  <2> QED
    BY <2>2, <2>3
<1> HIDE DEF Right
<1>5. 0 .. N \subseteq Right
  BY <1>1, <1>3, <1>4, Stepwise
<1>6. N \in Right
  BY <1>1, <1>5
<1>7. Upto(N) = places
  BY <1>1
<1> HIDE DEF Upto
<1> QED
  BY <1>6, <1>7, Zenon DEF Right, kept, N

\* The tools have these operators of their own.
LEMMA SameAt == \A seq, places : /\ F!At(seq, places) = At(seq, places)
                                 /\ L!At(seq, places) = At(seq, places)
                                 /\ P!At(seq, places) = At(seq, places)
                                 /\ A!At(seq, places) = At(seq, places)
                                 /\ D!At(seq, places) = At(seq, places)
  BY DEF F!At, L!At, P!At, A!At, D!At, At

LEMMA AtPlacesOfF ==
    ASSUME NEW S, NEW seq \in Seq(S), NEW places
    PROVE  /\ F!At(seq, places)[Len(seq)] \in Seq(S)
           /\ Taken(F!At(seq, places)[Len(seq)], seq, places)
<1> DEFINE out == At(seq, places)[Len(seq)]
<1>1. out \in Seq(S) /\ Taken(out, seq, places)
  BY AtPlaces
<1>2. F!At(seq, places)[Len(seq)] = out
  BY SameAt, Zenon
<1> HIDE DEF out
<1> QED
  BY <1>1, <1>2

LEMMA SameFlattenSeq == \A seqs : /\ F!FlattenSeq(seqs) = FlattenSeq(seqs)
                                  /\ L!FlattenSeq(seqs) = FlattenSeq(seqs)
                                  /\ P!FlattenSeq(seqs) = FlattenSeq(seqs)
                                  /\ A!FlattenSeq(seqs) = FlattenSeq(seqs)
  BY DEF F!FlattenSeq, L!FlattenSeq, P!FlattenSeq, A!FlattenSeq, FlattenSeq

LEMMA SameCardinality == \A S : /\ D!Cardinality(S) = Cardinality(S)
                                /\ F!Cardinality(S) = Cardinality(S)
                                /\ L!Cardinality(S) = Cardinality(S)
                                /\ P!Cardinality(S) = Cardinality(S)
                                /\ A!Cardinality(S) = Cardinality(S)
  BY DEF D!Cardinality, F!Cardinality, L!Cardinality, P!Cardinality, A!Cardinality, Cardinality

\* Every element of seq is at one place of out, and nothing else is.
Permuted(out, seq, S) ==
    /\ out \in Seq(S) /\ Len(out) = Len(seq)
    /\ \A x : (\E i \in DOMAIN out : out[i] = x) <=> \E i \in DOMAIN seq : seq[i] = x

\* What is earlier in out comes before what is later.
OrderedBy(out, seq, below) ==
    \A m, n \in DOMAIN seq : m < n =>
        \E i, j \in DOMAIN seq : i \in below[j] /\ out[m] = seq[i] /\ out[n] = seq[j]

\* What Sorted gives, where below[i] are the places that come before place i.
LEMMA PlacesPermute ==
    ASSUME NEW S, NEW seq \in Seq(S), NEW below \in [DOMAIN seq -> SUBSET DOMAIN seq],
           \A x \in DOMAIN seq : x \notin below[x],
           \A x, y \in DOMAIN seq : x \in below[y] => below[x] \subseteq below[y],
           \A x, y \in DOMAIN seq : x = y \/ x \in below[y] \/ y \in below[x],
           NEW out, out = [n \in DOMAIN seq |-> seq[CHOOSE i \in DOMAIN seq : Cardinality(below[i]) = n - 1]]
    PROVE  Permuted(out, seq, S) /\ OrderedBy(out, seq, below)
<1> DEFINE N == Len(seq)
           place == [i \in 1 .. N |-> Cardinality(below[i])]
<1>1. N \in Nat /\ DOMAIN seq = 1 .. N
  OBVIOUS
<1>2. IsFiniteSet(1 .. N) /\ Cardinality(1 .. N) = N
  <2> HIDE DEF N
  <2> QED
    BY <1>1, Intervals
<1>3. /\ \A i \in 1 .. N : place[i] \in 0 .. N - 1
      /\ \A i, j \in 1 .. N : place[i] = place[j] => i = j
  <2>1. /\ below \in [1 .. N -> SUBSET (1 .. N)]
        /\ \A x \in 1 .. N : x \notin below[x]
        /\ \A x, y \in 1 .. N : x \in below[y] => below[x] \subseteq below[y]
        /\ \A x, y \in 1 .. N : x = y \/ x \in below[y] \/ y \in below[x]
    BY <1>1
  <2>2. /\ \A x \in 1 .. N : Cardinality(below[x]) \in Nat /\ Cardinality(below[x]) < N
        /\ \A x, y \in 1 .. N : Cardinality(below[x]) = Cardinality(below[y]) => x = y
    <3> DEFINE places == 1 .. N
    <3>1. /\ IsFiniteSet(places) /\ Cardinality(places) = N
          /\ below \in [places -> SUBSET places]
          /\ \A x \in places : x \notin below[x]
          /\ \A x, y \in places : x \in below[y] => below[x] \subseteq below[y]
          /\ \A x, y \in places : x = y \/ x \in below[y] \/ y \in below[x]
      BY <1>2, <2>1
    <3> HIDE DEF N, places
    <3>2. /\ \A x \in places : Cardinality(below[x]) \in Nat /\ Cardinality(below[x]) < Cardinality(places)
          /\ \A x, y \in places : Cardinality(below[x]) = Cardinality(below[y]) => x = y
      BY <3>1, PlacesDiffer
    <3> QED
      BY <3>1, <3>2 DEF places
  <2> QED
    BY <1>1, <2>2
<1>4. ASSUME NEW v \in 0 .. N - 1 PROVE \E i \in 1 .. N : place[i] = v
  <2> SUFFICES ASSUME \A i \in 1 .. N : place[i] # v PROVE FALSE
    OBVIOUS
  <2> DEFINE others == (0 .. N - 1) \ {v}
  <2>1. IsFiniteSet(0 .. N - 1) /\ Cardinality(0 .. N - 1) = N
    <3> HIDE DEF N
    <3> QED
      BY <1>1, Intervals
  <2>2. IsFiniteSet(others) /\ Cardinality(others) = N - 1
    BY <2>1, FS_RemoveElement
  <2>3. place \in [1 .. N -> others]
    BY <1>3
  <2>4. place \in Injection(1 .. N, others)
    <3> HIDE DEF place, others
    <3> QED
      BY <1>3, <2>3 DEF Injection, IsInjective
  <2>5. Cardinality(1 .. N) <= Cardinality(others)
    <3> HIDE DEF place, others, N
    <3> QED
      BY <2>2, <2>4, FS_Injection
  <2> QED
    BY <1>1, <1>2, <2>2, <2>5
<1> DEFINE at == [n \in 1 .. N |-> CHOOSE i \in DOMAIN seq : Cardinality(below[i]) = n - 1]
<1>5. ASSUME NEW n \in 1 .. N PROVE at[n] \in 1 .. N /\ place[at[n]] = n - 1
  <2>1. n - 1 \in 0 .. N - 1
    BY <1>1
  <2>2. \E i \in DOMAIN seq : Cardinality(below[i]) = n - 1
    BY <1>1, <1>4, <2>1
  <2>3. at[n] \in DOMAIN seq /\ Cardinality(below[at[n]]) = n - 1
    BY <2>2
  <2> QED
    BY <1>1, <2>3
<1>6. out = [n \in 1 .. N |-> seq[at[n]]]
  BY <1>1
<1> HIDE DEF N, place, at
<1>7. ASSUME NEW i \in 1 .. N PROVE \E n \in 1 .. N : at[n] = i
  <2>1. place[i] + 1 \in 1 .. N
    BY <1>1, <1>3
  <2>2. place[at[place[i] + 1]] = place[i] /\ at[place[i] + 1] \in 1 .. N
    BY <1>1, <1>3, <1>5, <2>1
  <2> QED
    BY <1>3, <2>1, <2>2
<1>8. \A i \in 1 .. N : seq[i] \in S
  BY <1>1
<1>9. out \in [1 .. N -> S] /\ \A n \in 1 .. N : out[n] = seq[at[n]]
  <2> DEFINE all == [n \in 1 .. N |-> seq[at[n]]]
  <2>1. all \in [1 .. N -> S] /\ \A n \in 1 .. N : all[n] = seq[at[n]]
    BY <1>5, <1>8
  <2> HIDE DEF all
  <2> QED
    BY <1>6, <2>1, Zenon DEF all
<1>10. out \in Seq(S) /\ DOMAIN out = 1 .. N /\ Len(out) = N
  BY <1>1, <1>9
<1>11. ASSUME NEW x PROVE (\E i \in 1 .. N : out[i] = x) <=> \E i \in 1 .. N : seq[i] = x
  <2>1. ASSUME NEW i \in 1 .. N, out[i] = x PROVE \E j \in 1 .. N : seq[j] = x
    BY <1>5, <1>9, <2>1
  <2>2. ASSUME NEW i \in 1 .. N, seq[i] = x PROVE \E n \in 1 .. N : out[n] = x
    <3>1. PICK n \in 1 .. N : at[n] = i
      BY <1>7
    <3> QED
      BY <1>9, <2>2, <3>1
  <2> QED
    BY <2>1, <2>2
<1>12. ASSUME NEW m \in 1 .. N, NEW n \in 1 .. N, m < n PROVE at[m] \in below[at[n]]
  <2>1. at[m] \in 1 .. N /\ at[n] \in 1 .. N /\ place[at[m]] = m - 1 /\ place[at[n]] = n - 1
    BY <1>5
  <2>2. at[m] # at[n] /\ m - 1 < n - 1
    BY <1>1, <1>12, <2>1
  <2>3. below[at[m]] \in SUBSET (1 .. N) /\ below[at[n]] \in SUBSET (1 .. N)
    BY <1>1, <2>1
  <2>4. ASSUME at[n] \in below[at[m]] PROVE FALSE
    <3>1. below[at[n]] \in SUBSET below[at[m]]
      BY <1>1, <2>1, <2>4
    <3>2. IsFiniteSet(below[at[m]])
      BY <1>2, <2>3, FS_Subset
    <3>3. Cardinality(below[at[n]]) <= Cardinality(below[at[m]])
      BY <3>1, <3>2, FS_Subset
    <3>4. Cardinality(below[at[n]]) = n - 1 /\ Cardinality(below[at[m]]) = m - 1
      BY <2>1 DEF place
    <3> QED
      BY <1>1, <2>2, <3>3, <3>4
  <2>5. at[m] = at[n] \/ at[m] \in below[at[n]] \/ at[n] \in below[at[m]]
    BY <1>1, <2>1
  <2> QED
    BY <2>2, <2>4, <2>5
<1>13. OrderedBy(out, seq, below)
  <2>1. ASSUME NEW m \in DOMAIN seq, NEW n \in DOMAIN seq, m < n
        PROVE  \E i, j \in DOMAIN seq : i \in below[j] /\ out[m] = seq[i] /\ out[n] = seq[j]
    <3>1. m \in 1 .. N /\ n \in 1 .. N
      BY <1>1
    <3>2. at[m] \in DOMAIN seq /\ at[n] \in DOMAIN seq
      BY <1>1, <1>5, <3>1
    <3>3. at[m] \in below[at[n]]
      BY <1>12, <2>1, <3>1
    <3> QED
      BY <1>9, <3>1, <3>2, <3>3
  <2> QED
    BY <2>1 DEF OrderedBy
<1> QED
  BY <1>1, <1>10, <1>11, <1>13 DEF Permuted, N

\* The sequences one after the other, up to each of them.
Joined(f, seqs, S) ==
    /\ f \in [0 .. Len(seqs) -> Seq(S)] /\ f[0] = <<>>
    /\ \A n \in 1 .. Len(seqs) : f[n] = f[n - 1] \o seqs[n]

LEMMA FlattenJoins ==
    ASSUME NEW S, NEW seqs \in Seq(Seq(S))
    PROVE  \E f : Joined(f, seqs, S) /\ FlattenSeq(seqs) = f[Len(seqs)]
<1> DEFINE N == Len(seqs)
           step == [n \in 1 .. N |-> [s \in Seq(S) |-> s \o seqs[n]]]
           Body(g) == [n \in 1 .. N |-> IF n = 1 THEN seqs[n] ELSE g[n - 1] \o seqs[n]]
           flat == CHOOSE g : g = Body(g)
<1>1. N \in Nat /\ \A n \in 1 .. N : seqs[n] \in Seq(S)
  OBVIOUS
<1>2. <<>> \in Seq(S) /\ step \in [1 .. N -> [Seq(S) -> Seq(S)]]
  BY <1>1
<1>3. FlattenSeq(seqs) = IF N = 0 THEN seqs ELSE flat[N]
  BY DEF FlattenSeq
<1> HIDE DEF N, step, Body, flat
<1>4. PICK f : Follows(f, N, Seq(S), <<>>, step)
  BY <1>1, <1>2, RecursionExists
<1>5. f \in [0 .. N -> Seq(S)] /\ f[0] = <<>> /\ \A n \in 1 .. N : f[n] = f[n - 1] \o seqs[n]
  <2>1. ASSUME NEW n \in 1 .. N PROVE f[n] = f[n - 1] \o seqs[n]
    <3>1. n - 1 \in 0 .. N
      BY <1>1
    <3>2. f[n - 1] \in Seq(S) /\ f[n] = step[n][f[n - 1]]
      BY <1>4, <3>1 DEF Follows
    <3> QED
      BY <3>2 DEF step
  <2> QED
    BY <1>4, <2>1 DEF Follows
<1>6. Joined(f, seqs, S)
  BY <1>5, Zenon DEF Joined, N
<1>7. CASE N = 0
  <2>1. seqs = <<>>
    BY <1>7 DEF N
  <2> QED
    BY <1>3, <1>5, <1>6, <1>7, <2>1, Zenon DEF N
<1>8. CASE N # 0
  <2> DEFINE h == [n \in 1 .. N |-> f[n]]
  <2>1. h = Body(h)
    <3>1. ASSUME NEW n \in 1 .. N
          PROVE  f[n] = IF n = 1 THEN seqs[n] ELSE h[n - 1] \o seqs[n]
      <4>1. CASE n = 1
        <5>1. f[n] = f[0] \o seqs[n] /\ seqs[n] \in Seq(S)
          <6>1. n - 1 = 0
            BY <4>1
          <6> QED
            BY <1>1, <1>5, <6>1, Zenon
        <5>2. f[n] = <<>> \o seqs[n]
          BY <1>5, <5>1
        <5>3. <<>> \o seqs[n] = seqs[n]
          BY <5>1
        <5> HIDE DEF h
        <5> QED
          BY <4>1, <5>2, <5>3
      <4>2. CASE n # 1
        <5>1. n - 1 \in 1 .. N
          BY <1>1, <4>2
        <5>2. h[n - 1] = f[n - 1]
          BY <5>1
        <5> HIDE DEF h
        <5> QED
          BY <1>5, <4>2, <5>2, Zenon
      <4> QED
        BY <4>1, <4>2
    <3> QED
      BY <3>1 DEF Body
  <2>2. flat = Body(flat)
    <3> HIDE DEF h
    <3> QED
      BY <2>1, Zenon DEF flat
  <2>3. \A n \in 1 .. N : flat[n] = IF n = 1 THEN seqs[n] ELSE flat[n - 1] \o seqs[n]
    <3>1. \A n \in 1 .. N : Body(flat)[n] = IF n = 1 THEN seqs[n] ELSE flat[n - 1] \o seqs[n]
      BY DEF Body
    <3> QED
      BY <2>2, <3>1, Zenon
  <2> DEFINE Right == {n \in 0 .. N : n = 0 \/ flat[n] = f[n]}
  <2> HIDE DEF h
  <2>4. 0 \in Right
    BY <1>1
  <2>5. ASSUME NEW n \in 1 .. N, n - 1 \in Right PROVE n \in Right
    <3>1. n \in 0 .. N
      BY <1>1
    <3>2. CASE n = 1
      <4>1. f[n] = f[0] \o seqs[n] /\ seqs[n] \in Seq(S)
        <5>1. n - 1 = 0
          BY <3>2
        <5> QED
          BY <1>1, <1>5, <5>1, Zenon
      <4>4. f[n] = <<>> \o seqs[n]
        BY <1>5, <4>1
      <4>5. <<>> \o seqs[n] = seqs[n]
        BY <4>1
      <4>2. flat[n] = seqs[n]
        BY <2>3, <3>2
      <4> QED
        BY <3>1, <4>2, <4>4, <4>5
    <3>3. CASE n # 1
      <4>1. n - 1 # 0
        BY <3>1, <3>3
      <4>2. flat[n - 1] = f[n - 1]
        BY <2>5, <4>1
      <4>3. flat[n] = flat[n - 1] \o seqs[n] /\ f[n] = f[n - 1] \o seqs[n]
        BY <1>5, <2>3, <3>3
      <4> QED
        BY <3>1, <4>2, <4>3
    <3> QED
      BY <3>2, <3>3
  <2>6. 0 .. N \subseteq Right
    <3> HIDE DEF Right
    <3> QED
      BY <1>1, <2>4, <2>5, Stepwise
  <2>7. flat[N] = f[N]
    BY <1>1, <1>8, <2>6
  <2> QED
    BY <1>3, <1>6, <1>8, <2>7, Zenon DEF N
<1> QED
  BY <1>7, <1>8

\* seqs is how more begins.
Begins(seqs, more) == Len(seqs) <= Len(more) /\ \A n \in 1 .. Len(seqs) : more[n] = seqs[n]

\* There is one way to join them.
LEMMA JoinedSame ==
    ASSUME NEW S, NEW seqs \in Seq(Seq(S)), NEW more \in Seq(Seq(S)),
           Begins(seqs, more), NEW f, Joined(f, seqs, S), NEW g, Joined(g, more, S)
    PROVE  \A n \in 0 .. Len(seqs) : f[n] = g[n]
<1> DEFINE Right == {n \in 0 .. Len(seqs) : f[n] = g[n]}
<1>1. Len(seqs) \in Nat /\ Len(more) \in Nat
  OBVIOUS
<1>2. 0 \in Right
  BY <1>1 DEF Joined
<1>3. ASSUME NEW n \in 1 .. Len(seqs), n - 1 \in Right PROVE n \in Right
  <2>1. n \in 0 .. Len(seqs) /\ n \in 1 .. Len(more)
    BY <1>1 DEF Begins
  <2>2. f[n - 1] = g[n - 1] /\ more[n] = seqs[n]
    BY <1>3 DEF Begins
  <2>3. f[n] = f[n - 1] \o seqs[n] /\ g[n] = g[n - 1] \o more[n]
    BY <2>1, Zenon DEF Joined
  <2> QED
    BY <2>1, <2>2, <2>3
<1>4. 0 .. Len(seqs) \subseteq Right
  <2> HIDE DEF Right
  <2> QED
    BY <1>1, <1>2, <1>3, Stepwise
<1> QED
  BY <1>4

\* A sequence that comes last is at the end.
LEMMA FlattenAppend ==
    ASSUME NEW S, NEW seqs \in Seq(Seq(S)), NEW seq \in Seq(S)
    PROVE  FlattenSeq(Append(seqs, seq)) = FlattenSeq(seqs) \o seq
<1> DEFINE more == Append(seqs, seq)
           N == Len(seqs)
<1>1. /\ N \in Nat /\ more \in Seq(Seq(S)) /\ Len(more) = N + 1 /\ more[N + 1] = seq
      /\ \A n \in 1 .. N : more[n] = seqs[n]
  OBVIOUS
<1> HIDE DEF more
<1>2. PICK f : Joined(f, seqs, S) /\ FlattenSeq(seqs) = f[N]
  BY FlattenJoins
<1>3. PICK g : Joined(g, more, S) /\ FlattenSeq(more) = g[N + 1]
  <2>1. \E g : Joined(g, more, S) /\ FlattenSeq(more) = g[Len(more)]
    BY <1>1, FlattenJoins
  <2> QED
    BY <1>1, <2>1
<1>4. f[N] = g[N]
  <2>1. Begins(seqs, more)
    BY <1>1 DEF Begins
  <2>2. \A n \in 0 .. Len(seqs) : f[n] = g[n]
    BY <1>1, <1>2, <1>3, <2>1, JoinedSame
  <2> QED
    BY <1>1, <2>2
<1>5. g[N + 1] = g[N] \o seq
  <2>1. N + 1 \in 1 .. Len(more) /\ (N + 1) - 1 = N
    BY <1>1
  <2>2. g[N + 1] = g[(N + 1) - 1] \o more[N + 1]
    BY <1>3, <2>1, Zenon DEF Joined
  <2> QED
    BY <1>1, <2>1, <2>2
<1> QED
  BY <1>2, <1>3, <1>4, <1>5 DEF more

\* The elements of out are those of one and the other.
Both(out, s, t) ==
    \A x : (\E i \in DOMAIN out : out[i] = x)
              <=> (\E i \in DOMAIN s : s[i] = x) \/ \E i \in DOMAIN t : t[i] = x

LEMMA ConcatGathers ==
    ASSUME NEW S, NEW s \in Seq(S), NEW t \in Seq(S)
    PROVE  Both(s \o t, s, t)
<1> DEFINE both == s \o t
<1>1. /\ DOMAIN both = 1 .. Len(s) + Len(t) /\ DOMAIN s = 1 .. Len(s) /\ DOMAIN t = 1 .. Len(t)
      /\ Len(s) \in Nat /\ Len(t) \in Nat
      /\ \A i \in 1 .. Len(s) + Len(t) : both[i] = IF i <= Len(s) THEN s[i] ELSE t[i - Len(s)]
  OBVIOUS
<1> HIDE DEF both
<1>2. ASSUME NEW x, NEW i \in DOMAIN both, both[i] = x
      PROVE  (\E j \in DOMAIN s : s[j] = x) \/ \E j \in DOMAIN t : t[j] = x
  <2>1. CASE i <= Len(s)
    BY <1>1, <1>2, <2>1
  <2>2. CASE i > Len(s)
    <3>1. i - Len(s) \in 1 .. Len(t) /\ both[i] = t[i - Len(s)]
      BY <1>1, <1>2, <2>2
    <3> QED
      BY <1>1, <1>2, <3>1
  <2> QED
    BY <1>1, <2>1, <2>2
<1>3. ASSUME NEW x, NEW j \in DOMAIN s, s[j] = x PROVE \E i \in DOMAIN both : both[i] = x
  <2>1. j \in 1 .. Len(s) + Len(t) /\ both[j] = s[j]
    BY <1>1
  <2> QED
    BY <1>1, <1>3, <2>1
<1>4. ASSUME NEW x, NEW j \in DOMAIN t, t[j] = x PROVE \E i \in DOMAIN both : both[i] = x
  <2>1. j + Len(s) \in 1 .. Len(s) + Len(t) /\ both[j + Len(s)] = t[j]
    BY <1>1
  <2> QED
    BY <1>1, <1>4, <2>1
<1> QED
  BY <1>2, <1>3, <1>4, Zenon DEF Both, both

\* The elements of out are those of the sequences.
Gathered(out, seqs) ==
    \A x : (\E i \in DOMAIN out : out[i] = x) <=> \E n \in DOMAIN seqs : \E i \in DOMAIN seqs[n] : seqs[n][i] = x

LEMMA FlattenGathers ==
    ASSUME NEW S, NEW seqs \in Seq(Seq(S))
    PROVE  FlattenSeq(seqs) \in Seq(S) /\ Gathered(FlattenSeq(seqs), seqs)
<1> DEFINE N == Len(seqs)
           Holds(k, s) == \A x : (\E i \in DOMAIN s : s[i] = x) <=> \E n \in 1 .. k : \E i \in DOMAIN seqs[n] : seqs[n][i] = x
<1>1. N \in Nat /\ DOMAIN seqs = 1 .. N /\ \A n \in 1 .. N : seqs[n] \in Seq(S)
  OBVIOUS
<1>2. PICK f : Joined(f, seqs, S) /\ FlattenSeq(seqs) = f[N]
  BY FlattenJoins
<1> DEFINE Right == {n \in 0 .. N : Holds(n, f[n])}
<1>3. 0 \in Right
  <2>1. 1 .. 0 = {} /\ DOMAIN <<>> = {} /\ f[0] = <<>> /\ 0 \in 0 .. N
    BY <1>1, <1>2 DEF Joined
  <2> QED
    BY <2>1, Zenon
<1>4. ASSUME NEW n \in 1 .. N, n - 1 \in Right PROVE n \in Right
  <2>1. n \in 0 .. N /\ n - 1 \in 0 .. N
    BY <1>1
  <2>2. f[n - 1] \in Seq(S) /\ f[n] = f[n - 1] \o seqs[n] /\ seqs[n] \in Seq(S)
    BY <1>1, <1>2, <2>1 DEF Joined
  <2>3. Both(f[n], f[n - 1], seqs[n])
    BY <2>2, ConcatGathers
  <2>4. \A m : m \in 1 .. n <=> m \in 1 .. n - 1 \/ m = n
    BY <1>1
  <2>5. Holds(n - 1, f[n - 1])
    BY <1>4
  <2>6. Holds(n, f[n])
    BY <2>3, <2>4, <2>5, Zenon DEF Both
  <2> QED
    BY <2>1, <2>6
<1>5. 0 .. N \subseteq Right
  <2> HIDE DEF N, Right
  <2> QED
    BY <1>1, <1>3, <1>4, Stepwise
<1>6. f[N] \in Seq(S) /\ Holds(N, f[N])
  <2>1. N \in 0 .. N
    BY <1>1
  <2>2. N \in Right
    BY <1>5, <2>1
  <2> QED
    BY <1>2, <2>1, <2>2, Zenon DEF Joined
<1> QED
  BY <1>1, <1>2, <1>6, Zenon DEF Gathered

(***************************************************************************)
(* What is redacted.                                                       *)
(***************************************************************************)
\* A text with every piece redacted that one of the first n labels matches.
Without(text, labels, n) ==
    [i \in DOMAIN text |-> [j \in DOMAIN text[i] |->
        IF \E m \in 1 .. n : labels[m] \in text[i][j].matches THEN F!InPlaceOf(text[i][j]) ELSE text[i][j]]]

\* A notice may match, but is a notice again when it is replaced.
LEMMA NoticeInPlace ==
    ASSUME NEW piece \in F!Piece
    PROVE  /\ F!InPlaceOf(piece) \in F!Piece
           /\ F!InPlaceOf(piece).name = F!NoticeName
           /\ F!InPlaceOf(F!InPlaceOf(piece)) = F!InPlaceOf(piece)
  BY DEF F!InPlaceOf, F!PiecesNamed, F!Piece

LEMMA PiecesOfText ==
    ASSUME NEW text \in F!Text, NEW i \in DOMAIN text, NEW j \in DOMAIN text[i]
    PROVE  text[i][j] \in F!Piece
  BY DEF F!Text, F!Line

LEMMA WithoutIsText ==
    ASSUME NEW text \in F!Text, NEW labels, NEW n
    PROVE  Without(text, labels, n) \in F!Text
<1> DEFINE out == Without(text, labels, n)
<1>1. ASSUME NEW i \in DOMAIN text PROVE out[i] \in F!Line
  <2>1. text[i] \in Seq(F!Piece)
    BY DEF F!Text, F!Line
  <2>2. ASSUME NEW j \in DOMAIN text[i] PROVE out[i][j] \in F!Piece
    <3>1. text[i][j] \in F!Piece
      BY <2>1
    <3>2. out[i][j] = F!InPlaceOf(text[i][j]) \/ out[i][j] = text[i][j]
      BY Zenon DEF Without
    <3> QED
      BY <3>1, <3>2, NoticeInPlace, Zenon
  <2>3. out[i] = [j \in DOMAIN text[i] |-> out[i][j]]
    BY Zenon DEF Without
  <2>4. DOMAIN text[i] = 1 .. Len(text[i]) /\ Len(text[i]) \in Nat
    BY <2>1
  <2> HIDE DEF out
  <2>5. out[i] \in [1 .. Len(text[i]) -> F!Piece]
    BY <2>2, <2>3, <2>4, Zenon
  <2> QED
    BY <2>4, <2>5 DEF F!Line
<1>2. out = [i \in DOMAIN text |-> out[i]]
  BY Zenon DEF Without
<1>3. DOMAIN text = 1 .. Len(text) /\ Len(text) \in Nat
  BY DEF F!Text
<1> HIDE DEF out
<1>4. out \in [1 .. Len(text) -> F!Line]
  BY <1>1, <1>2, <1>3, Zenon
<1>5. out \in F!Text
  BY <1>3, <1>4 DEF F!Text
<1> QED
  BY <1>5 DEF out

LEMMA WithoutNext ==
    ASSUME NEW text \in F!Text, NEW labels, NEW n \in Nat \ {0}
    PROVE  Without(text, labels, n) = F!Replaced(Without(text, labels, n - 1), labels[n])
<1> DEFINE old == Without(text, labels, n - 1)
           new == Without(text, labels, n)
           Fresh(i, j) == IF labels[n] \in old[i][j].matches THEN F!InPlaceOf(old[i][j]) ELSE old[i][j]
<1>1. F!Replaced(old, labels[n]) = [i \in DOMAIN old |-> [j \in DOMAIN old[i] |-> Fresh(i, j)]]
  BY Zenon DEF F!Replaced, F!Mapped
<1>2. DOMAIN old = DOMAIN text /\ \A i \in DOMAIN text : DOMAIN old[i] = DOMAIN text[i]
  BY Zenon DEF Without
<1>3. ASSUME NEW i \in DOMAIN text, NEW j \in DOMAIN text[i]
      PROVE  Fresh(i, j) = IF \E m \in 1 .. n : labels[m] \in text[i][j].matches
                           THEN F!InPlaceOf(text[i][j]) ELSE text[i][j]
  <2>1. old[i][j] = IF \E m \in 1 .. n - 1 : labels[m] \in text[i][j].matches
                    THEN F!InPlaceOf(text[i][j]) ELSE text[i][j]
    BY Zenon DEF Without
  <2>2. (\E m \in 1 .. n : labels[m] \in text[i][j].matches)
          <=> (\E m \in 1 .. n - 1 : labels[m] \in text[i][j].matches) \/ labels[n] \in text[i][j].matches
    <3>1. 1 .. n = (1 .. n - 1) \cup {n}
      OBVIOUS
    <3> QED
      BY <3>1, Zenon
  <2>3. F!InPlaceOf(F!InPlaceOf(text[i][j])) = F!InPlaceOf(text[i][j])
    BY PiecesOfText, NoticeInPlace
  <2> HIDE DEF old
  <2> QED
    BY <2>1, <2>2, <2>3, Zenon
<1>4. new = [i \in DOMAIN text |-> [j \in DOMAIN text[i] |->
                 IF \E m \in 1 .. n : labels[m] \in text[i][j].matches THEN F!InPlaceOf(text[i][j]) ELSE text[i][j]]]
  BY Zenon DEF Without
<1>5. new = [i \in DOMAIN text |-> [j \in DOMAIN text[i] |-> Fresh(i, j)]]
  <2> HIDE DEF new, Fresh
  <2> QED
    BY <1>3, <1>4, Zenon
<1> HIDE DEF old, new, Fresh
<1>6. new = [i \in DOMAIN old |-> [j \in DOMAIN old[i] |-> Fresh(i, j)]]
  BY <1>2, <1>5, Zenon
<1>7. new = F!Replaced(old, labels[n])
  BY <1>1, <1>6, Zenon
<1> QED
  BY <1>7, Zenon DEF old, new

\* One pattern after the other is all of them at once: a notice that a later one matches
\* makes place for the same notice.
LEMMA RedactEachIsWithout ==
    ASSUME NEW text \in F!Text, NEW S, NEW labels \in Seq(S)
    PROVE  F!RedactEach(text, labels).text = Without(text, labels, Len(labels))
<1> DEFINE N == Len(labels)
           left == F!Passes(text, labels)
           Body(g) == [n \in 0 .. N |-> IF n = 0 THEN text ELSE F!Replaced(g[n - 1], labels[n])]
           all == [n \in 0 .. N |-> Without(text, labels, n)]
<1>1. N \in Nat
  OBVIOUS
<1>2. Without(text, labels, 0) = text
  <2>1. 1 .. 0 = {}
    OBVIOUS
  <2>2. ASSUME NEW i \in DOMAIN text PROVE text[i] = [j \in DOMAIN text[i] |-> text[i][j]]
    BY DEF F!Text, F!Line
  <2>3. text = [i \in DOMAIN text |-> text[i]]
    BY DEF F!Text
  <2>4. Without(text, labels, 0) = [i \in DOMAIN text |-> [j \in DOMAIN text[i] |-> text[i][j]]]
    BY <2>1, Zenon DEF Without
  <2> QED
    BY <2>2, <2>3, <2>4, Zenon
<1>3. left = CHOOSE g : g = Body(g)
  BY Zenon DEF F!Passes
<1>4. F!RedactEach(text, labels).text = left[N]
  BY DEF F!RedactEach
<1> HIDE DEF N, left
<1>5. all = Body(all)
  <2>1. ASSUME NEW n \in 0 .. N
        PROVE  all[n] = IF n = 0 THEN text ELSE F!Replaced(all[n - 1], labels[n])
    <3>1. CASE n = 0
      BY <1>2, <3>1, Zenon
    <3>2. CASE n # 0
      <4>1. n \in Nat \ {0} /\ n - 1 \in 0 .. N
        BY <1>1, <3>2
      <4>2. all[n] = Without(text, labels, n) /\ all[n - 1] = Without(text, labels, n - 1)
        BY <4>1, Zenon
      <4> QED
        BY <3>2, <4>1, <4>2, WithoutNext, Zenon
    <3> QED
      BY <3>1, <3>2
  <2>2. all = [n \in 0 .. N |-> all[n]]
    BY Zenon
  <2> HIDE DEF all
  <2> QED
    BY <2>1, <2>2, Zenon
<1>6. left = Body(left)
  <2> HIDE DEF all, Body
  <2> QED
    BY <1>3, <1>5, Zenon
<1> DEFINE Right == {n \in 0 .. N : left[n] = Without(text, labels, n)}
<1>7. 0 \in Right
  BY <1>1, <1>2, <1>6
<1>8. ASSUME NEW n \in 1 .. N, n - 1 \in Right PROVE n \in Right
  <2>1. n \in 0 .. N /\ n # 0 /\ n \in Nat \ {0}
    BY <1>1
  <2>2. left[n] = F!Replaced(left[n - 1], labels[n])
    BY <1>6, <2>1, Zenon
  <2>3. left[n - 1] = Without(text, labels, n - 1)
    BY <1>8
  <2> QED
    BY <2>1, <2>2, <2>3, WithoutNext, Zenon
<1>9. 0 .. N \subseteq Right
  <2> HIDE DEF Right
  <2> QED
    BY <1>1, <1>7, <1>8, Stepwise
<1>10. left[N] = Without(text, labels, N)
  BY <1>1, <1>9
<1> QED
  BY <1>4, <1>10 DEF N

\* Nothing that one of the labels matches is left, but notices.
LEMMA RedactEachRedacts ==
    ASSUME NEW text \in F!Text, NEW S, NEW labels \in Seq(S),
           NEW piece \in F!Pieces(F!RedactEach(text, labels).text)
    PROVE  piece.name = F!NoticeName \/ \A m \in DOMAIN labels : labels[m] \notin piece.matches
<1> DEFINE out == Without(text, labels, Len(labels))
<1>1. DOMAIN labels = 1 .. Len(labels)
  OBVIOUS
<1>2. PICK i \in DOMAIN out : \E j \in DOMAIN out[i] : piece = out[i][j]
  <2>1. piece \in F!Pieces(out)
    BY RedactEachIsWithout
  <2> HIDE DEF out
  <2> QED
    BY <2>1 DEF F!Pieces, F!Range
<1>3. PICK j \in DOMAIN out[i] : piece = out[i][j]
  BY <1>2
<1>4. i \in DOMAIN text /\ j \in DOMAIN text[i]
  BY Zenon DEF Without
<1>5. piece = IF \E m \in 1 .. Len(labels) : labels[m] \in text[i][j].matches
              THEN F!InPlaceOf(text[i][j]) ELSE text[i][j]
  BY <1>3, <1>4, Zenon DEF Without
<1>6. F!InPlaceOf(text[i][j]).name = F!NoticeName
  BY <1>4, PiecesOfText, NoticeInPlace
<1> QED
  BY <1>1, <1>5, <1>6, Zenon

\* A piece that is left is one of the text, or a notice.
LEMMA RedactEachKeeps ==
    ASSUME NEW text \in F!Text, NEW S, NEW labels \in Seq(S),
           NEW piece \in F!Pieces(F!RedactEach(text, labels).text)
    PROVE  piece.name = F!NoticeName \/ piece \in F!Pieces(text)
<1> DEFINE out == Without(text, labels, Len(labels))
<1>1. PICK i \in DOMAIN out : \E j \in DOMAIN out[i] : piece = out[i][j]
  <2>1. piece \in F!Pieces(out)
    BY RedactEachIsWithout
  <2> HIDE DEF out
  <2> QED
    BY <2>1 DEF F!Pieces, F!Range
<1>2. PICK j \in DOMAIN out[i] : piece = out[i][j]
  BY <1>1
<1>3. i \in DOMAIN text /\ j \in DOMAIN text[i]
  BY Zenon DEF Without
<1>4. piece = F!InPlaceOf(text[i][j]) \/ piece = text[i][j]
  BY <1>2, <1>3, Zenon DEF Without
<1>5. F!InPlaceOf(text[i][j]).name = F!NoticeName
  BY <1>3, PiecesOfText, NoticeInPlace
<1> QED
  BY <1>3, <1>4, <1>5 DEF F!Pieces, F!Range

LEMMA SecretsAreLabels == F!SECRET_PATTERNS \in Seq(F!Range(F!SECRET_PATTERNS))
  BY DEF F!SECRET_PATTERNS, F!Range

LEMMA RedactEachType ==
    ASSUME NEW text \in F!Text, NEW S, NEW labels \in Seq(S)
    PROVE  F!RedactEach(text, labels).text \in F!Text
  BY RedactEachIsWithout, WithoutIsText

\* In what the gateway cleans only notices hold what a pattern matches.
LEMMA CleanedText ==
    ASSUME NEW text \in F!Text, NEW S, NEW patterns \in Seq(S),
           NEW piece \in F!Pieces(F!sanitize_text_with_dynamic_patterns(text, patterns).text)
    PROVE  \/ piece.name = F!NoticeName
           \/ piece.matches \cap (Range(F!SECRET_PATTERNS) \cup Range(patterns)) = {}
<1> DEFINE builtin == F!RedactEach(text, F!SECRET_PATTERNS).text
           custom == F!RedactEach(builtin, patterns).text
<1>1. piece \in F!Pieces(custom)
  BY DEF F!sanitize_text_with_dynamic_patterns, F!sanitize_text
<1>2. builtin \in F!Text
  BY SecretsAreLabels, RedactEachType
<1> HIDE DEF builtin
<1> SUFFICES ASSUME piece.name # F!NoticeName
             PROVE  piece.matches \cap (Range(F!SECRET_PATTERNS) \cup Range(patterns)) = {}
  OBVIOUS
<1>3. \A m \in DOMAIN patterns : patterns[m] \notin piece.matches
  BY <1>1, <1>2, RedactEachRedacts
<1>4. piece \in F!Pieces(builtin)
  BY <1>1, <1>2, RedactEachKeeps
<1>5. \A m \in DOMAIN F!SECRET_PATTERNS : F!SECRET_PATTERNS[m] \notin piece.matches
  BY <1>4, SecretsAreLabels, RedactEachRedacts DEF builtin
<1> QED
  BY <1>3, <1>5, Zenon DEF Range

\* The rules are some of the patterns.
LEMMA CompiledRules ==
    ASSUME NEW overrides \in Seq(STRING)
    PROVE  F!compile_privacy_rules(overrides) \in Seq(STRING)
<1> DEFINE valid == {i \in DOMAIN overrides : overrides[i] # "invalid"}
<1>1. F!compile_privacy_rules(overrides) = F!At(overrides, valid)[Len(overrides)]
  BY Zenon DEF F!compile_privacy_rules, F!Where
<1> HIDE DEF valid
<1> QED
  BY <1>1, AtPlacesOfF

(***************************************************************************)
(* The gateway.                                                            *)
(***************************************************************************)
\* What is read for a text is what its rules were compiled from, whatever was in the
\* cache; and what is given out was cleaned with the rules of each text.
PassRight(done) ==
    /\ done = [result |-> done.result, read |-> done.read, rules |-> done.rules, given |-> done.given]
    /\ done.result \in Results
    /\ DOMAIN done.rules = DOMAIN done.read
    /\ \A text \in DOMAIN done.read :
          done.read[text] \in Seq(STRING) /\ done.rules[text] = F!compile_privacy_rules(done.read[text])
    /\ done.given # <<>> =>
          /\ F!TextsToClean(done.result) \subseteq DOMAIN done.rules
          /\ done.given = <<F!sanitize_json_args(done.result, done.rules)>>

CacheRight(cache) ==
    cache # <<>> => /\ cache = <<cache[1]>>
                    /\ cache[1].rules = F!compile_privacy_rules(cache[1].overrides)

CallerRight(c) ==
    /\ pass[c] # <<>> => tool = "gateway" /\ pass[c] = <<pass[c][1]>> /\ PassRight(pass[c][1])
    /\ loaded[c] # <<>> => /\ loaded[c] = <<loaded[c][1]>> /\ loaded[c][1] \in Seq(STRING)
                           /\ ~Idle(c)

GatewayInv ==
    /\ tool = "gateway" => settings \in AllSettings
    /\ CacheRight(compiled)
    /\ pass = [c \in Callers |-> pass[c]] /\ loaded = [c \in Callers |-> loaded[c]]
    /\ \A c \in Callers : CallerRight(c)

LEMMA GatewayInit == Init => GatewayInv
  BY DEF Init, GatewayInv, CacheRight, CallerRight

\* The rules taken from the cache are those of the overrides that were read.
LEMMA CacheAnswers ==
    ASSUME NEW cache, CacheRight(cache), NEW overrides
    PROVE  LET new == F!compiled_privacy_rules(cache, overrides)
           IN new # <<>> /\ CacheRight(new) /\ new[1].rules = F!compile_privacy_rules(overrides)
<1> DEFINE new == F!compiled_privacy_rules(cache, overrides)
           fresh == [overrides |-> overrides, rules |-> F!compile_privacy_rules(overrides)]
<1>1. CASE cache # <<>> /\ cache[1].overrides = overrides
  <2>1. new = cache
    BY <1>1 DEF F!compiled_privacy_rules
  <2> QED
    BY <1>1, <2>1 DEF CacheRight
<1>2. CASE ~(cache # <<>> /\ cache[1].overrides = overrides)
  <2>1. new = <<fresh>>
    BY <1>2 DEF F!compiled_privacy_rules
  <2>2. <<fresh>> # <<>> /\ <<fresh>>[1] = fresh
    OBVIOUS
  <2>3. fresh.overrides = overrides /\ fresh.rules = F!compile_privacy_rules(overrides)
    OBVIOUS
  <2> HIDE DEF new, fresh
  <2>4. new[1] = fresh /\ new # <<>> /\ new = <<new[1]>>
    BY <2>1, <2>2
  <2>5. CacheRight(new)
    BY <2>3, <2>4 DEF CacheRight
  <2> QED
    BY <2>3, <2>4, <2>5 DEF new
<1> QED
  BY <1>1, <1>2

\* Of another caller nothing changes.
LEMMA OthersStay ==
    ASSUME NEW c \in Callers, GatewayInv, UNCHANGED tool,
           pass' = [pass EXCEPT ![c] = pass'[c]], loaded' = [loaded EXCEPT ![c] = loaded'[c]],
           CallerRight(c)'
    PROVE  /\ pass' = [d \in Callers |-> pass'[d]] /\ loaded' = [d \in Callers |-> loaded'[d]]
           /\ \A d \in Callers : CallerRight(d)'
<1>1. pass' = [d \in Callers |-> pass'[d]] /\ loaded' = [d \in Callers |-> loaded'[d]]
  BY DEF GatewayInv
<1>2. ASSUME NEW d \in Callers, d # c PROVE CallerRight(d)'
  <2>1. pass'[d] = pass[d] /\ loaded'[d] = loaded[d]
    BY <1>2 DEF GatewayInv
  <2> QED
    BY <2>1 DEF GatewayInv, CallerRight, Idle
<1> QED
  BY <1>1, <1>2

LEMMA BeginPassRight ==
    ASSUME NEW c \in Callers, GatewayInv, BeginPass(c)
    PROVE  GatewayInv'
<1>1. PICK result \in Results :
        pass' = [pass EXCEPT ![c] = <<[result |-> result, read |-> <<>>, rules |-> <<>>, given |-> <<>>]>>]
  BY DEF BeginPass
<1> DEFINE done == [result |-> result, read |-> <<>>, rules |-> <<>>, given |-> <<>>]
<1>2. PassRight(done)
  BY DEF PassRight
<1>3. pass'[c] = <<done>> /\ <<done>>[1] = done /\ pass' = [pass EXCEPT ![c] = pass'[c]]
  BY <1>1 DEF GatewayInv
<1> HIDE DEF done
<1>4. loaded[c] = <<>> /\ tool = "gateway" /\ UNCHANGED <<tool, settings, compiled, loaded>>
  BY DEF BeginPass, GatewayInv, CallerRight
<1>5. CallerRight(c)'
  BY <1>2, <1>3, <1>4 DEF CallerRight
<1>6. loaded' = [loaded EXCEPT ![c] = loaded'[c]]
  BY <1>4 DEF GatewayInv
<1> QED
  BY <1>3, <1>4, <1>5, <1>6, OthersStay DEF GatewayInv

LEMMA LoadOverridesRight ==
    ASSUME NEW c \in Callers, GatewayInv, LoadOverrides(c)
    PROVE  GatewayInv'
<1> DEFINE overrides == F!load_dynamic_overrides(settings)
<1>1. pass[c] # <<>> /\ UNCHANGED <<tool, settings, compiled, pass>> /\ loaded' = [loaded EXCEPT ![c] = <<overrides>>]
  BY DEF LoadOverrides, Uncleaned
<1>2. tool = "gateway" /\ settings \in AllSettings
  BY <1>1 DEF GatewayInv, CallerRight
<1>3. overrides \in Seq(STRING)
  <2>1. settings.environment \in Seq(STRING) /\ settings.file \in Seq(STRING) /\ <<>> \in Seq(STRING)
    BY <1>2, SettingsAssumption
  <2>2. \A r, s \in Seq(STRING) : r \o s \in Seq(STRING)
    OBVIOUS
  <2>3. overrides = settings.environment \o settings.file \/ overrides = settings.environment \o <<>>
    BY Zenon DEF F!load_dynamic_overrides
  <2> QED
    BY <2>1, <2>2, <2>3, Zenon
<1>4. ~Idle(c)
  <2>1. CASE Idle(c)
    <3>1. PassRight(pass[c][1]) /\ pass[c][1].given # <<>>
      BY <1>1, <2>1 DEF GatewayInv, CallerRight, Idle
    <3>2. Uncleaned(c) = {}
      BY <1>1, <3>1 DEF PassRight, Uncleaned
    <3> QED
      BY <3>2 DEF LoadOverrides
  <2> QED
    BY <2>1
<1> HIDE DEF overrides
<1>5. loaded'[c] = <<overrides>> /\ <<overrides>>[1] = overrides /\ loaded' = [loaded EXCEPT ![c] = loaded'[c]]
  BY <1>1 DEF GatewayInv
<1>6. CallerRight(c)'
  BY <1>1, <1>3, <1>4, <1>5 DEF GatewayInv, CallerRight, Idle
<1>7. pass' = [pass EXCEPT ![c] = pass'[c]]
  BY <1>1 DEF GatewayInv
<1> QED
  BY <1>1, <1>5, <1>6, <1>7, OthersStay DEF GatewayInv

LEMMA ApplyRulesRight ==
    ASSUME NEW c \in Callers, GatewayInv, ApplyRules(c)
    PROVE  GatewayInv'
<1> DEFINE old == pass[c][1]
           overrides == loaded[c][1]
           new == pass'[c][1]
<1>1. /\ loaded[c] # <<>> /\ UNCHANGED <<tool, settings>> /\ loaded' = [loaded EXCEPT ![c] = <<>>]
      /\ compiled' = F!compiled_privacy_rules(compiled, overrides)
  BY DEF ApplyRules
<1>2. /\ overrides \in Seq(STRING) /\ ~Idle(c) /\ pass[c] = <<old>> /\ PassRight(old) /\ tool = "gateway"
      /\ old.given = <<>>
  BY <1>1 DEF GatewayInv, CallerRight, Idle
<1>3. CacheRight(compiled') /\ compiled'[1].rules = F!compile_privacy_rules(overrides)
  BY <1>1, CacheAnswers DEF GatewayInv
<1>4. PICK text \in Uncleaned(c) :
        pass' = [pass EXCEPT ![c][1].read = With(@, text, overrides), ![c][1].rules = With(@, text, compiled'[1].rules)]
  BY DEF ApplyRules
<1> DEFINE read == With(old.read, text, overrides)
           ruled == With(old.rules, text, compiled'[1].rules)
           done == [result |-> old.result, read |-> read, rules |-> ruled, given |-> old.given]
<1>5. pass' = [pass EXCEPT ![c] = <<done>>]
  <2> HIDE DEF read, ruled
  <2>1. old = [result |-> old.result, read |-> old.read, rules |-> old.rules, given |-> old.given]
    BY <1>2 DEF PassRight
  <2>2. [[old EXCEPT !.read = read] EXCEPT !.rules = ruled] = done
    <3> DEFINE first == [result |-> old.result, read |-> read, rules |-> old.rules, given |-> old.given]
    <3>1. [old EXCEPT !.read = read] = first
      BY <2>1
    <3>2. [first EXCEPT !.rules = ruled] = done
      <4> HIDE DEF old
      <4> QED
        OBVIOUS
    <3> HIDE DEF first, done
    <3> QED
      BY <3>1, <3>2
  <2> HIDE DEF done
  <2>3. pass' = [pass EXCEPT ![c] = [[pass[c] EXCEPT ![1] = [old EXCEPT !.read = read]] EXCEPT ![1] = [[old EXCEPT !.read = read] EXCEPT !.rules = ruled]]]
    BY <1>2, <1>4 DEF GatewayInv, read, ruled
  <2>4. [[pass[c] EXCEPT ![1] = [old EXCEPT !.read = read]] EXCEPT ![1] = done] = <<done>>
    BY <1>2
  <2> QED
    BY <2>2, <2>3, <2>4
<1>6. PassRight(done)
  <2>1. /\ DOMAIN read = DOMAIN old.read \cup {text}
        /\ \A t \in DOMAIN read : read[t] = IF t = text THEN overrides ELSE old.read[t]
    BY Zenon DEF With
  <2>2. /\ DOMAIN ruled = DOMAIN old.rules \cup {text}
        /\ \A t \in DOMAIN ruled : ruled[t] = IF t = text THEN compiled'[1].rules ELSE old.rules[t]
    BY Zenon DEF With
  <2> HIDE DEF read, ruled, old
  <2>3. DOMAIN ruled = DOMAIN read
    BY <1>2, <2>1, <2>2 DEF PassRight
  <2>4. ASSUME NEW t \in DOMAIN read
        PROVE  read[t] \in Seq(STRING) /\ ruled[t] = F!compile_privacy_rules(read[t])
    BY <1>2, <1>3, <2>1, <2>2, <2>3 DEF PassRight
  <2>5. /\ done.result = old.result /\ done.read = read /\ done.rules = ruled /\ done.given = <<>>
        /\ done = [result |-> done.result, read |-> done.read, rules |-> done.rules, given |-> done.given]
    BY <1>2
  <2> HIDE DEF done
  <2> QED
    BY <1>2, <2>3, <2>4, <2>5 DEF PassRight
<1>7. pass'[c] = <<done>> /\ <<done>>[1] = done /\ pass' = [pass EXCEPT ![c] = pass'[c]]
  <2> HIDE DEF done
  <2> QED
    BY <1>5 DEF GatewayInv
<1> HIDE DEF done, old, overrides, read, ruled
<1>8. loaded'[c] = <<>> /\ loaded' = [loaded EXCEPT ![c] = loaded'[c]]
  BY <1>1 DEF GatewayInv
<1>9. CallerRight(c)'
  BY <1>1, <1>2, <1>6, <1>7, <1>8 DEF CallerRight
<1> QED
  BY <1>1, <1>3, <1>7, <1>8, <1>9, OthersStay DEF GatewayInv

LEMMA GiveResultRight ==
    ASSUME NEW c \in Callers, GatewayInv, GiveResult(c)
    PROVE  GatewayInv'
<1> DEFINE old == pass[c][1]
           given == <<F!sanitize_json_args(old.result, old.rules)>>
           done == [result |-> old.result, read |-> old.read, rules |-> old.rules, given |-> given]
<1>1. /\ ~Idle(c) /\ loaded[c] = <<>> /\ Uncleaned(c) = {} /\ UNCHANGED <<tool, settings, compiled, loaded>>
      /\ pass' = [pass EXCEPT ![c][1].given = given]
  BY DEF GiveResult
<1>2. pass[c] = <<old>> /\ PassRight(old) /\ tool = "gateway" /\ pass[c] # <<>>
  BY <1>1 DEF GatewayInv, CallerRight, Idle
<1>3. F!TextsToClean(old.result) \subseteq DOMAIN old.rules
  BY <1>1, <1>2 DEF Uncleaned
<1>4. [old EXCEPT !.given = given] = done
  BY <1>2 DEF PassRight
<1>5. PassRight(done)
  <2> HIDE DEF old
  <2>1. done.result = old.result /\ done.read = old.read /\ done.rules = old.rules /\ done.given = given
    OBVIOUS
  <2> QED
    BY <1>2, <1>3, <2>1 DEF PassRight
<1> HIDE DEF given, done
<1>6. pass' = [pass EXCEPT ![c] = <<done>>]
  <2>1. pass' = [pass EXCEPT ![c] = [pass[c] EXCEPT ![1] = [old EXCEPT !.given = given]]]
    BY <1>1, <1>2 DEF GatewayInv
  <2>2. [pass[c] EXCEPT ![1] = done] = <<done>>
    BY <1>2
  <2> QED
    BY <1>4, <2>1, <2>2
<1> HIDE DEF old
<1>7. pass'[c] = <<done>> /\ <<done>>[1] = done /\ pass' = [pass EXCEPT ![c] = pass'[c]]
  BY <1>6 DEF GatewayInv
<1>8. CallerRight(c)'
  BY <1>1, <1>2, <1>5, <1>7 DEF CallerRight
<1>9. loaded' = [loaded EXCEPT ![c] = loaded'[c]]
  BY <1>1 DEF GatewayInv
<1> QED
  BY <1>1, <1>7, <1>8, <1>9, OthersStay DEF GatewayInv

\* No other action touches the gateway, and none changes the tool.
LEMMA GatewayNext ==
    ASSUME GatewayInv, [Next]_vars
    PROVE  GatewayInv'
<1>1. CASE UNCHANGED <<tool, rules>>
  BY <1>1 DEF rules, GatewayInv, CallerRight, Idle
<1>2. CASE ChangeSettings
  BY <1>2 DEF ChangeSettings, GatewayInv, CallerRight, Idle
<1>3. CASE \E c \in Callers : BeginPass(c) \/ LoadOverrides(c) \/ ApplyRules(c) \/ GiveResult(c)
  BY <1>3, BeginPassRight, LoadOverridesRight, ApplyRulesRight, GiveResultRight
<1>4. CASE Ask \/ Answer \/ Return \/ NextPage \/ InspectListed \/ RefreshIndex
  <2>1. UNCHANGED <<tool, rules>>
    BY <1>4, Zenon DEF Ask, Answer, Return, NextPage, InspectListed, RefreshIndex
  <2> QED
    BY <1>1, <2>1
<1>5. CASE ObserveTree \/ Restart
  <2>1. UNCHANGED <<tool, rules>>
    BY <1>5, Zenon DEF ObserveTree, Restart
  <2> QED
    BY <1>1, <2>1
<1>6. CASE UNCHANGED vars
  BY <1>1, <1>6 DEF vars
<1> QED
  BY <1>2, <1>3, <1>4, <1>5, <1>6 DEF Next

LEMMA SensitiveOrNot ==
    ASSUME NEW path
    PROVE  ~F!IsSensitive(path) => F!Cut(path) = path
  BY DEF F!Cut

\* A path is cut after its first sensitive key.
LEMMA CutAfterKey ==
    ASSUME NEW path \in Seq(STRING), F!IsSensitive(path)
    PROVE  /\ F!IsSensitive(F!Cut(path))
           /\ \A j \in DOMAIN F!Cut(path) : F!Cut(path)[j] \in F!SensitiveKeys => j = Len(F!Cut(path))
<1> DEFINE First(i) == path[i] \in F!SensitiveKeys /\ \A j \in 1 .. i - 1 : path[j] \notin F!SensitiveKeys
           keys == {i \in DOMAIN path : path[i] \in F!SensitiveKeys}
           i == CHOOSE i \in DOMAIN path : First(i)
<1>1. keys # {} /\ keys \subseteq Nat /\ \A k \in keys : k \in DOMAIN path
  BY DEF F!IsSensitive
<1>2. PICK k \in keys : \A m \in keys : ~(m < k)
  <2> HIDE DEF keys
  <2>1. \E k \in keys : \A m \in keys : <<m, k>> \notin OpToRel(<, Nat)
    BY <1>1, NatLessThanWellFounded, WFMin
  <2> QED
    BY <1>1, <2>1 DEF OpToRel
<1>3. First(k)
  <2>1. ASSUME NEW j \in 1 .. k - 1 PROVE path[j] \notin F!SensitiveKeys
    <3>1. j \in DOMAIN path /\ j < k
      BY <1>1
    <3> QED
      BY <1>2, <3>1
  <2> QED
    BY <1>2, <2>1
<1>4. i \in DOMAIN path /\ First(i)
  BY <1>1, <1>3, Zenon
<1>5. F!Cut(path) = SubSeq(path, 1, i)
  BY DEF F!Cut
<1> HIDE DEF i, keys
<1>6. i \in Nat \ {0} /\ i <= Len(path)
  BY <1>4
<1>7. Len(SubSeq(path, 1, i)) = i /\ DOMAIN SubSeq(path, 1, i) = 1 .. i /\ \A j \in 1 .. i : SubSeq(path, 1, i)[j] = path[j]
  BY <1>6
<1>8. F!IsSensitive(F!Cut(path))
  BY <1>4, <1>5, <1>6, <1>7 DEF F!IsSensitive
<1>9. ASSUME NEW j \in 1 .. i, path[j] \in F!SensitiveKeys PROVE j = i
  BY <1>4, <1>6, <1>9
<1> QED
  BY <1>5, <1>7, <1>8, <1>9

LEMMA GatewayGives ==
    ASSUME GatewayInv, NEW c \in Callers, pass[c] # <<>>, pass[c][1].given # <<>>
    PROVE  LET done == pass[c][1]
               Set(overrides) == Range(F!compile_privacy_rules(overrides))
               always == {p \in UNION {Set(done.read[t]) : t \in DOMAIN done.read} :
                             \A t \in DOMAIN done.read : p \in Set(done.read[t])}
               given == done.given[1]
           IN \A path \in DOMAIN given :
                 /\ given[path].kind = "text" /\ ~F!IsSensitive(path) =>
                       \A piece \in F!Pieces(given[path].text) :
                          \/ piece.name = F!NoticeName
                          \/ piece.matches \cap (Range(F!SECRET_PATTERNS) \cup always) = {}
                 /\ \A i \in DOMAIN path : path[i] \in F!SensitiveKeys =>
                       i = Len(path) /\ given[path] = [kind |-> "text", text |-> F!KeyRedacted]
<1> DEFINE done == pass[c][1]
           value == done.result
           Set(overrides) == Range(F!compile_privacy_rules(overrides))
           always == {p \in UNION {Set(done.read[t]) : t \in DOMAIN done.read} :
                         \A t \in DOMAIN done.read : p \in Set(done.read[t])}
           given == done.given[1]
           Cleaned(text) == F!sanitize_text_with_dynamic_patterns(text, done.rules[text]).text
           notice == [kind |-> "text", text |-> F!KeyRedacted]
<1> SUFFICES ASSUME NEW path \in DOMAIN given
             PROVE  /\ given[path].kind = "text" /\ ~F!IsSensitive(path) =>
                          \A piece \in F!Pieces(given[path].text) :
                             \/ piece.name = F!NoticeName
                             \/ piece.matches \cap (Range(F!SECRET_PATTERNS) \cup always) = {}
                    /\ \A i \in DOMAIN path : path[i] \in F!SensitiveKeys => i = Len(path) /\ given[path] = notice
  OBVIOUS
<1>1. /\ PassRight(done) /\ value \in Results
      /\ F!TextsToClean(value) \subseteq DOMAIN done.rules /\ DOMAIN done.rules = DOMAIN done.read
      /\ given = F!sanitize_json_args(value, done.rules)
  BY DEF GatewayInv, CallerRight, PassRight
<1> HIDE DEF done, given, always
<1>2. /\ DOMAIN given = {F!Cut(p) : p \in DOMAIN value}
      /\ given[path] = IF F!IsSensitive(path) THEN notice
                       ELSE IF value[path].kind = "text" THEN [kind |-> "text", text |-> Cleaned(value[path].text)]
                       ELSE value[path]
  BY <1>1, Zenon DEF F!sanitize_json_args
<1>3. PICK p \in DOMAIN value : path = F!Cut(p)
  BY <1>2
<1>4. p \in Seq(STRING)
  BY <1>1, ResultsAssumption
<1> HIDE DEF Cleaned, notice
<1>5. CASE F!IsSensitive(p)
  <2>1. F!IsSensitive(path) /\ \A j \in DOMAIN path : path[j] \in F!SensitiveKeys => j = Len(path)
    BY <1>3, <1>4, <1>5, CutAfterKey
  <2>2. given[path] = notice
    BY <1>2, <2>1
  <2> QED
    BY <2>1, <2>2
<1>6. CASE ~F!IsSensitive(p)
  <2>1. path = p /\ ~F!IsSensitive(path)
    BY <1>3, <1>6, SensitiveOrNot
  <2>2. \A i \in DOMAIN path : path[i] \notin F!SensitiveKeys
    BY <2>1 DEF F!IsSensitive
  <2>3. ASSUME given[path].kind = "text", NEW piece \in F!Pieces(given[path].text)
        PROVE  \/ piece.name = F!NoticeName
               \/ piece.matches \cap (Range(F!SECRET_PATTERNS) \cup always) = {}
    <3> DEFINE text == value[path].text
    <3>1. value[path].kind = "text"
      BY <1>2, <2>1, <2>3
    <3>2. given[path].text = Cleaned(text)
      BY <1>2, <2>1, <3>1
    <3>3. text \in F!Text
      BY <1>1, <2>1, <3>1, ResultsAssumption
    <3>4. text \in F!TextsToClean(value)
      BY <2>1, <3>1 DEF F!TextsToClean
    <3>5. text \in DOMAIN done.read /\ done.read[text] \in Seq(STRING) /\ done.rules[text] = F!compile_privacy_rules(done.read[text])
      BY <1>1, <3>4 DEF PassRight
    <3> HIDE DEF text
    <3>6. done.rules[text] \in Seq(STRING)
      BY <3>5, CompiledRules
    <3>7. \/ piece.name = F!NoticeName
          \/ piece.matches \cap (Range(F!SECRET_PATTERNS) \cup Range(done.rules[text])) = {}
      BY <2>3, <3>2, <3>3, <3>6, CleanedText DEF Cleaned
    <3>8. always \subseteq Range(done.rules[text])
      BY <3>5, Zenon DEF always
    <3> QED
      BY <3>7, <3>8, Zenon
  <2> QED
    BY <2>2, <2>3
<1> QED
  BY <1>5, <1>6

\* Only notices are left to redact (apply_final_privacy_pass and compiled_privacy_rules,
\* privacy_gateway.rs): whatever the results, the patterns, what a notice matches and the
\* changes of the settings between two reads, and however two callers share the cache.
THEOREM OnlyNoticesLeft == Spec => []OnlyNoticesMatch
<1>1. GatewayInv => OnlyNoticesMatch
  BY GatewayGives, Zenon DEF OnlyNoticesMatch
<1>2. GatewayInv /\ [Next]_vars => GatewayInv'
  BY GatewayNext
<1> QED
  BY GatewayInit, <1>1, <1>2, PTL DEF Spec

================================================================================
