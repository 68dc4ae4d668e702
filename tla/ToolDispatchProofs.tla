-------------------------- MODULE ToolDispatchProofs --------------------------
(***************************************************************************)
(* For any number of calls, permits, edits and timeouts: the permits of    *)
(* both semaphores add up and none lies idle, and lint_file is not         *)
(* followed by older diagnostics.                                          *)
(***************************************************************************)
EXTENDS ToolDispatch, FiniteSetTheorems, SequenceTheorems, TLAPS

(***************************************************************************)
(* What each operation of a semaphore does to those that wait for it and   *)
(* those that hold a permit, for any number of either.                     *)
(***************************************************************************)
\* A semaphore of n permits that waiters wait for, in the queue or with a permit in
\* the hand, while holders hold one each: no permit is missing, and none is idle.
Sound(s, n, S, waiters, holders) ==
    /\ s \in [free : Nat, queue : Seq(S), granted : SUBSET S]
    /\ \A i, j \in DOMAIN s.queue : s.queue[i] = s.queue[j] => i = j
    /\ Waiting(s) \cap s.granted = {}
    /\ waiters = Waiting(s) \cup s.granted
    /\ holders \in SUBSET S
    /\ Balanced(s, n, holders)
    /\ NoneIdle(s)

LEMMA SoundSets ==
    ASSUME NEW S, IsFiniteSet(S), NEW s, NEW n \in Nat, NEW W, NEW H, Sound(s, n, S, W, H)
    PROVE  /\ IsFiniteSet(s.granted) /\ IsFiniteSet(H)
           /\ Cardinality(s.granted) \in Nat /\ Cardinality(H) \in Nat
           /\ s.granted \subseteq W /\ W \subseteq S
<1>1. IsFiniteSet(s.granted) /\ IsFiniteSet(H)
  BY FS_Subset DEF Sound
<1>2. Waiting(s) \subseteq S
  BY DEF Sound, Waiting
<1>3. QED
  BY <1>1, <1>2, FS_CardinalityType DEF Sound

LEMMA SoundFree ==
    ASSUME NEW S, NEW s, NEW n, NEW W, NEW H, Sound(s, n, S, W, H)
    PROVE  s.free \in Nat
BY DEF Sound

\* It is a semaphore of its type, whose permits add up.
LEMMA SoundTyped ==
    ASSUME NEW S, IsFiniteSet(S), NEW s, NEW n \in Nat, NEW W, NEW H, Sound(s, n, S, W, H)
    PROVE  s \in Semaphores(n, S)
<1>1. s.free \in 0..n
  BY SoundSets DEF Sound, Balanced
<1>2. QED
  BY <1>1 DEF Sound, Semaphores

LEMMA FreshSound ==
    ASSUME NEW S, NEW n \in Nat
    PROVE  Sound(Fresh(n), n, S, {}, {})
BY FS_EmptySet DEF Sound, Fresh, Waiting, Balanced, NoneIdle

\* A free permit goes to a new holder.
LEMMA TakeSound ==
    ASSUME NEW S, IsFiniteSet(S), NEW s, NEW n \in Nat, NEW W, NEW H, Sound(s, n, S, W, H),
           NEW c \in S, c \notin H, Available(s)
    PROVE  Sound(Take(s), n, S, W, H \cup {c})
<1>1. Cardinality(H \cup {c}) = Cardinality(H) + 1
  BY SoundSets, FS_AddElement
<1>2. s.queue = <<>>
  BY DEF Sound, NoneIdle, Available
<1>3. /\ Take(s).free = s.free - 1 /\ Take(s).queue = s.queue /\ Take(s).granted = s.granted
      /\ Take(s) \in [free : Nat, queue : Seq(S), granted : SUBSET S]
  BY DEF Take, Available, Sound
<1>4. Balanced(Take(s), n, H \cup {c})
  BY <1>1, <1>3, SoundSets DEF Balanced, Sound
<1>5. QED
  BY <1>2, <1>3, <1>4 DEF Sound, Waiting, NoneIdle

\* With none free, a newcomer waits.
LEMMA EnqueueSound ==
    ASSUME NEW S, IsFiniteSet(S), NEW s, NEW n \in Nat, NEW W, NEW H, Sound(s, n, S, W, H),
           NEW c \in S, c \notin W, ~Available(s)
    PROVE  Sound(Enqueue(s, c), n, S, W \cup {c}, H)
<1> DEFINE t == Enqueue(s, c)
<1>1. /\ t.free = s.free /\ t.queue = Append(s.queue, c) /\ t.granted = s.granted
      /\ t \in [free : Nat, queue : Seq(S), granted : SUBSET S]
  <2>1. s \in [free : Nat, queue : Seq(S), granted : SUBSET S] /\ Append(s.queue, c) \in Seq(S)
    BY DEF Sound
  <2>2. t = [s EXCEPT !.queue = Append(s.queue, c)]
    BY DEF Enqueue
  <2> HIDE DEF t
  <2>3. QED
    BY <2>1, <2>2
<1>2. s.free = 0
  BY DEF Sound, Available
<1>3. /\ DOMAIN t.queue = DOMAIN s.queue \cup {Len(s.queue) + 1}
      /\ t.queue[Len(s.queue) + 1] = c
      /\ \A i \in DOMAIN s.queue : t.queue[i] = s.queue[i] /\ i # Len(s.queue) + 1
  BY <1>1 DEF Sound
<1>4. Waiting(t) = Waiting(s) \cup {c}
  BY <1>3 DEF Waiting
<1>5. c \notin Waiting(s) /\ c \notin s.granted
  BY DEF Sound
<1>6. \A i, j \in DOMAIN t.queue : t.queue[i] = t.queue[j] => i = j
  BY <1>3, <1>5 DEF Sound, Waiting
<1>7. Balanced(t, n, H) /\ NoneIdle(t)
  BY <1>1, <1>2 DEF Balanced, NoneIdle, Sound
<1>8. QED
  BY <1>1, <1>4, <1>5, <1>6, <1>7 DEF Sound

\* A waiter takes the permit it was handed.
LEMMA CollectSound ==
    ASSUME NEW S, IsFiniteSet(S), NEW s, NEW n \in Nat, NEW W, NEW H, Sound(s, n, S, W, H),
           NEW c \in s.granted, c \notin H
    PROVE  Sound(Collect(s, c), n, S, W \ {c}, H \cup {c})
<1>1. Cardinality(H \cup {c}) = Cardinality(H) + 1 /\ Cardinality(s.granted \ {c}) = Cardinality(s.granted) - 1
  BY SoundSets, FS_AddElement, FS_RemoveElement
<1>2. /\ Collect(s, c).free = s.free /\ Collect(s, c).queue = s.queue
      /\ Collect(s, c).granted = s.granted \ {c}
      /\ Collect(s, c) \in [free : Nat, queue : Seq(S), granted : SUBSET S]
  BY DEF Collect, Sound
<1>3. Balanced(Collect(s, c), n, H \cup {c})
  <2>1. s.free \in Nat /\ Cardinality(s.granted) \in Nat /\ Cardinality(H) \in Nat
    BY SoundFree, SoundSets
  <2>2. s.free + Cardinality(s.granted) + Cardinality(H) = n
    BY DEF Sound, Balanced
  <2>3. QED
    BY <1>1, <1>2, <2>1, <2>2 DEF Balanced
<1>4. Waiting(Collect(s, c)) = Waiting(s)
  BY <1>2 DEF Waiting
<1>5. QED
  BY <1>2, <1>3, <1>4 DEF Sound, NoneIdle

\* A permit comes back that held counts and the rest does not: it is free again or
\* with the first in the queue.
LEMMA ReturnSound ==
    ASSUME NEW S, IsFiniteSet(S), NEW s, NEW n \in Nat, NEW W, NEW H,
           s \in [free : Nat, queue : Seq(S), granted : SUBSET S],
           \A i, j \in DOMAIN s.queue : s.queue[i] = s.queue[j] => i = j,
           Waiting(s) \cap s.granted = {}, W = Waiting(s) \cup s.granted, H \in SUBSET S,
           s.free + Cardinality(s.granted) + Cardinality(H) + 1 = n, NoneIdle(s)
    PROVE  Sound(Release(s), n, S, W, H)
<1> DEFINE t == Release(s)
<1>1. IsFiniteSet(s.granted) /\ IsFiniteSet(H)
  BY FS_Subset
<1>2. Cardinality(s.granted) \in Nat /\ Cardinality(H) \in Nat
  BY <1>1, FS_CardinalityType
<1>3. CASE s.queue = <<>>
  <2>1. /\ t.free = s.free + 1 /\ t.queue = <<>> /\ t.granted = s.granted
        /\ t \in [free : Nat, queue : Seq(S), granted : SUBSET S]
    BY <1>3 DEF Release
  <2>2. Balanced(t, n, H) /\ NoneIdle(t) /\ Waiting(t) = Waiting(s)
    BY <1>2, <1>3, <2>1 DEF Balanced, NoneIdle, Waiting
  <2>3. \A i, j \in DOMAIN t.queue : t.queue[i] = t.queue[j] => i = j
    BY <2>1
  <2>4. QED
    BY <2>1, <2>2, <2>3 DEF Sound
<1>4. CASE s.queue # <<>>
  <2> DEFINE h == Head(s.queue)
  <2>1. h = s.queue[1] /\ 1 \in DOMAIN s.queue /\ h \in S
    BY <1>4
  <2>2. /\ t.free = s.free /\ t.queue = Tail(s.queue) /\ t.granted = s.granted \cup {h}
        /\ t \in [free : Nat, queue : Seq(S), granted : SUBSET S]
    <3>1. Tail(s.queue) \in Seq(S) /\ s.granted \cup {h} \in SUBSET S
      BY <1>4, <2>1
    <3>2. t = [s EXCEPT !.queue = Tail(s.queue), !.granted = s.granted \cup {h}]
      BY <1>4 DEF Release
    <3> HIDE DEF t, h
    <3>3. QED
      BY <3>1, <3>2
  <2>3. /\ \A i \in DOMAIN t.queue : t.queue[i] = s.queue[i + 1] /\ i + 1 \in DOMAIN s.queue /\ i + 1 # 1
        /\ \A i \in DOMAIN s.queue \ {1} : i - 1 \in DOMAIN t.queue /\ t.queue[i - 1] = s.queue[i]
    BY <1>4, <2>2
  <2>4. Waiting(t) = Waiting(s) \ {h}
    BY <2>1, <2>3 DEF Waiting
  <2>5. h \notin s.granted /\ h \in Waiting(s)
    BY <2>1 DEF Waiting
  <2>6. Cardinality(t.granted) = Cardinality(s.granted) + 1
    BY <1>1, <2>2, <2>5, FS_AddElement
  <2>7. Balanced(t, n, H) /\ NoneIdle(t)
    BY <1>2, <1>4, <2>2, <2>6 DEF Balanced, NoneIdle
  <2>8. \A i, j \in DOMAIN t.queue : t.queue[i] = t.queue[j] => i = j
    <3> SUFFICES ASSUME NEW i \in DOMAIN t.queue, NEW j \in DOMAIN t.queue, t.queue[i] = t.queue[j]
                 PROVE  i = j
      OBVIOUS
    <3>1. i + 1 = j + 1 /\ i \in Int /\ j \in Int
      BY <2>2, <2>3
    <3>2. QED
      BY <3>1
  <2>9. Waiting(t) \cap t.granted = {} /\ W = Waiting(t) \cup t.granted
    BY <2>2, <2>4, <2>5
  <2>10. QED
    BY <2>2, <2>7, <2>8, <2>9 DEF Sound
<1>5. QED
  BY <1>3, <1>4

\* A holder gives its permit back.
LEMMA ReleaseSound ==
    ASSUME NEW S, IsFiniteSet(S), NEW s, NEW n \in Nat, NEW W, NEW H, Sound(s, n, S, W, H),
           NEW c \in H
    PROVE  Sound(Release(s), n, S, W, H \ {c})
<1>1. Cardinality(H \ {c}) = Cardinality(H) - 1
  BY SoundSets, FS_RemoveElement
<1>2. s.free + Cardinality(s.granted) + Cardinality(H \ {c}) + 1 = n
  BY <1>1, SoundSets DEF Sound, Balanced
<1>3. /\ s \in [free : Nat, queue : Seq(S), granted : SUBSET S]
      /\ \A i, j \in DOMAIN s.queue : s.queue[i] = s.queue[j] => i = j
      /\ Waiting(s) \cap s.granted = {} /\ W = Waiting(s) \cup s.granted
      /\ H \ {c} \in SUBSET S /\ NoneIdle(s)
  BY DEF Sound
<1>4. QED
  BY <1>2, <1>3, ReturnSound

\* A sequence without its k-th element.
LEMMA WithoutOne ==
    ASSUME NEW S, NEW q \in Seq(S), NEW k \in 1 .. Len(q),
           NEW r, r = SubSeq(q, 1, k - 1) \o SubSeq(q, k + 1, Len(q))
    PROVE  /\ r \in Seq(S) /\ Len(r) = Len(q) - 1
           /\ \A i \in 1 .. Len(q) - 1 : r[i] = IF i < k THEN q[i] ELSE q[i + 1]
<1> DEFINE a == SubSeq(q, 1, k - 1)
           b == SubSeq(q, k + 1, Len(q))
<1>0. Len(q) \in Nat /\ k \in Nat /\ k >= 1 /\ k <= Len(q) /\ \A i \in 1 .. Len(q) : q[i] \in S
  OBVIOUS
<1>1. a \in Seq(S) /\ Len(a) = k - 1 /\ \A i \in 1 .. k - 1 : a[i] = q[i]
  <2>1. \A i \in 1 .. k - 1 : q[i] \in S /\ q[1 + i - 1] = q[i]
    BY <1>0
  <2>2. /\ a \in Seq(S) /\ Len(a) = IF 1 <= k - 1 THEN (k - 1) - 1 + 1 ELSE 0
        /\ \A i \in 1 .. (k - 1) - 1 + 1 : a[i] = q[1 + i - 1]
    <3>1. 1 \in Int /\ k - 1 \in Int
      BY <1>0
    <3>2. QED
      BY <2>1, <3>1, SubSeqProperties
  <2> HIDE DEF a
  <2>3. QED
    BY <1>0, <2>1, <2>2
<1>2. b \in Seq(S) /\ Len(b) = Len(q) - k /\ \A i \in 1 .. Len(q) - k : b[i] = q[i + k]
  <2>1. \A i \in k + 1 .. Len(q) : q[i] \in S
    BY <1>0
  <2>2. /\ b \in Seq(S) /\ Len(b) = IF k + 1 <= Len(q) THEN Len(q) - (k + 1) + 1 ELSE 0
        /\ \A i \in 1 .. Len(q) - (k + 1) + 1 : b[i] = q[(k + 1) + i - 1]
    <3>1. k + 1 \in Int /\ Len(q) \in Int
      BY <1>0
    <3>2. QED
      BY <2>1, <3>1, SubSeqProperties
  <2>3. \A i \in 1 .. Len(q) - k : (k + 1) + i - 1 = i + k
    BY <1>0
  <2>4. Len(q) - (k + 1) + 1 = Len(q) - k
    BY <1>0
  <2> HIDE DEF b
  <2>5. Len(b) = Len(q) - k
    BY <1>0, <2>2
  <2>6. ASSUME NEW i \in 1 .. Len(q) - k PROVE b[i] = q[i + k]
    <3>1. b[i] = q[(k + 1) + i - 1]
      BY <2>2, <2>4
    <3>2. QED
      BY <2>3, <3>1
  <2>7. QED
    BY <2>2, <2>5, <2>6
<1>3. /\ r \in Seq(S) /\ Len(r) = Len(a) + Len(b)
      /\ \A i \in 1 .. Len(a) + Len(b) : r[i] = IF i <= Len(a) THEN a[i] ELSE b[i - Len(a)]
  BY <1>1, <1>2, ConcatProperties
<1> HIDE DEF a, b
<1>4. Len(a) + Len(b) = Len(q) - 1
  BY <1>0, <1>1, <1>2
<1>5. ASSUME NEW i \in 1 .. Len(q) - 1
      PROVE  r[i] = IF i < k THEN q[i] ELSE q[i + 1]
  <2>1. r[i] = IF i <= k - 1 THEN a[i] ELSE b[i - (k - 1)]
    BY <1>1, <1>3, <1>4
  <2>2. CASE i < k
    <3>1. i \in 1 .. k - 1 /\ i <= k - 1
      BY <1>0, <2>2
    <3>2. QED
      BY <1>1, <2>1, <2>2, <3>1
  <2>3. CASE ~(i < k)
    <3>1. i - (k - 1) \in 1 .. Len(q) - k /\ ~(i <= k - 1) /\ (i - (k - 1)) + k = i + 1
      BY <1>0, <2>3
    <3>2. b[i - (k - 1)] = q[(i - (k - 1)) + k]
      BY <1>2, <3>1
    <3>3. QED
      BY <2>1, <2>3, <3>1, <3>2
  <2>4. QED
    BY <2>2, <2>3
<1>6. QED
  BY <1>3, <1>4, <1>5

\* An acquisition is dropped: whatever it waited for or was handed is not lost.
LEMMA AbandonSound ==
    ASSUME NEW S, IsFiniteSet(S), NEW s, NEW n \in Nat, NEW W, NEW H, Sound(s, n, S, W, H),
           NEW c
    PROVE  Sound(Abandon(s, c), n, S, W \ {c}, H)
<1>1. CASE c \in s.granted
  <2> DEFINE t == Collect(s, c)
  <2>1. /\ t.free = s.free /\ t.queue = s.queue /\ t.granted = s.granted \ {c}
        /\ t \in [free : Nat, queue : Seq(S), granted : SUBSET S]
    BY DEF Collect, Sound
  <2>2. Cardinality(t.granted) = Cardinality(s.granted) - 1
    BY <1>1, <2>1, SoundSets, FS_RemoveElement
  <2>3. t.free + Cardinality(t.granted) + Cardinality(H) + 1 = n
    <3>1. s.free \in Nat /\ Cardinality(s.granted) \in Nat /\ Cardinality(H) \in Nat
      BY SoundFree, SoundSets
    <3>2. s.free + Cardinality(s.granted) + Cardinality(H) = n
      BY DEF Sound, Balanced
    <3> HIDE DEF t
    <3>3. QED
      BY <2>1, <2>2, <3>1, <3>2
  <2>4. /\ \A i, j \in DOMAIN t.queue : t.queue[i] = t.queue[j] => i = j
        /\ Waiting(t) \cap t.granted = {} /\ W \ {c} = Waiting(t) \cup t.granted
        /\ H \in SUBSET S /\ NoneIdle(t)
    BY <1>1, <2>1 DEF Sound, Waiting, NoneIdle
  <2>5. Sound(Release(t), n, S, W \ {c}, H)
    BY <2>1, <2>3, <2>4, ReturnSound
  <2>6. QED
    BY <1>1, <2>5 DEF Abandon
<1>2. CASE c \notin s.granted /\ c \in Waiting(s)
  <2> DEFINE k == CHOOSE i \in DOMAIN s.queue : s.queue[i] = c
             q == s.queue
             t == Leave(s, k)
  <2>1. k \in DOMAIN q /\ q[k] = c
    BY <1>2 DEF Waiting
  <2>2. s \in [free : Nat, queue : Seq(S), granted : SUBSET S]
    BY DEF Sound
  <2>3. q \in Seq(S) /\ \A i, j \in DOMAIN q : q[i] = q[j] => i = j
    BY <2>2 DEF Sound
  <2> HIDE DEF k
  <2>4. /\ t.free = s.free /\ t.granted = s.granted
        /\ t.queue = SubSeq(q, 1, k - 1) \o SubSeq(q, k + 1, Len(q))
        /\ t = [s EXCEPT !.queue = t.queue]
    BY <2>2 DEF Leave
  <2>q. q = s.queue
    OBVIOUS
  <2> HIDE DEF t, q
  <2>5. Len(q) \in Nat /\ DOMAIN q = 1 .. Len(q)
    BY <2>3
  <2>k. k \in 1 .. Len(q) /\ k \in Int /\ k >= 1 /\ k <= Len(q)
    BY <2>1, <2>5
  <2>6. /\ t.queue \in Seq(S) /\ Len(t.queue) = Len(q) - 1
        /\ \A i \in 1 .. Len(q) - 1 : t.queue[i] = IF i < k THEN q[i] ELSE q[i + 1]
    <3>1. q \in Seq(S) /\ k \in 1 .. Len(q)
      BY <2>3, <2>k
    <3>2. t.queue = SubSeq(q, 1, k - 1) \o SubSeq(q, k + 1, Len(q))
      BY <2>4
    <3> DEFINE r == t.queue
    <3> HIDE DEF r
    <3>3. r = SubSeq(q, 1, k - 1) \o SubSeq(q, k + 1, Len(q))
      BY <3>2 DEF r
    <3>4. /\ r \in Seq(S) /\ Len(r) = Len(q) - 1
          /\ \A i \in 1 .. Len(q) - 1 : r[i] = IF i < k THEN q[i] ELSE q[i + 1]
      BY ONLY <3>1, <3>3, WithoutOne
    <3>5. QED
      BY <3>4 DEF r
  <2>7. t \in [free : Nat, queue : Seq(S), granted : SUBSET S]
    BY <2>2, <2>4, <2>6
  <2>8. DOMAIN t.queue = 1 .. Len(q) - 1
    BY <2>6, LenProperties
  <2> DEFINE Place(l) == IF l < k THEN l ELSE l + 1
  <2>a. ASSUME NEW i \in DOMAIN t.queue
        PROVE  Place(i) \in DOMAIN q /\ Place(i) # k /\ t.queue[i] = q[Place(i)]
    <3>1. i \in 1 .. Len(q) - 1 /\ i \in Int
      BY <2>8
    <3>2. t.queue[i] = IF i < k THEN q[i] ELSE q[i + 1]
      BY <2>6, <3>1
    <3>3. CASE i < k
      <4>1. i \in 1 .. Len(q) /\ i # k
        BY <2>5, <2>k, <3>1, <3>3
      <4>2. QED
        BY <2>5, <3>2, <3>3, <4>1
    <3>4. CASE ~(i < k)
      <4>1. i + 1 \in 1 .. Len(q) /\ i + 1 # k
        BY <2>5, <2>k, <3>1, <3>4
      <4>2. QED
        BY <2>5, <3>2, <3>4, <4>1
    <3>5. QED
      BY <3>3, <3>4
  <2>9. \A i, j \in DOMAIN t.queue : t.queue[i] = t.queue[j] => i = j
    <3> SUFFICES ASSUME NEW i \in DOMAIN t.queue, NEW j \in DOMAIN t.queue,
                        t.queue[i] = t.queue[j]
                 PROVE  i = j
      OBVIOUS
    <3>1. Place(i) \in DOMAIN q /\ Place(j) \in DOMAIN q /\ q[Place(i)] = q[Place(j)]
      BY <2>a
    <3>2. Place(i) = Place(j)
      <4> HIDE DEF Place
      <4>1. QED
        BY <2>3, <3>1
    <3>3. i \in Int /\ j \in Int
      BY <2>8
    <3>4. QED
      BY <2>k, <3>2, <3>3
  <2>10. \A i \in DOMAIN t.queue : t.queue[i] \in Waiting(s) \ {c}
    <3> SUFFICES ASSUME NEW i \in DOMAIN t.queue PROVE t.queue[i] \in Waiting(s) \ {c}
      OBVIOUS
    <3>1. Place(i) \in DOMAIN q /\ Place(i) # k /\ t.queue[i] = q[Place(i)]
      BY <2>a
    <3> HIDE DEF Place
    <3>2. q[Place(i)] # c
      BY <2>1, <2>3, <3>1
    <3>3. QED
      BY <2>q, <3>1, <3>2 DEF Waiting
  <2>11. \A x \in Waiting(s) \ {c} : \E i \in DOMAIN t.queue : t.queue[i] = x
    <3> SUFFICES ASSUME NEW x \in Waiting(s) \ {c} PROVE \E j \in DOMAIN t.queue : t.queue[j] = x
      OBVIOUS
    <3>0. PICK i \in DOMAIN q : q[i] = x /\ i # k
      BY <2>1, <2>q DEF Waiting
    <3>1. i \in 1 .. Len(q) /\ i \in Int /\ i # k
      BY <2>5, <3>0
    <3>2. CASE i < k
      <4>1. i \in 1 .. Len(q) - 1
        BY <2>5, <2>k, <3>1, <3>2
      <4>2. QED
        BY <2>6, <2>8, <3>0, <3>2, <4>1
    <3>3. CASE i > k
      <4>1. i - 1 \in 1 .. Len(q) - 1 /\ ~(i - 1 < k) /\ (i - 1) + 1 = i
        BY <2>5, <2>k, <3>1, <3>3
      <4>2. t.queue[i - 1] = q[(i - 1) + 1]
        BY <2>6, <4>1
      <4>3. QED
        BY <2>8, <3>0, <4>1, <4>2
    <3>4. QED
      BY <2>k, <3>1, <3>2, <3>3
  <2>12. Waiting(t) = Waiting(s) \ {c}
    BY <2>10, <2>11 DEF Waiting
  <2>13. Balanced(t, n, H) /\ NoneIdle(t)
    <3>1. s.free = 0
      BY <1>2 DEF Sound, NoneIdle, Waiting
    <3>2. Balanced(s, n, H)
      BY DEF Sound
    <3>3. QED
      BY <2>4, <3>1, <3>2 DEF Balanced, NoneIdle
  <2>14. /\ Waiting(s) \cap s.granted = {} /\ W = Waiting(s) \cup s.granted /\ H \in SUBSET S
    BY DEF Sound
  <2>15. Sound(t, n, S, W \ {c}, H)
    BY <1>2, <2>4, <2>7, <2>9, <2>12, <2>13, <2>14 DEF Sound
  <2>16. QED
    BY <1>2, <2>15 DEF Abandon, k, t
<1>3. CASE c \notin s.granted /\ c \notin Waiting(s)
  BY <1>3 DEF Abandon, Sound
<1>4. QED
  BY <1>1, <1>2, <1>3

(***************************************************************************)
(* The calls and the semaphores they wait for.                             *)
(***************************************************************************)
LintQueued == {c \in Active : call[c].pc = "lintqueue"}

\* TypeOK, but for the semaphores, which are at their type because they are sound.
Types == /\ call \in [Calls -> {Idle} \cup Running]
         /\ toolCache \in [Keys -> Stored]
         /\ lintCache \in Stored
         /\ parsed \in BOOLEAN
         /\ parser \in SUBSET Calls
         /\ content \in Versions
         /\ timeouts \in 0..MaxTimeouts
         /\ reported \in Versions
         /\ slipped \in SUBSET (Keys \cup {<<"lint_cache">>})

\* Only expensive tools wait for a permit of the server.
QueueIsDear == \A c \in Queued : is_expensive_tool(call[c].key[1])

PermitInv == /\ QueueIsDear
             /\ Sound(permits, ToolPermits, Calls, Queued, Holders)
             /\ Sound(linters, LintPermits, Calls, LintQueued, LintHolders)

\* What a step may do to the calls it is not about: they go on past a wait for an
\* analysis, or learn that lint_file runs beside them.
Alike(x, y) == \/ x.pc = "idle" /\ y.pc = "idle"
               \/ /\ x.pc # "idle" /\ y.pc # "idle" /\ x.key = y.key
                  /\ \/ x.pc = y.pc
                     \/ /\ x.pc \notin {"queued", "lintqueue", "linter"}
                        /\ y.pc \notin {"queued", "lintqueue", "linter"}

Others(c) == \A d \in Calls \ {c} : Alike(call[d], call'[d])

\* Then only the call itself can enter or leave a queue or a set of holders.
LEMMA Frame ==
    ASSUME NEW c \in Calls, Others(c)
    PROVE  /\ Queued' \ {c} = Queued \ {c} /\ Holders' \ {c} = Holders \ {c}
           /\ LintQueued' \ {c} = LintQueued \ {c} /\ LintHolders' \ {c} = LintHolders \ {c}
           /\ \A d \in Queued' \ {c} : call'[d].key = call[d].key
<1>1. \A d \in Calls \ {c} : Alike(call[d], call'[d])
  BY DEF Others
<1>2. QED
  BY <1>1 DEF Alike, Active, Queued, Holders, LintQueued, LintHolders

LEMMA SameBut ==
    ASSUME NEW A, NEW B, NEW c, A \ {c} = B \ {c}
    PROVE  /\ (c \in A <=> c \in B) => A = B
           /\ c \notin A => A = B \ {c}
           /\ c \in A => A = B \cup {c}
OBVIOUS

LEMMA Sets ==
    ASSUME NEW c \in Calls, Others(c)
    PROVE  /\ ((c \in Queued' <=> c \in Queued) => Queued' = Queued)
           /\ (c \notin Queued' => Queued' = Queued \ {c})
           /\ (c \in Queued' => Queued' = Queued \cup {c})
           /\ ((c \in Holders' <=> c \in Holders) => Holders' = Holders)
           /\ (c \notin Holders' => Holders' = Holders \ {c})
           /\ (c \in Holders' => Holders' = Holders \cup {c})
           /\ ((c \in LintQueued' <=> c \in LintQueued) => LintQueued' = LintQueued)
           /\ (c \notin LintQueued' => LintQueued' = LintQueued \ {c})
           /\ (c \in LintQueued' => LintQueued' = LintQueued \cup {c})
           /\ ((c \in LintHolders' <=> c \in LintHolders) => LintHolders' = LintHolders)
           /\ (c \notin LintHolders' => LintHolders' = LintHolders \ {c})
           /\ (c \in LintHolders' => LintHolders' = LintHolders \cup {c})
<1>1. /\ Queued' \ {c} = Queued \ {c} /\ Holders' \ {c} = Holders \ {c}
      /\ LintQueued' \ {c} = LintQueued \ {c} /\ LintHolders' \ {c} = LintHolders \ {c}
  BY Frame
<1>2. QED
  BY ONLY <1>1, SameBut

\* What a call that is not waiting for a permit of the server leaves of that queue.
LEMMA QueueKept ==
    ASSUME QueueIsDear, NEW c \in Calls, Others(c),
           c \notin Queued' \/ is_expensive_tool(call'[c].key[1])
    PROVE  QueueIsDear'
<1>1. /\ Queued' \ {c} = Queued \ {c}
      /\ \A d \in Queued' \ {c} : call'[d].key = call[d].key
  BY Frame
<1>2. QED
  BY <1>1 DEF QueueIsDear

\* A call that stays where it is, as far as permits go, keeps everything as it is.
LEMMA Unmoved ==
    ASSUME PermitInv, NEW c \in Calls, Others(c), permits' = permits, linters' = linters,
           call'[c].key = call[c].key,
           call[c].pc \notin {"idle", "queued", "lintqueue", "linter"},
           call'[c].pc \notin {"idle", "queued", "lintqueue", "linter"}
    PROVE  PermitInv'
<1>1. /\ c \notin Queued /\ c \notin Queued' /\ (c \in Holders' <=> c \in Holders)
      /\ c \notin LintQueued /\ c \notin LintQueued' /\ c \notin LintHolders /\ c \notin LintHolders'
  BY DEF Active, Queued, Holders, LintQueued, LintHolders
<1>2. /\ Queued' = Queued /\ Holders' = Holders
      /\ LintQueued' = LintQueued /\ LintHolders' = LintHolders
  BY <1>1, Sets
<1>3. QED
  BY <1>1, <1>2, QueueKept DEF PermitInv

\* A call that ends where it holds no permit of the LintPool gives back the server's.
LEMMA Ended ==
    ASSUME PermitInv, NEW c \in Calls, Others(c), Free(c), linters' = linters,
           call[c].pc \notin {"idle", "queued", "lintqueue", "linter"}, call'[c].pc = "idle"
    PROVE  PermitInv'
<1>1. /\ c \notin Queued /\ c \notin Queued' /\ c \notin Holders'
      /\ c \notin LintQueued /\ c \notin LintQueued' /\ c \notin LintHolders /\ c \notin LintHolders'
  BY DEF Active, Queued, Holders, LintQueued, LintHolders
<1>2. /\ Queued' = Queued /\ Holders' = Holders \ {c}
      /\ LintQueued' = LintQueued /\ LintHolders' = LintHolders
  BY <1>1, Sets
<1>3. Sound(permits', ToolPermits, Calls, Queued', Holders')
  <2>1. CASE c \in Holders
    BY <1>2, <2>1, ReleaseSound, DispatchAssumption DEF PermitInv, Free
  <2>2. CASE c \notin Holders
    BY <1>2, <2>2 DEF PermitInv, Free
  <2>3. QED
    BY <2>1, <2>2
<1>4. QED
  BY <1>1, <1>2, <1>3, QueueKept DEF PermitInv
-------------------------------------------------------------------------------
(* Steps of one call *)

Points == {"queued", "lookup", "analyze", "parse", "await", "lint", "lintqueue", "linter", "finish"}

LEMMA Carries ==
    ASSUME Types, NEW c \in Calls, call[c].pc # "idle"
    PROVE  call[c] \in Running
BY DEF Types, Idle

LEMMA Alone ==
    ASSUME NEW c \in Calls, \A d \in Calls \ {c} : call'[d] = call[d]
    PROVE  Others(c)
BY DEF Others, Alike

LEMMA GoFacts ==
    ASSUME Types, NEW c \in Calls, call[c].pc # "idle", NEW point \in Points, Go(c, point)
    PROVE  /\ call' \in [Calls -> {Idle} \cup Running]
           /\ call'[c] = [call[c] EXCEPT !.pc = point]
           /\ call'[c].pc = point /\ call'[c].key = call[c].key
           /\ call'[c].lint = call[c].lint /\ call'[c].overlaps = call[c].overlaps
           /\ \A d \in Calls \ {c} : call'[d] = call[d]
           /\ Others(c)
<1>1. call[c] \in Running
  BY Carries
<1>2. call \in [Calls -> {Idle} \cup Running]
  BY DEF Types
<1>3. /\ call'[c] = [call[c] EXCEPT !.pc = point]
      /\ \A d \in Calls \ {c} : call'[d] = call[d]
      /\ call' = [call EXCEPT ![c] = [call[c] EXCEPT !.pc = point]]
  BY <1>2 DEF Go
<1>4. /\ [call[c] EXCEPT !.pc = point] \in Running
      /\ call'[c].pc = point /\ call'[c].key = call[c].key
      /\ call'[c].lint = call[c].lint /\ call'[c].overlaps = call[c].overlaps
  BY <1>1, <1>3 DEF Running, Points
<1>5. QED
  BY <1>2, <1>3, <1>4, Alone

LEMMA DoneFacts ==
    ASSUME Types, NEW c \in Calls, call' = [call EXCEPT ![c] = Idle]
    PROVE  /\ call' \in [Calls -> {Idle} \cup Running]
           /\ call'[c] = Idle /\ call'[c].pc = "idle"
           /\ \A d \in Calls \ {c} : call'[d] = call[d]
           /\ Others(c)
<1>1. /\ call' \in [Calls -> {Idle} \cup Running]
      /\ call'[c] = Idle /\ call'[c].pc = "idle"
      /\ \A d \in Calls \ {c} : call'[d] = call[d]
  BY DEF Types, Idle
<1>2. QED
  BY <1>1, Alone

LEMMA KeepLookup ==
    ASSUME Types, PermitInv, NEW c \in Calls, Lookup(c)
    PROVE  PermitInv'
<1>1. /\ call[c].pc = "lookup" /\ linters' = linters
      /\ \/ call' = [call EXCEPT ![c] = Idle] /\ Free(c)
         \/ Go(c, "analyze") /\ permits' = permits
  BY DEF Lookup, At, lintVars
<1>2. CASE call' = [call EXCEPT ![c] = Idle] /\ Free(c)
  BY <1>1, <1>2, DoneFacts, Ended
<1>3. CASE Go(c, "analyze") /\ permits' = permits
  BY <1>1, <1>3, GoFacts, Unmoved DEF Points
<1>4. QED
  BY <1>1, <1>2, <1>3

LEMMA KeepAnalyze ==
    ASSUME Types, PermitInv, NEW c \in Calls, Analyze(c)
    PROVE  PermitInv'
<1>1. /\ call[c].pc = "analyze" /\ linters' = linters /\ permits' = permits
      /\ \E point \in {"lint", "finish", "parse", "await"} : Go(c, point)
  BY DEF Analyze, At, AfterAnalysis, dispatchVars
<1>2. PICK point \in {"lint", "finish", "parse", "await"} : Go(c, point)
  BY <1>1
<1>3. point \in Points
  BY DEF Points
<1>4. /\ call'[c].key = call[c].key /\ call'[c].pc = point /\ Others(c)
  BY <1>1, <1>2, <1>3, GoFacts
<1>5. call'[c].pc \notin {"idle", "queued", "lintqueue", "linter"}
  BY <1>4
<1>6. QED
  BY <1>1, <1>4, <1>5, Unmoved

LEMMA ParsedFacts ==
    ASSUME Types, NEW c \in Calls, Parsed(c)
    PROVE  /\ call' \in [Calls -> {Idle} \cup Running]
           /\ \A d \in Calls : \/ call'[d] = call[d] /\ d # c
                               \/ /\ call[d].pc \in {"parse", "await"}
                                  /\ call'[d].pc \in {"lint", "finish"}
                                  /\ call'[d].key = call[d].key
                                  /\ call'[d].lint = call[d].lint
                                  /\ call'[d].overlaps = call[d].overlaps
<1>1. call \in [Calls -> {Idle} \cup Running] /\ call[c].pc = "parse"
  BY DEF Types, Parsed, At
<1>2. call' = [d \in Calls |-> IF d = c \/ At(d, "await")
                               THEN [call[d] EXCEPT !.pc = AfterAnalysis(d)] ELSE call[d]]
  BY DEF Parsed
<1>3. ASSUME NEW d \in Calls
      PROVE  /\ call'[d] \in {Idle} \cup Running
             /\ \/ call'[d] = call[d] /\ d # c
                \/ /\ call[d].pc \in {"parse", "await"}
                   /\ call'[d].pc \in {"lint", "finish"}
                   /\ call'[d].key = call[d].key
                   /\ call'[d].lint = call[d].lint
                   /\ call'[d].overlaps = call[d].overlaps
  <2>1. CASE d = c \/ At(d, "await")
    <3>1. call[d].pc \in {"parse", "await"}
      BY <1>1, <2>1 DEF At
    <3>2. call[d] \in Running
      BY <3>1, Carries
    <3>3. call'[d] = [call[d] EXCEPT !.pc = AfterAnalysis(d)] /\ AfterAnalysis(d) \in {"lint", "finish"}
      BY <1>2, <2>1 DEF AfterAnalysis
    <3> DEFINE point == AfterAnalysis(d)
    <3> HIDE DEF point
    <3>4. /\ [call[d] EXCEPT !.pc = point] \in Running
          /\ [call[d] EXCEPT !.pc = point].pc = point
          /\ [call[d] EXCEPT !.pc = point].key = call[d].key
          /\ [call[d] EXCEPT !.pc = point].lint = call[d].lint
          /\ [call[d] EXCEPT !.pc = point].overlaps = call[d].overlaps
      BY <3>2, <3>3 DEF Running, point
    <3>5. QED
      BY <3>1, <3>3, <3>4 DEF point
  <2>2. CASE ~(d = c \/ At(d, "await"))
    <3>1. call'[d] = call[d]
      BY <1>2, <2>2
    <3>2. QED
      BY <1>1, <2>2, <3>1
  <2>3. QED
    BY <2>1, <2>2
<1>4. call' \in [Calls -> {Idle} \cup Running]
  BY <1>2, <1>3
<1>5. QED
  BY <1>3, <1>4

LEMMA KeepParsed ==
    ASSUME Types, PermitInv, NEW c \in Calls, Parsed(c)
    PROVE  PermitInv'
<1>1. /\ call[c].pc = "parse" /\ linters' = linters /\ permits' = permits
  BY DEF Parsed, At, dispatchVars
<1>2. \A d \in Calls : \/ call'[d] = call[d] /\ d # c
                       \/ /\ call[d].pc \in {"parse", "await"}
                          /\ call'[d].pc \in {"lint", "finish"}
                          /\ call'[d].key = call[d].key
  BY ParsedFacts
<1>3. Others(c)
  BY <1>2 DEF Others, Alike
<1>4. call'[c].key = call[c].key /\ call'[c].pc \in {"lint", "finish"}
  BY <1>2
<1>5. QED
  BY <1>1, <1>3, <1>4, Unmoved

LEMMA LintCachedFacts ==
    ASSUME Types, NEW c \in Calls, LintCached(c)
    PROVE  /\ call' \in [Calls -> {Idle} \cup Running]
           /\ call[c].pc = "lint" /\ call'[c].pc = "finish" /\ call'[c].key = call[c].key
           /\ \E v \in lintCache : /\ call'[c].lint = v
                                   /\ call'[c].overlaps = (call[c].overlaps \/ <<"lint_cache">> \in slipped)
           /\ \A d \in Calls \ {c} : call'[d] = call[d]
           /\ Others(c)
<1>1. PICK v \in lintCache :
         call' = [call EXCEPT ![c].pc = "finish", ![c].lint = v,
                              ![c].overlaps = @ \/ <<"lint_cache">> \in slipped]
  BY DEF LintCached
<1>2. call[c].pc = "lint" /\ call[c] \in Running
  BY Carries DEF LintCached, At
<1>3. v \in Versions \cup {NoLint} /\ call \in [Calls -> {Idle} \cup Running]
  BY DEF Types, Stored
<1> DEFINE o == call[c].overlaps \/ <<"lint_cache">> \in slipped
           x == [call[c] EXCEPT !.pc = "finish", !.lint = v, !.overlaps = o]
<1>4. call' = [call EXCEPT ![c] = x]
  BY <1>1
<1>5. o \in BOOLEAN
  OBVIOUS
<1> HIDE DEF o
<1>6. x \in Running /\ x.pc = "finish" /\ x.key = call[c].key /\ x.lint = v /\ x.overlaps = o
  BY <1>2, <1>3, <1>5 DEF Running
<1> HIDE DEF x
<1>7. /\ call'[c] = x /\ \A d \in Calls \ {c} : call'[d] = call[d]
      /\ call' \in [Calls -> {Idle} \cup Running]
  BY <1>3, <1>4, <1>6
<1>8. QED
  BY <1>2, <1>6, <1>7, Alone DEF o

LEMMA KeepLintCached ==
    ASSUME Types, PermitInv, NEW c \in Calls, LintCached(c)
    PROVE  PermitInv'
<1>1. linters' = linters /\ permits' = permits
  BY DEF LintCached, dispatchVars, lintVars
<1>2. QED
  BY <1>1, LintCachedFacts, Unmoved

LEMMA LintFileFacts ==
    ASSUME Types, NEW c \in Calls, LintFile(c)
    PROVE  /\ call' \in [Calls -> {Idle} \cup Running]
           /\ call[c].pc = "lint" /\ call'[c].key = call[c].key
           /\ call'[c].pc = IF Available(linters) THEN "linter" ELSE "lintqueue"
           /\ call'[c].lint = content /\ call'[c].overlaps = call[c].overlaps
           /\ \A d \in Calls \ {c} : call'[d] = call[d]
           /\ Others(c)
<1> DEFINE point == IF Available(linters) THEN "linter" ELSE "lintqueue"
           x == [call[c] EXCEPT !.pc = point, !.lint = content]
<1>1. call' = [call EXCEPT ![c] = x]
  BY DEF LintFile
<1>2. call[c].pc = "lint" /\ call[c] \in Running
  BY Carries DEF LintFile, At
<1>3. content \in Versions /\ call \in [Calls -> {Idle} \cup Running]
  BY DEF Types
<1>4. point \in {"linter", "lintqueue"}
  OBVIOUS
<1>5. x \in Running /\ x.pc = point /\ x.key = call[c].key /\ x.lint = content
      /\ x.overlaps = call[c].overlaps
  <2> HIDE DEF point
  <2>1. QED
    BY <1>2, <1>3, <1>4 DEF Running
<1> HIDE DEF x
<1>6. /\ call'[c] = x /\ \A d \in Calls \ {c} : call'[d] = call[d]
      /\ call' \in [Calls -> {Idle} \cup Running]
  BY <1>1, <1>3, <1>5
<1>7. QED
  BY <1>2, <1>5, <1>6, Alone

LEMMA KeepLintFile ==
    ASSUME Types, PermitInv, NEW c \in Calls, LintFile(c)
    PROVE  PermitInv'
<1>1. /\ call[c].pc = "lint" /\ permits' = permits /\ call'[c].key = call[c].key
      /\ call'[c].pc = IF Available(linters) THEN "linter" ELSE "lintqueue"
      /\ linters' = (IF Available(linters) THEN Take(linters) ELSE Enqueue(linters, c))
      /\ Others(c)
  BY LintFileFacts DEF LintFile, dispatchVars
<1>2. /\ c \in Holders' <=> c \in Holders
      /\ c \notin Queued /\ c \notin Queued' /\ c \notin LintQueued /\ c \notin LintHolders
      /\ Available(linters) => c \notin LintQueued' /\ c \in LintHolders'
      /\ ~Available(linters) => c \in LintQueued' /\ c \notin LintHolders'
  BY <1>1 DEF Active, Queued, Holders, LintQueued, LintHolders
<1>3. /\ Queued' = Queued /\ Holders' = Holders
      /\ Available(linters) => LintQueued' = LintQueued /\ LintHolders' = LintHolders \cup {c}
      /\ ~Available(linters) => LintQueued' = LintQueued \cup {c} /\ LintHolders' = LintHolders
  BY <1>1, <1>2, Sets
<1>4. Sound(linters', LintPermits, Calls, LintQueued', LintHolders')
  <2>1. Sound(linters, LintPermits, Calls, LintQueued, LintHolders)
    BY DEF PermitInv
  <2>2. CASE Available(linters)
    BY <1>1, <1>2, <1>3, <2>1, <2>2, TakeSound, DispatchAssumption
  <2>3. CASE ~Available(linters)
    BY <1>1, <1>2, <1>3, <2>1, <2>3, EnqueueSound, DispatchAssumption
  <2>4. QED
    BY <2>2, <2>3
<1>5. QED
  BY <1>1, <1>2, <1>3, <1>4, QueueKept DEF PermitInv

LEMMA KeepLintGranted ==
    ASSUME Types, PermitInv, NEW c \in Calls, LintGranted(c)
    PROVE  PermitInv'
<1>1. /\ call[c].pc = "lintqueue" /\ permits' = permits /\ linters' = Collect(linters, c)
      /\ c \in linters.granted /\ Go(c, "linter")
  BY DEF LintGranted, At, dispatchVars
<1>2. call'[c].pc = "linter" /\ call'[c].key = call[c].key /\ Others(c)
  BY <1>1, GoFacts DEF Points
<1>3. /\ c \in Holders' <=> c \in Holders
      /\ c \notin Queued /\ c \notin Queued' /\ c \notin LintQueued'
      /\ c \notin LintHolders /\ c \in LintHolders'
  BY <1>1, <1>2 DEF Active, Queued, Holders, LintQueued, LintHolders
<1>4. /\ Queued' = Queued /\ Holders' = Holders
      /\ LintQueued' = LintQueued \ {c} /\ LintHolders' = LintHolders \cup {c}
  BY <1>2, <1>3, Sets
<1>5. Sound(linters', LintPermits, Calls, LintQueued', LintHolders')
  BY <1>1, <1>3, <1>4, CollectSound, DispatchAssumption DEF PermitInv
<1>6. QED
  BY <1>1, <1>2, <1>3, <1>4, <1>5, QueueKept DEF PermitInv

LEMMA KeepLinterEnds ==
    ASSUME Types, PermitInv, NEW c \in Calls, LinterEnds(c)
    PROVE  PermitInv'
<1>1. /\ call[c].pc = "linter" /\ permits' = permits /\ linters' = Release(linters)
      /\ Go(c, "finish")
  BY DEF LinterEnds, At, dispatchVars
<1>2. call'[c].pc = "finish" /\ call'[c].key = call[c].key /\ Others(c)
  BY <1>1, GoFacts DEF Points
<1>3. /\ c \in Holders' <=> c \in Holders
      /\ c \notin Queued /\ c \notin Queued' /\ c \notin LintQueued /\ c \notin LintQueued'
      /\ c \in LintHolders /\ c \notin LintHolders'
  BY <1>1, <1>2 DEF Active, Queued, Holders, LintQueued, LintHolders
<1>4. /\ Queued' = Queued /\ Holders' = Holders
      /\ LintQueued' = LintQueued /\ LintHolders' = LintHolders \ {c}
  BY <1>2, <1>3, Sets
<1>5. Sound(linters', LintPermits, Calls, LintQueued', LintHolders')
  BY <1>1, <1>3, <1>4, ReleaseSound, DispatchAssumption DEF PermitInv
<1>6. QED
  BY <1>1, <1>2, <1>3, <1>4, <1>5, QueueKept DEF PermitInv

LEMMA KeepReportLint ==
    ASSUME Types, PermitInv, NEW c \in Calls, ReportLint(c)
    PROVE  PermitInv'
BY DoneFacts, Ended DEF ReportLint, Done, At, lintVars

LEMMA KeepStoreResult ==
    ASSUME Types, PermitInv, NEW c \in Calls, StoreResult(c)
    PROVE  PermitInv'
BY DoneFacts, Ended DEF StoreResult, Done, At, lintVars

LEMMA KeepFail ==
    ASSUME Types, PermitInv, NEW c \in Calls, Fail(c)
    PROVE  PermitInv'
BY DoneFacts, Ended DEF Fail, Done, At, lintVars

LEMMA KeepGranted ==
    ASSUME Types, PermitInv, NEW c \in Calls, Granted(c)
    PROVE  PermitInv'
<1>1. /\ call[c].pc = "queued" /\ linters' = linters /\ permits' = Collect(permits, c)
      /\ c \in permits.granted /\ Go(c, "lookup")
  BY DEF Granted, At, lintVars
<1>2. call'[c].pc = "lookup" /\ call'[c].key = call[c].key /\ Others(c)
  BY <1>1, GoFacts DEF Points
<1>3. c \in Queued
  BY <1>1 DEF Queued, Active
<1>4. is_expensive_tool(call'[c].key[1])
  BY <1>2, <1>3 DEF PermitInv, QueueIsDear
<1>5. /\ c \notin Holders /\ c \in Holders' /\ c \notin Queued'
      /\ c \notin LintQueued /\ c \notin LintQueued'
      /\ c \notin LintHolders /\ c \notin LintHolders'
  BY <1>1, <1>2, <1>4 DEF Active, Queued, Holders, LintQueued, LintHolders
<1>6. /\ Queued' = Queued \ {c} /\ Holders' = Holders \cup {c}
      /\ LintQueued' = LintQueued /\ LintHolders' = LintHolders
  BY <1>2, <1>5, Sets
<1>7. Sound(permits', ToolPermits, Calls, Queued', Holders')
  BY <1>1, <1>5, <1>6, CollectSound, DispatchAssumption DEF PermitInv
<1>8. QED
  BY <1>1, <1>2, <1>5, <1>6, <1>7, QueueKept DEF PermitInv

LEMMA KeepBusy ==
    ASSUME Types, PermitInv, NEW c \in Calls, Busy(c)
    PROVE  PermitInv'
<1>1. /\ call[c].pc = "queued" /\ linters' = linters /\ permits' = Abandon(permits, c)
      /\ call' = [call EXCEPT ![c] = Idle]
  BY DEF Busy, At, lintVars
<1>2. call'[c].pc = "idle" /\ Others(c)
  BY <1>1, DoneFacts
<1>3. /\ c \notin Queued' /\ c \notin Holders /\ c \notin Holders'
      /\ c \notin LintQueued /\ c \notin LintQueued'
      /\ c \notin LintHolders /\ c \notin LintHolders'
  BY <1>1, <1>2 DEF Active, Queued, Holders, LintQueued, LintHolders
<1>4. /\ Queued' = Queued \ {c} /\ Holders' = Holders
      /\ LintQueued' = LintQueued /\ LintHolders' = LintHolders
  BY <1>2, <1>3, Sets
<1>5. Sound(permits', ToolPermits, Calls, Queued', Holders')
  BY <1>1, <1>4, AbandonSound, DispatchAssumption DEF PermitInv
<1>6. QED
  BY <1>1, <1>2, <1>3, <1>4, <1>5, QueueKept DEF PermitInv

LEMMA BeginFacts ==
    ASSUME Types, NEW c \in Calls, NEW key \in Tools \X ArgSets, Begin(c, key)
    PROVE  /\ call' \in [Calls -> {Idle} \cup Running]
           /\ call[c].pc = "idle" /\ call'[c].key = key
           /\ call'[c].pc = IF is_expensive_tool(key[1]) /\ ~Available(permits)
                            THEN "queued" ELSE "lookup"
           /\ call'[c].lint = NoLint /\ call'[c].overlaps = (Linting # {})
           /\ \A d \in Calls \ {c} :
                 \/ call'[d] = call[d] /\ (key[1] # "lint_file" \/ d \notin Active)
                 \/ /\ call[d].pc # "idle" /\ call'[d].pc = call[d].pc
                    /\ call'[d].key = call[d].key /\ call'[d].lint = call[d].lint
                    /\ call'[d].overlaps = TRUE
           /\ Others(c)
<1> DEFINE point == IF is_expensive_tool(key[1]) /\ ~Available(permits) THEN "queued" ELSE "lookup"
           x == [pc |-> point, key |-> key, lint |-> NoLint, overlaps |-> Linting # {}]
<1>1. call' = [Marked(key) EXCEPT ![c] = x] /\ call[c].pc = "idle"
  BY DEF Begin, At
<1>2. x \in Running
  BY DEF Running
<1>3. x.pc = point /\ x.key = key /\ x.lint = NoLint /\ x.overlaps = (Linting # {})
  OBVIOUS
<1> HIDE DEF x, point
<1>4. call \in [Calls -> {Idle} \cup Running]
  BY DEF Types
<1>5. ASSUME NEW d \in Calls
      PROVE  /\ Marked(key)[d] \in {Idle} \cup Running
             /\ \/ Marked(key)[d] = call[d] /\ (key[1] # "lint_file" \/ d \notin Active)
                \/ /\ call[d].pc # "idle" /\ Marked(key)[d].pc = call[d].pc
                   /\ Marked(key)[d].key = call[d].key /\ Marked(key)[d].lint = call[d].lint
                   /\ Marked(key)[d].overlaps = TRUE
  <2>1. CASE d \in Active /\ key[1] = "lint_file"
    <3>1. call[d] \in Running
      BY <2>1, Carries DEF Active
    <3>2. Marked(key)[d] = [call[d] EXCEPT !.overlaps = TRUE]
      BY <2>1 DEF Marked
    <3>3. QED
      BY <2>1, <3>1, <3>2 DEF Running, Active
  <2>2. CASE ~(d \in Active /\ key[1] = "lint_file")
    <3>1. Marked(key)[d] = call[d]
      BY <2>2 DEF Marked
    <3>2. QED
      BY <1>4, <2>2, <3>1
  <2>3. QED
    BY <2>1, <2>2
<1>6. DOMAIN Marked(key) = Calls /\ Marked(key) = [d \in Calls |-> Marked(key)[d]]
  BY DEF Marked
<1>7. /\ call'[c] = x /\ \A d \in Calls \ {c} : call'[d] = Marked(key)[d]
      /\ call' \in [Calls -> {Idle} \cup Running]
  <2>1. Marked(key) \in [Calls -> {Idle} \cup Running]
    BY <1>5, <1>6
  <2>2. QED
    BY <1>1, <1>2, <2>1
<1>8. \A d \in Calls \ {c} :
         \/ call'[d] = call[d] /\ (key[1] # "lint_file" \/ d \notin Active)
         \/ /\ call[d].pc # "idle" /\ call'[d].pc = call[d].pc
            /\ call'[d].key = call[d].key /\ call'[d].lint = call[d].lint
            /\ call'[d].overlaps = TRUE
  BY <1>5, <1>7
<1>9. Others(c)
  BY <1>8 DEF Others, Alike
<1>10. QED
  BY <1>1, <1>3, <1>7, <1>8, <1>9 DEF point

LEMMA KeepBegin ==
    ASSUME Types, PermitInv, NEW c \in Calls, NEW key \in Tools \X ArgSets, Begin(c, key)
    PROVE  PermitInv'
<1> DEFINE dear == is_expensive_tool(key[1])
           waits == dear /\ ~Available(permits)
<1>1. /\ call[c].pc = "idle" /\ linters' = linters /\ call'[c].key = key /\ Others(c)
      /\ call'[c].pc = IF waits THEN "queued" ELSE "lookup"
      /\ permits' = IF waits THEN Enqueue(permits, c) ELSE IF dear THEN Take(permits) ELSE permits
  BY BeginFacts DEF Begin, lintVars
<1>2. /\ c \notin Queued /\ c \notin Holders
      /\ c \notin LintQueued /\ c \notin LintQueued' /\ c \notin LintHolders /\ c \notin LintHolders'
  BY <1>1 DEF Active, Queued, Holders, LintQueued, LintHolders
<1>3. LintQueued' = LintQueued /\ LintHolders' = LintHolders
  BY <1>1, <1>2, Sets
<1>4. Sound(permits, ToolPermits, Calls, Queued, Holders)
  BY DEF PermitInv
<1>5. CASE waits
  <2>1. c \in Queued' /\ c \notin Holders'
    BY <1>1, <1>5 DEF Active, Queued, Holders
  <2>2. Queued' = Queued \cup {c} /\ Holders' = Holders
    BY <1>1, <1>2, <2>1, Sets
  <2>3. Sound(permits', ToolPermits, Calls, Queued', Holders')
    BY <1>1, <1>2, <1>4, <1>5, <2>2, EnqueueSound, DispatchAssumption
  <2>4. QED
    BY <1>1, <1>3, <1>5, <2>3, QueueKept DEF PermitInv
<1>6. CASE ~waits /\ dear
  <2>1. c \notin Queued' /\ c \in Holders'
    BY <1>1, <1>6 DEF Active, Queued, Holders
  <2>2. Queued' = Queued /\ Holders' = Holders \cup {c}
    BY <1>1, <1>2, <2>1, Sets
  <2>3. Sound(permits', ToolPermits, Calls, Queued', Holders')
    BY <1>1, <1>2, <1>4, <1>6, <2>2, TakeSound, DispatchAssumption
  <2>4. QED
    BY <1>1, <1>3, <2>1, <2>3, QueueKept DEF PermitInv
<1>7. CASE ~dear
  <2>1. c \notin Queued' /\ c \notin Holders'
    BY <1>1, <1>7 DEF Active, Queued, Holders
  <2>2. Queued' = Queued /\ Holders' = Holders
    BY <1>1, <1>2, <2>1, Sets
  <2>3. QED
    BY <1>1, <1>3, <1>4, <1>7, <2>1, <2>2, QueueKept DEF PermitInv
<1>8. QED
  BY <1>5, <1>6, <1>7

LEMMA TimeoutFacts ==
    ASSUME Types, NEW c \in Calls, Timeout(c)
    PROVE  /\ call' \in [Calls -> {Idle} \cup Running]
           /\ parser' \in SUBSET Calls
           /\ call[c].pc # "idle" /\ call'[c].pc = "idle"
           /\ \A d \in Calls \ {c} :
                 \/ call'[d] = call[d]
                 \/ /\ call[d].pc = "await" /\ call'[d].pc = "parse"
                    /\ call'[d].key = call[d].key /\ call'[d].lint = call[d].lint
                    /\ call'[d].overlaps = call[d].overlaps
           /\ Others(c)
<1>1. call[c].pc # "idle"
  BY DEF Timeout, Active
<1>2. call \in [Calls -> {Idle} \cup Running] /\ parser \in SUBSET Calls /\ Idle.pc = "idle"
  BY DEF Types, Idle
<1>3. CASE At(c, "parse") /\ DropParse(c)
  <2> DEFINE heirs == {d \in Calls : At(d, "await")}
  <2>1. /\ parser' \in {{d} : d \in heirs} \/ (heirs = {} /\ parser' = {})
        /\ call' = [d \in Calls |-> IF d = c THEN Idle
                                   ELSE IF d \in parser' THEN [call[d] EXCEPT !.pc = "parse"]
                                   ELSE call[d]]
    BY <1>3 DEF DropParse
  <2>2. parser' \subseteq heirs
    BY <2>1
  <2>3. ASSUME NEW d \in Calls \ {c}
        PROVE  /\ call'[d] \in {Idle} \cup Running
               /\ \/ call'[d] = call[d]
                  \/ /\ call[d].pc = "await" /\ call'[d].pc = "parse"
                     /\ call'[d].key = call[d].key /\ call'[d].lint = call[d].lint
                     /\ call'[d].overlaps = call[d].overlaps
    <3>1. CASE d \in parser'
      <4>1. call[d].pc = "await"
        BY <2>2, <3>1 DEF At
      <4>2. call[d] \in Running
        BY <4>1, Carries
      <4>3. call'[d] = [call[d] EXCEPT !.pc = "parse"]
        BY <2>1, <3>1
      <4>4. QED
        BY <4>1, <4>2, <4>3 DEF Running
    <3>2. CASE d \notin parser'
      BY <1>2, <2>1, <3>2
    <3>3. QED
      BY <3>1, <3>2
  <2>4. call'[c] = Idle
    BY <2>1
  <2>5. call' \in [Calls -> {Idle} \cup Running]
    BY <2>1, <2>3, <2>4
  <2>6. Others(c)
    BY <2>3 DEF Others, Alike
  <2>7. QED
    BY <1>1, <1>2, <2>2, <2>3, <2>4, <2>5, <2>6
<1>4. CASE Done(c) /\ parser' = parser
  BY <1>1, <1>2, <1>4, DoneFacts DEF Done
<1>5. QED
  BY <1>3, <1>4 DEF Timeout

LEMMA KeepTimeout ==
    ASSUME Types, PermitInv, NEW c \in Calls, Timeout(c)
    PROVE  PermitInv'
<1>1. /\ call'[c].pc = "idle" /\ Others(c)
      /\ permits' = IF c \in Holders THEN Release(permits) ELSE Abandon(permits, c)
      /\ linters' = IF c \in LintHolders THEN Release(linters) ELSE Abandon(linters, c)
  BY TimeoutFacts DEF Timeout
<1>2. /\ c \notin Queued' /\ c \notin Holders' /\ c \notin LintQueued' /\ c \notin LintHolders'
      /\ ~(c \in Queued /\ c \in Holders) /\ ~(c \in LintQueued /\ c \in LintHolders)
  BY <1>1 DEF Active, Queued, Holders, LintQueued, LintHolders
<1>3. /\ Queued' = Queued \ {c} /\ Holders' = Holders \ {c}
      /\ LintQueued' = LintQueued \ {c} /\ LintHolders' = LintHolders \ {c}
  BY <1>1, <1>2, Sets
<1>4. /\ c \in Holders => Queued' = Queued
      /\ c \notin Holders => Holders' = Holders
      /\ c \in LintHolders => LintQueued' = LintQueued
      /\ c \notin LintHolders => LintHolders' = LintHolders
  BY <1>2, <1>3
<1>5. Sound(permits', ToolPermits, Calls, Queued', Holders')
  <2>1. Sound(permits, ToolPermits, Calls, Queued, Holders)
    BY DEF PermitInv
  <2>2. CASE c \in Holders
    BY <1>1, <1>3, <1>4, <2>1, <2>2, ReleaseSound, DispatchAssumption
  <2>3. CASE c \notin Holders
    BY <1>1, <1>3, <1>4, <2>1, <2>3, AbandonSound, DispatchAssumption
  <2>4. QED
    BY <2>2, <2>3
<1>6. Sound(linters', LintPermits, Calls, LintQueued', LintHolders')
  <2>1. Sound(linters, LintPermits, Calls, LintQueued, LintHolders)
    BY DEF PermitInv
  <2>2. CASE c \in LintHolders
    BY <1>1, <1>3, <1>4, <2>1, <2>2, ReleaseSound, DispatchAssumption
  <2>3. CASE c \notin LintHolders
    BY <1>1, <1>3, <1>4, <2>1, <2>3, AbandonSound, DispatchAssumption
  <2>4. QED
    BY <2>2, <2>3
<1>7. QED
  BY <1>1, <1>2, <1>5, <1>6, QueueKept DEF PermitInv
-------------------------------------------------------------------------------
(* Types *)

LEMMA Pieces ==
    ASSUME Types, NEW c \in Calls, call[c].pc # "idle"
    PROVE  /\ call[c].lint \in Versions \cup {NoLint} /\ call[c].key \in Tools \X ArgSets
           /\ call[c].overlaps \in BOOLEAN
           /\ {call[c].lint} \in Stored /\ {} \in Stored
BY Carries DEF Running, Stored

LEMMA SlipTyped ==
    ASSUME Types, NEW c, NEW place \in Keys \cup {<<"lint_cache">>}, Slip(c, place)
    PROVE  slipped' \in SUBSET (Keys \cup {<<"lint_cache">>})
BY DEF Types, Slip

LEMMA CallTyped ==
    ASSUME Types, NEW c \in Calls, Step(c) \/ LinterEnds(c) \/ Busy(c)
    PROVE  call' \in [Calls -> {Idle} \cup Running]
<1>1. CASE Granted(c)
  BY <1>1, GoFacts DEF Granted, At, Points
<1>2. CASE Lookup(c)
  BY <1>2, GoFacts, DoneFacts DEF Lookup, At, Points
<1>3. CASE Analyze(c)
  <2>1. PICK point \in {"lint", "finish", "parse", "await"} : Go(c, point)
    BY <1>3 DEF Analyze, AfterAnalysis
  <2>2. call[c].pc # "idle" /\ point \in Points
    BY <1>3 DEF Analyze, At, Points
  <2>3. QED
    BY <2>1, <2>2, GoFacts
<1>4. CASE Parsed(c)
  BY <1>4, ParsedFacts
<1>5. CASE LintCached(c)
  BY <1>5, LintCachedFacts
<1>6. CASE LintFile(c)
  BY <1>6, LintFileFacts
<1>7. CASE LintGranted(c)
  BY <1>7, GoFacts DEF LintGranted, At, Points
<1>8. CASE ReportLint(c) \/ StoreResult(c) \/ Fail(c)
  BY <1>8, DoneFacts DEF ReportLint, StoreResult, Fail, Done
<1>9. CASE LinterEnds(c)
  BY <1>9, GoFacts DEF LinterEnds, At, Points
<1>10. CASE Busy(c)
  BY <1>10, DoneFacts DEF Busy
<1>11. QED
  BY <1>1, <1>2, <1>3, <1>4, <1>5, <1>6, <1>7, <1>8, <1>9, <1>10 DEF Step

LEMMA WithoutTyped ==
    ASSUME Types, NEW strings
    PROVE  Without(strings) \in [Keys -> Stored]
BY DEF Types, Without, Stored

LEMMA TypesStep ==
    ASSUME Types, NEW c \in Calls, Step(c)
    PROVE  Types'
<1>1. call' \in [Calls -> {Idle} \cup Running]
  BY CallTyped
<1>2. CASE Granted(c) \/ Lookup(c) \/ LintCached(c) \/ LintFile(c) \/ LintGranted(c)
  BY <1>1, <1>2 DEF Types, Granted, Lookup, LintCached, LintFile, LintGranted,
                    dispatchVars, lintVars, worldVars, historyVars
<1>3. CASE Analyze(c) \/ Parsed(c)
  BY <1>1, <1>3 DEF Types, Analyze, Parsed, dispatchVars, worldVars, historyVars
<1>4. CASE ReportLint(c)
  <2>1. toolCache' \in [Keys -> Stored]
    BY <1>4, WithoutTyped DEF ReportLint
  <2>2. reported' \in Versions
    <3>1. call[c].lint \in Versions \cup {NoLint}
      BY <1>4, Pieces DEF ReportLint, At
    <3>2. reported' = IF call[c].lint > reported THEN call[c].lint ELSE reported
      BY <1>4 DEF ReportLint
    <3>3. reported \in Versions
      BY DEF Types
    <3>4. QED
      BY <3>1, <3>2, <3>3, DispatchAssumption DEF Versions, NoLint
  <2>3. QED
    BY <1>1, <1>4, <2>1, <2>2 DEF Types, ReportLint, lintVars, worldVars
<1>5. CASE StoreResult(c)
  <2>1. call[c].key \in Keys /\ {call[c].lint} \in Stored
    BY <1>5, Pieces DEF StoreResult, At
  <2>2. toolCache' \in [Keys -> Stored]
    BY <1>5, <2>1 DEF StoreResult, Types
  <2>3. slipped' \in SUBSET (Keys \cup {<<"lint_cache">>})
    BY <1>5, <2>1, SlipTyped DEF StoreResult, Types
  <2>4. QED
    BY <1>1, <1>5, <2>2, <2>3 DEF Types, StoreResult, lintVars, worldVars
<1>6. CASE Fail(c)
  <2>1. toolCache' \in [Keys -> Stored]
    BY <1>6, WithoutTyped DEF Fail, Types
  <2>2. QED
    BY <1>1, <1>6, <2>1 DEF Types, Fail, lintVars, worldVars, historyVars
<1>7. QED
  BY <1>2, <1>3, <1>4, <1>5, <1>6 DEF Step

LEMMA TypesNext ==
    ASSUME Types, [Next]_vars
    PROVE  Types'
<1>1. ASSUME NEW c \in Calls, NEW key \in Tools \X ArgSets, Begin(c, key)
      PROVE  Types'
  BY <1>1, BeginFacts DEF Types, Begin, lintVars, worldVars, historyVars
<1>2. ASSUME NEW c \in Calls, Step(c) PROVE Types'
  BY <1>2, TypesStep
<1>3. ASSUME NEW c \in Calls, LinterEnds(c) PROVE Types'
  <2>1. call' \in [Calls -> {Idle} \cup Running]
    BY <1>3, CallTyped
  <2>2. slipped' \in SUBSET (Keys \cup {<<"lint_cache">>})
    BY <1>3, SlipTyped DEF LinterEnds
  <2>3. lintCache' \in Stored
    BY <1>3, Pieces DEF LinterEnds, At
  <2>4. QED
    BY <1>3, <2>1, <2>2, <2>3 DEF Types, LinterEnds, dispatchVars, worldVars
<1>4. ASSUME NEW c \in Calls, Busy(c) PROVE Types'
  BY <1>4, CallTyped DEF Types, Busy, lintVars, worldVars, historyVars
<1>5. ASSUME NEW c \in Calls, Timeout(c) PROVE Types'
  <2>1. timeouts' \in 0..MaxTimeouts
    BY <1>5, DispatchAssumption DEF Types, Timeout
  <2>2. QED
    BY <1>5, <2>1, TimeoutFacts DEF Types, Timeout, historyVars
<1>6. CASE Edit
  BY <1>6, DispatchAssumption DEF Types, Edit, Versions, dispatchVars, lintVars, historyVars
<1>7. CASE FlushTools
  <2>1. toolCache' \in [Keys -> Stored]
    BY <1>7 DEF FlushTools, Stored
  <2>2. QED
    BY <1>7, <2>1 DEF Types, FlushTools, lintVars, worldVars
<1>8. CASE EvictAnalysis
  BY <1>8 DEF Types, EvictAnalysis, dispatchVars, worldVars, historyVars
<1>9. CASE UNCHANGED vars
  BY <1>9 DEF Types, vars, dispatchVars, lintVars, worldVars, historyVars
<1>10. QED
  BY <1>1, <1>2, <1>3, <1>4, <1>5, <1>6, <1>7, <1>8, <1>9 DEF Next

LEMMA PermitsNext ==
    ASSUME Types, PermitInv, [Next]_vars
    PROVE  PermitInv'
<1>1. ASSUME NEW c \in Calls, NEW key \in Tools \X ArgSets, Begin(c, key) PROVE PermitInv'
  BY <1>1, KeepBegin
<1>2. ASSUME NEW c \in Calls, Step(c) PROVE PermitInv'
  BY <1>2, KeepGranted, KeepLookup, KeepAnalyze, KeepParsed, KeepLintCached, KeepLintFile,
     KeepLintGranted, KeepReportLint, KeepStoreResult, KeepFail DEF Step
<1>3. ASSUME NEW c \in Calls, LinterEnds(c) \/ Busy(c) \/ Timeout(c) PROVE PermitInv'
  BY <1>3, KeepLinterEnds, KeepBusy, KeepTimeout
<1>4. CASE Edit \/ FlushTools \/ EvictAnalysis \/ UNCHANGED vars
  <2>1. call' = call /\ permits' = permits /\ linters' = linters
    BY <1>4 DEF Edit, FlushTools, EvictAnalysis, vars, dispatchVars, lintVars
  <2>2. /\ Queued' = Queued /\ Holders' = Holders
        /\ LintQueued' = LintQueued /\ LintHolders' = LintHolders
    BY <2>1 DEF Active, Queued, Holders, LintQueued, LintHolders
  <2>3. QED
    BY <2>1, <2>2 DEF PermitInv, QueueIsDear
<1>5. QED
  BY <1>1, <1>2, <1>3, <1>4 DEF Next

LEMMA TypesInit == Init => Types
<1> SUFFICES ASSUME Init PROVE Types
  OBVIOUS
<1>1. 0 \in Versions /\ 0 \in 0..MaxTimeouts /\ {} \in Stored
  BY DispatchAssumption DEF Versions, Stored
<1>2. QED
  BY <1>1 DEF Init, Types

LEMMA PermitsInit == Init => PermitInv
<1> SUFFICES ASSUME Init PROVE PermitInv
  OBVIOUS
<1>1. Queued = {} /\ Holders = {} /\ LintQueued = {} /\ LintHolders = {}
  BY DEF Init, Idle, Active, Queued, Holders, LintQueued, LintHolders
<1>2. QED
  BY <1>1, FreshSound, DispatchAssumption DEF Init, PermitInv, QueueIsDear

LEMMA PermitsAlways == Spec => [](Types /\ PermitInv)
<1>1. Init => Types /\ PermitInv
  BY TypesInit, PermitsInit
<1>2. Types /\ PermitInv /\ [Next]_vars => (Types /\ PermitInv)'
  BY TypesNext, PermitsNext
<1>3. QED
  BY <1>1, <1>2, PTL DEF Spec

\* The variables have the types the model gives them.
THEOREM TypeCorrect == Spec => []TypeOK
<1>1. Types /\ PermitInv => TypeOK
  <2> SUFFICES ASSUME Types, PermitInv PROVE TypeOK
    OBVIOUS
  <2>1. permits \in Semaphores(ToolPermits, Calls) /\ linters \in Semaphores(LintPermits, Calls)
    BY SoundTyped, DispatchAssumption DEF PermitInv
  <2>2. QED
    BY <2>1 DEF Types, TypeOK
<1>2. QED
  BY <1>1, PermitsAlways, PTL

\* dispatch_tool and LintPool: every permit is free, on its way to a waiter or with a
\* running call, whichever way calls end and however many there are.
THEOREM NoPermitLost == Spec => []PermitsKept
<1>1. PermitInv => PermitsKept
  BY DEF PermitInv, Sound, PermitsKept
<1>2. QED
  BY <1>1, PermitsAlways, PTL

\* No call waits for a permit while one lies idle.
THEOREM NoneWaitsInVain == Spec => []NoIdlePermit
<1>1. PermitInv => NoIdlePermit
  BY DEF PermitInv, Sound, NoIdlePermit
<1>2. QED
  BY <1>1, PermitsAlways, PTL
-------------------------------------------------------------------------------
(* Diagnostics *)

Early == {"queued", "lookup", "analyze", "parse", "await", "lint"}

Late == {"lintqueue", "linter"}

\* Diagnostics appear when a call lints; they are never from the future, and those
\* of a call that ran beside no lint_file are as new as any lint_file has reported.
Carried == \A c \in Active : /\ call[c].lint <= content
                             /\ call[c].pc \in Early => call[c].lint = NoLint
                             /\ call[c].pc \in Late => call[c].lint # NoLint
                             /\ \/ call[c].overlaps \/ call[c].lint = NoLint
                                \/ call[c].lint >= reported

\* Two calls under way of which one is lint_file know of it.
Beside == \A c, d \in Active : c # d /\ call[d].key[1] = "lint_file" => call[c].overlaps

Excused(place) == place \in slipped

\* What lint_file is about to report is in the lint cache, unless a call beside it
\* has put older diagnostics there.
Reporting == \A d \in Active : call[d].pc = "finish" /\ call[d].key[1] = "lint_file" =>
                \A v \in lintCache : v >= call[d].lint \/ Excused(<<"lint_cache">>)

Linted == \A v \in lintCache : v <= content /\ (v >= reported \/ Excused(<<"lint_cache">>))

Followed == \A k \in Keys : \A v \in toolCache[k] \ {NoLint} :
               v >= reported \/ Excused(k) \/ k[2] \cap {"absolute", "relative"} = {}

LintInv == reported <= content /\ Carried /\ Beside /\ Reporting /\ Linted /\ Followed

LEMMA Numbers ==
    ASSUME Types
    PROVE  /\ content \in Int /\ reported \in Int /\ reported >= 0 /\ NoLint = -1
           /\ \A v \in lintCache : v \in Int
           /\ \A k \in Keys : \A v \in toolCache[k] : v \in Int
           /\ \A c \in Active : call[c].lint \in Int /\ call[c].lint >= -1
<1>1. \A v \in Versions \cup {NoLint} : v \in Int /\ v >= -1
  BY DispatchAssumption DEF Versions, NoLint
<1>2. content \in Int /\ reported \in Int /\ reported >= 0 /\ NoLint = -1
  BY DispatchAssumption DEF Types, Versions, NoLint
<1>3. \A x \in Stored : \A v \in x : v \in Int
  BY <1>1 DEF Stored
<1>4. \A c \in Active : call[c].lint \in Versions \cup {NoLint}
  BY Pieces DEF Active
<1>5. QED
  BY <1>1, <1>2, <1>3, <1>4 DEF Types

\* What a step without new diagnostics may do to a call: it goes on or it ends.
Calm(x, y) ==
    \/ y.pc = "idle"
    \/ /\ x.pc # "idle" /\ y.key = x.key /\ y.lint = x.lint /\ (x.overlaps => y.overlaps)
       /\ y.pc \in Early => x.pc \in Early
       /\ y.pc \in Late => x.pc \in Late
       /\ y.pc = "finish" => x.pc \in Early \cup {"finish"}

LEMMA CalmStep ==
    ASSUME Types, LintInv, Types', \A c \in Calls : Calm(call[c], call'[c]),
           lintCache' = lintCache, reported' = reported, content' >= content,
           Excused(<<"lint_cache">>) => Excused(<<"lint_cache">>)',
           \A k \in Keys : \/ toolCache'[k] = {}
                           \/ toolCache'[k] = toolCache[k] /\ (Excused(k) => Excused(k)')
    PROVE  LintInv'
<1>1. /\ content \in Int /\ reported \in Int /\ NoLint = -1 /\ content' \in Int
      /\ \A v \in lintCache : v \in Int
      /\ \A c \in Active : call[c].lint \in Int
  <2>1. content' \in Int
    BY DispatchAssumption DEF Types, Versions
  <2>2. QED
    BY <2>1, Numbers
<1>2. \A c \in Active' : c \in Active /\ Calm(call[c], call'[c]) /\ call'[c].pc # "idle"
  BY DEF Active, Calm
<1>3. Carried'
  <2> SUFFICES ASSUME NEW c \in Active'
               PROVE  /\ call'[c].lint <= content'
                      /\ call'[c].pc \in Early => call'[c].lint = NoLint
                      /\ call'[c].pc \in Late => call'[c].lint # NoLint
                      /\ \/ call'[c].overlaps \/ call'[c].lint = NoLint
                         \/ call'[c].lint >= reported'
    BY DEF Carried
  <2>1. c \in Active /\ call'[c].lint = call[c].lint /\ (call[c].overlaps => call'[c].overlaps)
    BY <1>2 DEF Calm
  <2>2. /\ call[c].lint <= content
        /\ call[c].pc \in Early => call[c].lint = NoLint
        /\ call[c].pc \in Late => call[c].lint # NoLint
        /\ call[c].overlaps \/ call[c].lint = NoLint \/ call[c].lint >= reported
    BY <2>1 DEF LintInv, Carried
  <2>3. /\ call'[c].pc \in Early => call[c].pc \in Early
        /\ call'[c].pc \in Late => call[c].pc \in Late
    BY <1>2 DEF Calm
  <2>4. call[c].lint <= content'
    BY <1>1, <2>1, <2>2
  <2>5. QED
    BY <2>1, <2>2, <2>3, <2>4
<1>4. Beside'
  BY <1>2 DEF LintInv, Beside, Calm
<1>5. Reporting'
  <2> SUFFICES ASSUME NEW d \in Active', call'[d].pc = "finish", call'[d].key[1] = "lint_file",
                      NEW v \in lintCache
               PROVE  v >= call'[d].lint \/ Excused(<<"lint_cache">>)'
    BY DEF Reporting
  <2>1. d \in Active /\ call'[d].lint = call[d].lint /\ call'[d].key = call[d].key
    BY <1>2 DEF Calm
  <2>2. call[d].pc \in Early \cup {"finish"}
    BY <1>2 DEF Calm
  <2>3. CASE call[d].pc = "finish"
    BY <2>1, <2>3 DEF LintInv, Reporting
  <2>4. CASE call[d].pc \in Early
    <3>1. call[d].lint = NoLint
      BY <2>1, <2>4 DEF LintInv, Carried
    <3>2. v \in Int /\ v >= -1
      BY DispatchAssumption DEF Types, Stored, Versions, NoLint
    <3>3. QED
      BY <1>1, <2>1, <3>1, <3>2
  <2>5. QED
    BY <2>2, <2>3, <2>4
<1>6. Linted'
  <2> SUFFICES ASSUME NEW v \in lintCache
               PROVE  v <= content' /\ (v >= reported \/ Excused(<<"lint_cache">>)')
    BY DEF Linted
  <2>1. v \in Int /\ v <= content /\ (v >= reported \/ Excused(<<"lint_cache">>))
    BY <1>1 DEF LintInv, Linted
  <2>2. QED
    BY <1>1, <2>1
<1>7. Followed'
  BY DEF LintInv, Followed
<1>8. reported' <= content'
  BY <1>1 DEF LintInv
<1>9. QED
  BY <1>3, <1>4, <1>5, <1>6, <1>7, <1>8 DEF LintInv

LEMMA LintBegin ==
    ASSUME Types, LintInv, NEW c \in Calls, NEW key \in Tools \X ArgSets, Begin(c, key)
    PROVE  LintInv'
<1>1. /\ lintCache' = lintCache /\ reported' = reported /\ content' = content
      /\ slipped' = slipped /\ toolCache' = toolCache
  BY DEF Begin, lintVars, worldVars, historyVars
<1>2. /\ call[c].pc = "idle" /\ call'[c].key = key /\ call'[c].pc \in {"queued", "lookup"}
      /\ call'[c].lint = NoLint /\ call'[c].overlaps = (Linting # {})
      /\ \A d \in Calls \ {c} :
            \/ call'[d] = call[d] /\ (key[1] # "lint_file" \/ d \notin Active)
            \/ /\ call[d].pc # "idle" /\ call'[d].pc = call[d].pc
               /\ call'[d].key = call[d].key /\ call'[d].lint = call[d].lint
               /\ call'[d].overlaps = TRUE
  BY BeginFacts
<1>3. /\ content \in Int /\ reported \in Int /\ reported >= 0 /\ NoLint = -1 /\ reported <= content
  BY Numbers DEF LintInv
<1>4. ASSUME NEW d \in Active', d # c
      PROVE  /\ d \in Active /\ call'[d].pc = call[d].pc /\ call'[d].key = call[d].key
             /\ call'[d].lint = call[d].lint /\ (call[d].overlaps => call'[d].overlaps)
             /\ key[1] = "lint_file" => call'[d].overlaps
  BY <1>2, <1>4 DEF Active
<1>5. Carried'
  <2> SUFFICES ASSUME NEW d \in Active'
               PROVE  /\ call'[d].lint <= content
                      /\ call'[d].pc \in Early => call'[d].lint = NoLint
                      /\ call'[d].pc \in Late => call'[d].lint # NoLint
                      /\ \/ call'[d].overlaps \/ call'[d].lint = NoLint
                         \/ call'[d].lint >= reported
    BY <1>1 DEF Carried
  <2>1. CASE d = c
    BY <1>2, <1>3, <2>1 DEF Early, Late
  <2>2. CASE d # c
    <3>1. /\ call[d].lint <= content
          /\ call[d].pc \in Early => call[d].lint = NoLint
          /\ call[d].pc \in Late => call[d].lint # NoLint
          /\ call[d].overlaps \/ call[d].lint = NoLint \/ call[d].lint >= reported
      BY <1>4, <2>2 DEF LintInv, Carried
    <3>2. QED
      BY <1>4, <2>2, <3>1
  <2>3. QED
    BY <2>1, <2>2
<1>6. Beside'
  <2> SUFFICES ASSUME NEW d \in Active', NEW e \in Active', d # e, call'[e].key[1] = "lint_file"
               PROVE  call'[d].overlaps
    BY DEF Beside
  <2>1. CASE e = c
    BY <1>2, <1>4, <2>1
  <2>2. CASE d = c
    <3>1. e \in Linting
      BY <1>4, <2>2 DEF Linting
    <3>2. QED
      BY <1>2, <2>2, <3>1
  <2>3. CASE e # c /\ d # c
    BY <1>4, <2>3 DEF LintInv, Beside
  <2>4. QED
    BY <2>1, <2>2, <2>3
<1>7. Reporting'
  BY <1>1, <1>2, <1>4 DEF LintInv, Reporting, Excused
<1>8. Linted' /\ Followed'
  BY <1>1 DEF LintInv, Linted, Followed, Excused
<1>9. QED
  BY <1>1, <1>3, <1>5, <1>6, <1>7, <1>8 DEF LintInv

LEMMA LintLintCached ==
    ASSUME Types, LintInv, NEW c \in Calls, LintCached(c)
    PROVE  LintInv'
<1>1. /\ lintCache' = lintCache /\ reported' = reported /\ content' = content
      /\ slipped' = slipped /\ toolCache' = toolCache /\ call[c].key[1] # "lint_file"
  BY DEF LintCached, dispatchVars, lintVars, worldVars, historyVars
<1>2. /\ call[c].pc = "lint" /\ call'[c].pc = "finish" /\ call'[c].key = call[c].key
      /\ \A d \in Calls \ {c} : call'[d] = call[d]
  BY LintCachedFacts
<1>3. PICK v \in lintCache : /\ call'[c].lint = v
                             /\ call'[c].overlaps = (call[c].overlaps \/ <<"lint_cache">> \in slipped)
  BY LintCachedFacts
<1>4. v <= content /\ (v >= reported \/ <<"lint_cache">> \in slipped)
  BY DEF LintInv, Linted, Excused
<1>5. Active' = Active /\ c \in Active
  BY <1>2 DEF Active
<1>6. Carried'
  <2> SUFFICES ASSUME NEW d \in Active
               PROVE  /\ call'[d].lint <= content
                      /\ call'[d].pc \in Early => call'[d].lint = NoLint
                      /\ call'[d].pc \in Late => call'[d].lint # NoLint
                      /\ \/ call'[d].overlaps \/ call'[d].lint = NoLint
                         \/ call'[d].lint >= reported
    BY <1>1, <1>5 DEF Carried
  <2>1. CASE d # c
    <3>1. call'[d] = call[d]
      BY <1>2, <2>1 DEF Active
    <3>2. QED
      BY <3>1 DEF LintInv, Carried
  <2>2. CASE d = c
    BY <1>2, <1>3, <1>4, <2>2 DEF Early, Late
  <2>3. QED
    BY <2>1, <2>2
<1>7. Beside'
  <2> SUFFICES ASSUME NEW d \in Active, NEW e \in Active, d # e, call'[e].key[1] = "lint_file"
               PROVE  call'[d].overlaps
    BY <1>5 DEF Beside
  <2>1. call[d].overlaps
    BY <1>1, <1>2 DEF LintInv, Beside, Active
  <2>2. QED
    BY <1>2, <1>3, <2>1 DEF Active
<1>8. Reporting'
  <2> SUFFICES ASSUME NEW d \in Active, call'[d].pc = "finish", call'[d].key[1] = "lint_file",
                      NEW w \in lintCache
               PROVE  w >= call'[d].lint \/ Excused(<<"lint_cache">>)
    BY <1>1, <1>5 DEF Reporting, Excused
  <2>1. d # c
    BY <1>1, <1>2 DEF Late
  <2>2. call'[d] = call[d]
    BY <1>2, <2>1 DEF Active
  <2>3. QED
    BY <2>2 DEF LintInv, Reporting
<1>9. Linted' /\ Followed'
  BY <1>1 DEF LintInv, Linted, Followed, Excused
<1>10. QED
  BY <1>1, <1>6, <1>7, <1>8, <1>9 DEF LintInv

LEMMA LintLintFile ==
    ASSUME Types, LintInv, NEW c \in Calls, LintFile(c)
    PROVE  LintInv'
<1>1. /\ lintCache' = lintCache /\ reported' = reported /\ content' = content
      /\ slipped' = slipped /\ toolCache' = toolCache
  BY DEF LintFile, dispatchVars, worldVars, historyVars
<1>2. /\ call[c].pc = "lint" /\ call'[c].pc \in Late /\ call'[c].key = call[c].key
      /\ call'[c].lint = content /\ call'[c].overlaps = call[c].overlaps
      /\ \A d \in Calls \ {c} : call'[d] = call[d]
  BY LintFileFacts DEF Late
<1>3. Active' = Active /\ c \in Active
  BY <1>2 DEF Active, Late
<1>4. content \in Int /\ reported <= content /\ reported \in Int /\ reported >= 0 /\ NoLint = -1
  BY Numbers DEF LintInv
<1>5. content <= content /\ content >= reported /\ content # NoLint
  BY <1>4
<1>6. Carried'
  <2> SUFFICES ASSUME NEW d \in Active
               PROVE  /\ call'[d].lint <= content
                      /\ call'[d].pc \in Early => call'[d].lint = NoLint
                      /\ call'[d].pc \in Late => call'[d].lint # NoLint
                      /\ \/ call'[d].overlaps \/ call'[d].lint = NoLint
                         \/ call'[d].lint >= reported
    BY <1>1, <1>3 DEF Carried
  <2>1. CASE d # c
    <3>1. call'[d] = call[d]
      BY <1>2, <2>1 DEF Active
    <3>2. QED
      BY <3>1 DEF LintInv, Carried
  <2>2. CASE d = c
    BY <1>2, <1>5, <2>2 DEF Early, Late
  <2>3. QED
    BY <2>1, <2>2
<1>7. Beside'
  BY <1>1, <1>2, <1>3 DEF LintInv, Beside, Active
<1>8. Reporting'
  <2> SUFFICES ASSUME NEW d \in Active, call'[d].pc = "finish", call'[d].key[1] = "lint_file",
                      NEW w \in lintCache
               PROVE  w >= call'[d].lint \/ Excused(<<"lint_cache">>)
    BY <1>1, <1>3 DEF Reporting, Excused
  <2>1. d # c
    BY <1>1, <1>2 DEF Late
  <2>2. call'[d] = call[d]
    BY <1>2, <2>1 DEF Active
  <2>3. QED
    BY <2>2 DEF LintInv, Reporting
<1>9. Linted' /\ Followed'
  BY <1>1 DEF LintInv, Linted, Followed, Excused
<1>10. QED
  BY <1>1, <1>4, <1>6, <1>7, <1>8, <1>9 DEF LintInv

LEMMA LintLinterEnds ==
    ASSUME Types, LintInv, NEW c \in Calls, LinterEnds(c)
    PROVE  LintInv'
<1>1. /\ reported' = reported /\ content' = content /\ toolCache' = toolCache
      /\ lintCache' = {call[c].lint} /\ call[c].pc = "linter" /\ Go(c, "finish")
      /\ slipped' = IF call[c].overlaps /\ call[c].lint < content
                    THEN slipped \cup {<<"lint_cache">>} ELSE slipped \ {<<"lint_cache">>}
  BY DEF LinterEnds, Slip, At, dispatchVars, worldVars
<1>2. /\ call'[c].pc = "finish" /\ call'[c].key = call[c].key
      /\ call'[c].lint = call[c].lint /\ call'[c].overlaps = call[c].overlaps
      /\ \A d \in Calls \ {c} : call'[d] = call[d]
  BY <1>1, GoFacts DEF Points
<1>3. Active' = Active /\ c \in Active
  BY <1>1, <1>2 DEF Active
<1>4. /\ content \in Int /\ reported \in Int /\ reported <= content
      /\ \A d \in Active : call[d].lint \in Int
  BY Numbers DEF LintInv
<1>5. /\ \A d \in Active : call[d].lint <= content
      /\ call[c].lint # NoLint
      /\ call[c].overlaps \/ call[c].lint >= reported
  BY <1>1, <1>3 DEF LintInv, Carried, Late
<1>6. Carried'
  <2> SUFFICES ASSUME NEW d \in Active
               PROVE  /\ call'[d].lint <= content
                      /\ call'[d].pc \in Early => call'[d].lint = NoLint
                      /\ call'[d].pc \in Late => call'[d].lint # NoLint
                      /\ \/ call'[d].overlaps \/ call'[d].lint = NoLint
                         \/ call'[d].lint >= reported
    BY <1>1, <1>3 DEF Carried
  <2>1. CASE d # c
    <3>1. call'[d] = call[d]
      BY <1>2, <2>1 DEF Active
    <3>2. QED
      BY <3>1 DEF LintInv, Carried
  <2>2. CASE d = c
    BY <1>2, <1>5, <2>2 DEF Early, Late
  <2>3. QED
    BY <2>1, <2>2
<1>7. Beside'
  BY <1>2, <1>3 DEF LintInv, Beside, Active
<1>8. call[c].lint >= content \/ (call[c].overlaps /\ Excused(<<"lint_cache">>)') \/ ~call[c].overlaps
  BY <1>1, <1>3, <1>4 DEF Excused
<1>9. Reporting'
  <2> SUFFICES ASSUME NEW d \in Active, call'[d].pc = "finish", call'[d].key[1] = "lint_file"
               PROVE  call[c].lint >= call'[d].lint \/ Excused(<<"lint_cache">>)'
    BY <1>1, <1>3 DEF Reporting, Excused
  <2>1. CASE d = c
    BY <1>2, <1>3, <1>4, <2>1
  <2>2. CASE d # c
    <3>1. call'[d] = call[d]
      BY <1>2, <2>2 DEF Active
    <3>2. call[c].overlaps
      BY <1>3, <2>2, <3>1 DEF LintInv, Beside
    <3>3. CASE call[c].lint >= content
      BY <1>3, <1>4, <1>5, <3>1, <3>3
    <3>4. QED
      BY <1>8, <3>2, <3>3
  <2>3. QED
    BY <2>1, <2>2
<1>10. Linted'
  <2>1. call[c].lint >= reported \/ Excused(<<"lint_cache">>)'
    BY <1>3, <1>4, <1>5, <1>8
  <2>2. QED
    BY <1>1, <1>3, <1>5, <2>1 DEF Linted
<1>11. Followed'
  <2> SUFFICES ASSUME NEW k \in Keys, NEW v \in toolCache[k] \ {NoLint}
               PROVE  \/ v >= reported \/ Excused(k)'
                      \/ k[2] \cap {"absolute", "relative"} = {}
    BY <1>1 DEF Followed
  <2>1. k # <<"lint_cache">>
    BY DEF Keys
  <2>2. Excused(k) => Excused(k)'
    BY <1>1, <2>1 DEF Excused
  <2>3. QED
    BY <2>2 DEF LintInv, Followed
<1>12. QED
  BY <1>1, <1>4, <1>6, <1>7, <1>9, <1>10, <1>11 DEF LintInv

LEMMA LintReportLint ==
    ASSUME Types, LintInv, NEW c \in Calls, ReportLint(c)
    PROVE  LintInv'
<1>1. /\ lintCache' = lintCache /\ content' = content /\ slipped' = slipped
      /\ toolCache' = Without({"absolute", "relative"})
      /\ reported' = IF call[c].lint > reported THEN call[c].lint ELSE reported
      /\ call[c].pc = "finish" /\ call[c].key[1] = "lint_file" /\ call' = [call EXCEPT ![c] = Idle]
  BY DEF ReportLint, Done, At, lintVars, worldVars
<1>2. call'[c].pc = "idle" /\ \A d \in Calls \ {c} : call'[d] = call[d]
  BY <1>1, DoneFacts
<1>3. c \in Active /\ Active' = Active \ {c}
  BY <1>1, <1>2 DEF Active
<1>4. \A d \in Active' : d # c /\ d \in Active /\ call'[d] = call[d] /\ call[d].overlaps
  BY <1>1, <1>2, <1>3 DEF LintInv, Beside, Active
<1>5. /\ reported \in Int /\ content \in Int /\ call[c].lint \in Int
      /\ reported <= content /\ call[c].lint <= content
      /\ \A v \in lintCache : v \in Int
  BY <1>3, Numbers DEF LintInv, Carried
<1>6. Carried' /\ Beside' /\ Reporting'
  BY <1>1, <1>4 DEF LintInv, Carried, Beside, Reporting, Excused
<1>7. Linted'
  <2> SUFFICES ASSUME NEW v \in lintCache
               PROVE  v <= content /\ (v >= reported' \/ Excused(<<"lint_cache">>))
    BY <1>1 DEF Linted, Excused
  <2>1. v <= content /\ (v >= reported \/ Excused(<<"lint_cache">>))
    BY DEF LintInv, Linted
  <2>2. v >= call[c].lint \/ Excused(<<"lint_cache">>)
    BY <1>1, <1>3 DEF LintInv, Reporting
  <2>3. QED
    BY <1>1, <2>1, <2>2
<1>8. Followed'
  <2> SUFFICES ASSUME NEW k \in Keys, NEW v \in toolCache'[k]
               PROVE  k[2] \cap {"absolute", "relative"} = {}
    BY DEF Followed
  <2>1. QED
    BY <1>1 DEF Without
<1>9. reported' <= content'
  BY <1>1, <1>5
<1>10. QED
  BY <1>6, <1>7, <1>8, <1>9 DEF LintInv

LEMMA LintStoreResult ==
    ASSUME Types, LintInv, NEW c \in Calls, StoreResult(c)
    PROVE  LintInv'
<1> DEFINE key == call[c].key
           x == call[c].lint
<1>1. /\ lintCache' = lintCache /\ content' = content /\ reported' = reported
      /\ toolCache' = [toolCache EXCEPT ![key] = {x}] /\ key \in Keys
      /\ IF x = NoLint THEN slipped' = slipped
         ELSE slipped' = IF call[c].overlaps /\ x < content
                         THEN slipped \cup {key} ELSE slipped \ {key}
      /\ call[c].pc = "finish" /\ call' = [call EXCEPT ![c] = Idle]
  BY DEF StoreResult, Slip, Done, At, lintVars, worldVars
<1>2. call'[c].pc = "idle" /\ \A d \in Calls \ {c} : call'[d] = call[d]
  BY <1>1, DoneFacts
<1>3. c \in Active /\ Active' = Active \ {c}
  BY <1>1, <1>2 DEF Active
<1>4. \A d \in Active' : d # c /\ d \in Active /\ call'[d] = call[d]
  BY <1>2, <1>3 DEF Active
<1>5. /\ reported \in Int /\ content \in Int /\ x \in Int /\ reported <= content
      /\ call[c].overlaps \/ x = NoLint \/ x >= reported
  BY <1>3, Numbers DEF LintInv, Carried
<1>6. key # <<"lint_cache">>
  BY <1>1 DEF Keys
<1> HIDE DEF key, x
<1>7. Excused(<<"lint_cache">>)' <=> Excused(<<"lint_cache">>)
  BY <1>1, <1>6 DEF Excused
<1>8. Carried' /\ Beside'
  BY <1>1, <1>4 DEF LintInv, Carried, Beside
<1>9. Reporting' /\ Linted'
  BY <1>1, <1>4, <1>7 DEF LintInv, Reporting, Linted
<1>10. Followed'
  <2> SUFFICES ASSUME NEW k \in Keys, NEW v \in toolCache'[k] \ {NoLint}
               PROVE  \/ v >= reported \/ Excused(k)'
                      \/ k[2] \cap {"absolute", "relative"} = {}
    BY <1>1 DEF Followed
  <2>1. CASE k = key
    <3>1. v = x /\ x # NoLint
      BY <1>1, <2>1 DEF Types
    <3>2. x >= reported \/ (call[c].overlaps /\ x < content)
      BY <1>5, <3>1
    <3>3. QED
      BY <1>1, <2>1, <3>1, <3>2 DEF Excused
  <2>2. CASE k # key
    <3>1. v \in toolCache[k] \ {NoLint}
      BY <1>1, <2>2 DEF Types
    <3>2. Excused(k) => Excused(k)'
      BY <1>1, <2>2 DEF Excused
    <3>3. QED
      BY <3>1, <3>2 DEF LintInv, Followed
  <2>3. QED
    BY <2>1, <2>2
<1>11. QED
  BY <1>1, <1>5, <1>8, <1>9, <1>10 DEF LintInv

\* The steps without new diagnostics are calm for every call.
LEMMA CalmGo ==
    ASSUME Types, NEW c \in Calls, call[c].pc # "idle", NEW point \in Points, Go(c, point),
           point \in Early => call[c].pc \in Early,
           point \in Late => call[c].pc \in Late,
           point = "finish" => call[c].pc \in Early
    PROVE  \A d \in Calls : Calm(call[d], call'[d])
<1>1. /\ call'[c].pc = point /\ call'[c].key = call[c].key
      /\ call'[c].lint = call[c].lint /\ call'[c].overlaps = call[c].overlaps
      /\ \A d \in Calls \ {c} : call'[d] = call[d]
  BY GoFacts
<1>2. \A d \in Calls \ {c} : Calm(call[d], call'[d])
  BY <1>1 DEF Calm, Early, Late
<1>3. Calm(call[c], call'[c])
  BY <1>1 DEF Calm
<1>4. QED
  BY <1>2, <1>3

LEMMA CalmDone ==
    ASSUME Types, NEW c \in Calls, call' = [call EXCEPT ![c] = Idle]
    PROVE  \A d \in Calls : Calm(call[d], call'[d])
<1>1. call'[c].pc = "idle" /\ \A d \in Calls \ {c} : call'[d] = call[d]
  BY DoneFacts
<1>2. QED
  BY <1>1 DEF Calm, Early, Late

\* The steps by which calls go on, and those by which they end without a result.
Goes(c) == Granted(c) \/ Lookup(c) \/ Analyze(c) \/ Parsed(c) \/ LintGranted(c)

GivesUp(c) == Busy(c) \/ Fail(c) \/ Timeout(c)

LEMMA CalmSteps ==
    ASSUME Types, NEW c \in Calls, Goes(c) \/ GivesUp(c)
    PROVE  \A d \in Calls : Calm(call[d], call'[d])
<1>1. CASE Granted(c)
  BY <1>1, CalmGo DEF Granted, At, Points, Early, Late
<1>2. CASE Lookup(c)
  BY <1>2, CalmGo, CalmDone DEF Lookup, At, Points, Early, Late
<1>3. CASE Analyze(c)
  <2>1. PICK point \in {"lint", "finish", "parse", "await"} : Go(c, point)
    BY <1>3 DEF Analyze, AfterAnalysis
  <2>2. call[c].pc = "analyze" /\ point \in Points /\ point \notin Late
    BY <1>3 DEF Analyze, At, Points, Late
  <2>3. QED
    BY <2>1, <2>2, CalmGo DEF Early
<1>4. CASE Parsed(c)
  <2>1. ASSUME NEW d \in Calls PROVE Calm(call[d], call'[d])
    <3>1. \/ call'[d] = call[d]
          \/ /\ call[d].pc \in {"parse", "await"}
             /\ call'[d].pc \in {"lint", "finish"}
             /\ call'[d].key = call[d].key
             /\ call'[d].lint = call[d].lint
             /\ call'[d].overlaps = call[d].overlaps
      BY <1>4, ParsedFacts
    <3>2. CASE call'[d] = call[d]
      BY <3>2 DEF Calm, Early, Late
    <3>3. QED
      BY <3>1, <3>2 DEF Calm, Early, Late
  <2>2. QED
    BY <2>1
<1>5. CASE LintGranted(c)
  BY <1>5, CalmGo DEF LintGranted, At, Points, Early, Late
<1>6. CASE Busy(c) \/ Fail(c)
  BY <1>6, CalmDone DEF Busy, Fail, Done
<1>7. CASE Timeout(c)
  <2>1. call'[c].pc = "idle"
    BY <1>7, TimeoutFacts
  <2>2. ASSUME NEW d \in Calls \ {c} PROVE Calm(call[d], call'[d])
    <3>1. \/ call'[d] = call[d]
          \/ /\ call[d].pc = "await" /\ call'[d].pc = "parse"
             /\ call'[d].key = call[d].key /\ call'[d].lint = call[d].lint
             /\ call'[d].overlaps = call[d].overlaps
      BY <1>7, TimeoutFacts
    <3>2. CASE call'[d] = call[d]
      BY <3>2 DEF Calm, Early, Late
    <3>3. QED
      BY <3>1, <3>2 DEF Calm, Early, Late
  <2>3. QED
    BY <2>1, <2>2 DEF Calm
<1>8. QED
  BY <1>1, <1>2, <1>3, <1>4, <1>5, <1>6, <1>7 DEF Goes, GivesUp

LEMMA LintNext ==
    ASSUME Types, LintInv, [Next]_vars
    PROVE  LintInv'
<1>1. Types' /\ content \in Int
  BY TypesNext, Numbers
<1>2. ASSUME NEW c \in Calls, NEW key \in Tools \X ArgSets, Begin(c, key) PROVE LintInv'
  BY <1>2, LintBegin
<1>3. ASSUME NEW c \in Calls,
             LintCached(c) \/ LintFile(c) \/ LinterEnds(c) \/ ReportLint(c) \/ StoreResult(c)
      PROVE  LintInv'
  BY <1>3, LintLintCached, LintLintFile, LintLinterEnds, LintReportLint, LintStoreResult
<1>4. ASSUME NEW c \in Calls, Goes(c) \/ GivesUp(c) PROVE LintInv'
  <2>1. /\ lintCache' = lintCache /\ reported' = reported /\ slipped' = slipped
        /\ content' = content
    BY <1>4 DEF Goes, GivesUp, Granted, Lookup, Analyze, Parsed, LintGranted, Busy, Fail, Timeout,
                lintVars, worldVars, historyVars
  <2>2. toolCache' = toolCache \/ \E strings : toolCache' = Without(strings)
    BY <1>4 DEF Goes, GivesUp, Granted, Lookup, Analyze, Parsed, LintGranted, Busy, Fail, Timeout,
                dispatchVars
  <2>3. \A k \in Keys : toolCache'[k] = {} \/ toolCache'[k] = toolCache[k]
    BY <2>2 DEF Without
  <2>4. content' >= content /\ \A place : Excused(place) => Excused(place)'
    BY <1>1, <2>1 DEF Excused
  <2>5. \A d \in Calls : Calm(call[d], call'[d])
    BY <1>4, CalmSteps
  <2>6. QED
    BY <1>1, <2>1, <2>3, <2>4, <2>5, CalmStep
<1>5. CASE Edit \/ FlushTools \/ EvictAnalysis \/ UNCHANGED vars
  <2>1. call' = call /\ lintCache' = lintCache /\ reported' = reported /\ content' >= content
    BY <1>1, <1>5 DEF Edit, FlushTools, EvictAnalysis, vars, lintVars, worldVars,
                      historyVars
  <2>2. \A d \in Calls : Calm(call[d], call'[d])
    BY <2>1 DEF Calm, Early, Late
  <2>3. <<"lint_cache">> \notin Keys
    BY DEF Keys
  <2>4. \/ toolCache' = toolCache /\ slipped' = slipped
        \/ toolCache' = [k \in Keys |-> {}] /\ slipped' = slipped \ Keys
    BY <1>5 DEF Edit, FlushTools, EvictAnalysis, vars, dispatchVars, historyVars
  <2>5. /\ Excused(<<"lint_cache">>) => Excused(<<"lint_cache">>)'
        /\ \A k \in Keys : \/ toolCache'[k] = {}
                           \/ toolCache'[k] = toolCache[k] /\ (Excused(k) => Excused(k)')
    BY <2>3, <2>4 DEF Excused
  <2>6. QED
    BY <1>1, <2>1, <2>2, <2>5, CalmStep
<1>6. QED
  BY <1>2, <1>3, <1>4, <1>5 DEF Next, Step, Goes, GivesUp

LEMMA LintInit == Init => LintInv
<1> SUFFICES ASSUME Init PROVE LintInv
  OBVIOUS
<1>1. Active = {}
  BY DEF Init, Idle, Active
<1>2. /\ reported = 0 /\ content = 0 /\ lintCache = {} /\ \A k \in Keys : toolCache[k] = {}
  BY DEF Init
<1>3. QED
  BY <1>1, <1>2 DEF LintInv, Carried, Beside, Reporting, Linted, Followed

\* After lint_file has answered, neither the lint cache nor a cached result holds older
\* diagnostics, but for those a call beside it has put there and for the results whose
\* arguments spell the path in a third way: invalidate_tool_cache_for_file and run_sync
\* suffice, with any number of calls, permits and edits.
THEOREM ResultsFollow == Spec => []LintResultsFollow
<1>1. Init => Types /\ LintInv
  BY TypesInit, LintInit
<1>2. Types /\ LintInv /\ [Next]_vars => (Types /\ LintInv)'
  BY TypesNext, LintNext
<1>3. LintInv => LintResultsFollow
  BY DEF LintInv, Linted, Followed, Excused, LintResultsFollow
<1>4. QED
  BY <1>1, <1>2, <1>3, PTL DEF Spec
===============================================================================
