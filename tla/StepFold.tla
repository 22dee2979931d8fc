------------------------------ MODULE StepFold ------------------------------
(***************************************************************************)
(* What FoldLeft computes, step by step: Step is any operator.             *)
(***************************************************************************)
EXTENDS Integers, Sequences, SequencesExt, NaturalSets
CONSTANT Step(_, _, _, _)

Is(f, n, c, d, w, seq) ==
  f = [s \in SUBSET (1 .. n) |->
         IF s = {} THEN w ELSE Step(c, d, f[s \ {Max(s)}], seq[Max(s)])]

Fold(c, d, w, seq) == FoldLeft(LAMBDA v, e : Step(c, d, v, e), w, seq)

\* a[k] is what the loop has after k steps
Loop(c, d, w, seq, a) ==
  /\ a[0] = w
  /\ \A k \in 1 .. Len(seq) : a[k] = Step(c, d, a[k - 1], seq[k])
  /\ Fold(c, d, w, seq) = a[Len(seq)]

\* A fold goes through a sequence of values, each a step from the one before.
LEMMA FoldsAre ==
    ASSUME NEW c, NEW d, NEW w, NEW seq, Len(seq) \in Nat, DOMAIN seq = 1 .. Len(seq)
    PROVE  \E a : Loop(c, d, w, seq, a)
<1> DEFINE n == Len(seq)
           S == {k \in Nat : \E f : Is(f, k, c, d, w, seq)}
<1> HIDE DEF n
<1>1. 0 \in S
  <2>1. Is([s \in SUBSET (1 .. 0) |-> w], 0, c, d, w, seq)
    BY DEF Is
  <2> QED
    BY <2>1
<1>2. ASSUME NEW k \in 1 .. n, k - 1 \in S PROVE k \in S
  <2>0. n \in Nat
    BY DEF n
  <2>1. PICK f : Is(f, k - 1, c, d, w, seq)
    BY <1>2
  <2> DEFINE g == [s \in SUBSET (1 .. k) |->
                     IF k \in s THEN Step(c, d, f[s \ {k}], seq[k]) ELSE f[s]]
  <2>2. ASSUME NEW s \in SUBSET (1 .. k), k \in s
        PROVE  g[s] = Step(c, d, g[s \ {Max(s)}], seq[Max(s)])
    <3>1. s \subseteq Nat /\ \A j \in s : j <= k
      BY <2>0
    <3>2. Max(s) = k
      BY <2>2, <3>1, MaxIs
    <3>3. s \ {k} \in SUBSET (1 .. k) /\ k \notin s \ {k}
      OBVIOUS
    <3>4. g[s] = Step(c, d, f[s \ {k}], seq[k])
      BY <2>2
    <3>5. g[s \ {k}] = f[s \ {k}]
      BY <3>3
    <3> QED
      BY <3>2, <3>4, <3>5
  <2>3. ASSUME NEW s \in SUBSET (1 .. k), k \notin s, s # {}
        PROVE  g[s] = Step(c, d, g[s \ {Max(s)}], seq[Max(s)])
    <3>1. s \in SUBSET (1 .. k - 1)
      BY <2>0, <2>3
    <3>2. f[s] = Step(c, d, f[s \ {Max(s)}], seq[Max(s)])
      BY <2>1, <2>3, <3>1 DEF Is
    <3>3. s \ {Max(s)} \in SUBSET (1 .. k) /\ k \notin s \ {Max(s)}
      BY <2>3
    <3>4. g[s \ {Max(s)}] = f[s \ {Max(s)}] /\ g[s] = f[s]
      BY <2>3, <3>3
    <3> QED
      BY <3>2, <3>4
  <2>4. g[{}] = w
    BY <2>0, <2>1 DEF Is
  <2>5. Is(g, k, c, d, w, seq)
    <3>1. \A s \in SUBSET (1 .. k) :
            g[s] = IF s = {} THEN w ELSE Step(c, d, g[s \ {Max(s)}], seq[Max(s)])
      <4> HIDE DEF g
      <4> QED
        BY <2>2, <2>3, <2>4
    <3> QED
      BY <3>1 DEF Is
  <2> QED
    BY <2>0, <2>5
<1>3. n \in S
  <2> HIDE DEF S
  <2>1. n \in Nat /\ n \in 0 .. n
    BY DEF n
  <2> QED
    BY <1>1, <1>2, <2>1, UpTo
<1>4. PICK f : Is(f, n, c, d, w, seq)
  BY <1>3
<1>5. Fold(c, d, w, seq) = (CHOOSE h : Is(h, n, c, d, w, seq))[1 .. n]
  BY DEF Fold, FoldLeft, MapThenFoldSet, Is, n
<1>6. PICK h : Is(h, n, c, d, w, seq) /\ Fold(c, d, w, seq) = h[1 .. n]
  BY <1>4, <1>5
<1> DEFINE a == [k \in 0 .. n |-> h[1 .. k]]
<1>7. n \in Nat
  BY DEF n
<1>8. a[0] = w
  <2>1. 1 .. 0 = {} /\ {} \in SUBSET (1 .. n)
    OBVIOUS
  <2>2. h[{}] = w
    BY <1>6, <2>1 DEF Is
  <2> QED
    BY <1>7, <2>1, <2>2
<1>9. ASSUME NEW k \in 1 .. n PROVE a[k] = Step(c, d, a[k - 1], seq[k])
  <2>1. Max(1 .. k) = k
    <3>1. 1 .. k \subseteq Nat /\ k \in 1 .. k /\ \A j \in 1 .. k : j <= k
      BY <1>7
    <3> QED
      BY <3>1, MaxIs
  <2>2. (1 .. k) \ {k} = 1 .. k - 1 /\ 1 .. k # {} /\ 1 .. k \in SUBSET (1 .. n)
    BY <1>7
  <2>3. h[1 .. k] = Step(c, d, h[1 .. k - 1], seq[k])
    BY <1>6, <2>1, <2>2 DEF Is
  <2> QED
    BY <1>7, <2>3
<1>10. Fold(c, d, w, seq) = a[n]
  BY <1>6, <1>7
<1> HIDE DEF a
<1> QED
  BY <1>8, <1>9, <1>10 DEF n, Loop
=============================================================================
