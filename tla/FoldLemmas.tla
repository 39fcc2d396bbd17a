----------------------------- MODULE FoldLemmas -----------------------------
(***************************************************************************)
(* What the community modules' FoldLeft computes, for an operator that a   *)
(* module which instantiates this one chooses: SArray's loop of emplace()  *)
(* over the elements of another array, the sums of sizes and positions.    *)
(* Induction is by the least counterexample.                               *)
(***************************************************************************)
EXTENDS Naturals, Sequences, Folds, NaturalsInduction, WellFoundedInduction, TLAPS

CONSTANT Op(_, _)

\* FoldLeft(Op, base, seq), written out as SequencesExt defines it: an instance
\* of that module for every operator would be more than the provers can carry.
Greatest(S) == CHOOSE x \in S : \A y \in S : x >= y

Folded(base, seq) ==
  MapThenFoldSet(LAMBDA x, y : Op(y, x), base, LAMBDA i : seq[i], LAMBDA S : Greatest(S),
                 DOMAIN seq)

\* A set of naturals that is not empty has a least element.
LEMMA LeastOf == ASSUME NEW T \in SUBSET Nat, T # {} PROVE \E n \in T : \A m \in T : ~(m < n)
<1>1. \E n \in T : \A m \in T : <<m, n>> \notin OpToRel(<, Nat)
  BY NatLessThanWellFounded, WFMin
<1> QED BY <1>1 DEF OpToRel

\* What holds of 0 and, if of k, of k + 1, holds of all.
LEMMA CountingUp ==
  \A n \in Nat : \A T : 0 \in T /\ (\A k \in 0 .. n - 1 : k \in T => k + 1 \in T)
                      => \A k \in 0 .. n : k \in T
<1> SUFFICES ASSUME NEW n \in Nat, NEW T, 0 \in T,
                    \A k \in 0 .. n - 1 : k \in T => k + 1 \in T,
                    NEW j \in 0 .. n, j \notin T
             PROVE  FALSE
  OBVIOUS
<1> DEFINE Bad == {k \in 0 .. n : k \notin T}
<1>1. PICK k \in Bad : \A m \in Bad : ~(m < k)
  <2>1. Bad \in SUBSET Nat /\ Bad # {}
    OBVIOUS
  <2> QED BY <2>1, LeastOf
<1>2. k # 0 /\ k \in 0 .. n /\ k \notin T
  OBVIOUS
<1>3. k - 1 \in 0 .. n - 1 /\ k - 1 \in 0 .. n /\ k - 1 < k /\ (k - 1) + 1 = k
  BY <1>2
<1>4. k - 1 \in T
  BY <1>1, <1>3
<1> QED BY <1>2, <1>3, <1>4

\* A set of positions that is not empty has a greatest one.
LEMMA MaxOfPositions ==
  ASSUME NEW k \in Nat, NEW s \in SUBSET (1 .. k), s # {}
  PROVE  Greatest(s) \in s /\ \A x \in s : x <= Greatest(s)
<1> DEFINE T == {j \in Nat : \A x \in s : x <= j}
<1>1. PICK j \in T : \A m \in T : ~(m < j)
  <2>1. k \in T
    OBVIOUS
  <2> QED BY <2>1, LeastOf
<1>2. j \in s
  <2> SUFFICES ASSUME j \notin s PROVE FALSE
    OBVIOUS
  <2>1. PICK x \in s : TRUE
    OBVIOUS
  <2>2. x \in 1 .. k /\ x <= j /\ j \in Nat
    BY <1>1
  <2>3. j - 1 \in Nat
    BY <2>2
  <2>4. ASSUME NEW y \in s PROVE y <= j - 1
    <3>1. y <= j /\ y # j /\ y \in Nat
      BY <1>1
    <3> QED BY <3>1, <2>2
  <2>5. j - 1 \in T
    BY <2>3, <2>4
  <2>6. ~(j - 1 < j)
    BY <1>1, <2>5
  <2> QED BY <2>6, <2>2
<1>3. \E x \in s : \A y \in s : x >= y
  BY <1>2, <1>1
<1>4. Greatest(s) \in s /\ \A y \in s : Greatest(s) >= y
  BY <1>3 DEF Greatest
<1> QED BY <1>4

\* FoldLeft is the last of the values that applying Op to one element after the
\* other goes through.
LEMMA Steps ==
  ASSUME NEW base, NEW S, NEW seq \in Seq(S)
  PROVE  \E f : /\ f[0] = base
                /\ \A k \in 1 .. Len(seq) : f[k] = Op(f[k - 1], seq[k])
                /\ Folded(base, seq) = f[Len(seq)]
<1> DEFINE n == Len(seq)
           After(f, k) == f = [s \in SUBSET (1 .. k) |->
              IF s = {} THEN base ELSE Op(f[s \ {Greatest(s)}], seq[Greatest(s)])]
<1>0. n \in Nat /\ DOMAIN seq = 1 .. n
  OBVIOUS
<1>1. \A k \in Nat : \E f : After(f, k)
  <2> DEFINE T == {k \in Nat : ~ \E f : After(f, k)}
  <2> SUFFICES ASSUME T # {} PROVE FALSE
    OBVIOUS
  <2>1. PICK k \in T : \A m \in T : ~(m < k)
    BY LeastOf
  <2>2. CASE k = 0
    <3>1. After([s \in SUBSET (1 .. 0) |-> base], 0)
      BY 1 .. 0 = {}
    <3> QED BY <2>1, <2>2, <3>1
  <2>3. CASE k # 0
    <3>1. k - 1 \in Nat /\ k \in Nat /\ k - 1 < k
      BY <2>3
    <3>2. PICK g : After(g, k - 1)
      BY <2>1, <3>1
    <3> DEFINE h == [s \in SUBSET (1 .. k) |->
                       IF k \in s THEN Op(g[s \ {k}], seq[k]) ELSE g[s]]
    <3>3. \A s \in SUBSET (1 .. (k - 1)) : h[s] = g[s]
      BY <3>1
    <3>4. ASSUME NEW s \in SUBSET (1 .. k)
          PROVE  h[s] = IF s = {} THEN base ELSE Op(h[s \ {Greatest(s)}], seq[Greatest(s)])
      <4>1. CASE s = {}
        <5>1. h[s] = g[s]
          BY <4>1, <3>3
        <5>2. g[s] = base
          BY <4>1, <3>2
        <5> QED BY <4>1, <5>1, <5>2
      <4>2. CASE k \in s
        <5>1. Greatest(s) \in 1 .. k /\ k <= Greatest(s)
          BY <4>2, <3>1, MaxOfPositions
        <5>2. Greatest(s) = k
          BY <5>1, <3>1
        <5>3. s \ {k} \in SUBSET (1 .. (k - 1))
          BY <3>1
        <5>4. h[s] = Op(g[s \ {k}], seq[k])
          BY <4>2
        <5>5. h[s \ {k}] = g[s \ {k}]
          BY <5>3, <3>3
        <5> HIDE DEF h
        <5> QED BY <5>2, <5>4, <5>5, <4>2
      <4>3. CASE s # {} /\ k \notin s
        <5>1. s \subseteq 1 .. (k - 1)
          BY <4>3, <3>1
        <5>2. s \ {Greatest(s)} \subseteq 1 .. (k - 1)
          BY <5>1
        <5>3. g[s] = Op(g[s \ {Greatest(s)}], seq[Greatest(s)])
          BY <5>1, <3>2, <4>3
        <5>4. h[s] = g[s] /\ h[s \ {Greatest(s)}] = g[s \ {Greatest(s)}]
          BY <5>1, <5>2, <3>3
        <5> HIDE DEF h
        <5> QED BY <5>3, <5>4, <4>3
      <4> QED BY <4>1, <4>2, <4>3
    <3>5. h = [s \in SUBSET (1 .. k) |-> h[s]]
      OBVIOUS
    <3> HIDE DEF h
    <3>6. After(h, k)
      BY <3>4, <3>5
    <3> QED BY <2>1, <3>6, <3>1
  <2> QED BY <2>2, <2>3
<1>2. PICK f : After(f, n)
  BY <1>1, <1>0
<1> DEFINE F == CHOOSE g : After(g, n)
<1>3. After(F, n)
  BY <1>2
<1>4. Folded(base, seq) = F[1 .. n]
  BY <1>0 DEF Folded, MapThenFoldSet
<1> HIDE DEF F
<1> DEFINE r == [k \in 0 .. n |-> F[1 .. k]]
<1>5. r[0] = base
  BY <1>3, <1>0, 1 .. 0 = {}
<1>6. ASSUME NEW k \in 1 .. n PROVE r[k] = Op(r[k - 1], seq[k])
  <2>1. 1 .. k \in SUBSET (1 .. n) /\ k \in 1 .. k /\ k - 1 \in 0 .. n /\ k \in Nat
    BY <1>0
  <2>2. 1 .. k # {}
    BY <2>1
  <2>3. Greatest(1 .. k) \in 1 .. k /\ k <= Greatest(1 .. k)
    BY <2>1, <2>2, MaxOfPositions
  <2>4. Greatest(1 .. k) = k
    BY <2>3, <2>1
  <2>5. (1 .. k) \ {k} = 1 .. (k - 1)
    BY <2>1
  <2>6. F[1 .. k] = Op(F[1 .. (k - 1)], seq[k])
    BY <2>1, <2>2, <2>4, <2>5, <1>3
  <2> QED BY <2>1, <2>6, <1>0
<1>7. r = [k \in 0 .. n |-> r[k]]
  OBVIOUS
<1>8. Folded(base, seq) = r[n]
  BY <1>4, <1>0
<1> HIDE DEF r
<1> QED BY <1>0, <1>5, <1>6, <1>7, <1>8

\* The same for every sequence at once, the form in which an instance cites it.
THEOREM FoldLeftSteps ==
  \A S, base : \A seq \in Seq(S) :
    \E f : /\ f[0] = base
           /\ \A k \in 1 .. Len(seq) : f[k] = Op(f[k - 1], seq[k])
           /\ Folded(base, seq) = f[Len(seq)]
BY Steps

\* Nothing is done for an empty sequence.
THEOREM FoldLeftEmpty == \A base : Folded(base, <<>>) = base
<1> TAKE base
<1> DEFINE none == <<>>
<1>1. none \in Seq(Nat) /\ Len(none) = 0
  OBVIOUS
<1> HIDE DEF none
<1>2. PICK f : /\ f[0] = base
               /\ \A k \in 1 .. Len(none) : f[k] = Op(f[k - 1], none[k])
               /\ Folded(base, none) = f[Len(none)]
  BY <1>1, Steps
<1> QED BY <1>1, <1>2 DEF none

\* One element more is one application more.
THEOREM FoldLeftAppend ==
  \A S, base : \A seq \in Seq(S), x \in S :
    Folded(base, Append(seq, x)) = Op(Folded(base, seq), x)
<1> TAKE S, base
<1> TAKE seq \in Seq(S), x \in S
<1> DEFINE n == Len(seq)
           longer == Append(seq, x)
<1>0. /\ n \in Nat /\ longer \in Seq(S) /\ Len(longer) = n + 1
      /\ longer[n + 1] = x /\ \A k \in 1 .. n : longer[k] = seq[k]
  OBVIOUS
<1> HIDE DEF longer
<1>1. PICK f : /\ f[0] = base
               /\ \A k \in 1 .. n : f[k] = Op(f[k - 1], seq[k])
               /\ Folded(base, seq) = f[n]
  BY FoldLeftSteps
<1>2. PICK g : /\ g[0] = base
               /\ \A k \in 1 .. Len(longer) : g[k] = Op(g[k - 1], longer[k])
               /\ Folded(base, longer) = g[Len(longer)]
  BY <1>0, FoldLeftSteps
<1>3. \A k \in 0 .. n : g[k] = f[k]
  <2> DEFINE T == {k \in 0 .. n : g[k] # f[k]}
  <2> SUFFICES ASSUME T # {} PROVE FALSE
    OBVIOUS
  <2>0. T \in SUBSET Nat
    BY <1>0
  <2> HIDE DEF T
  <2>1. PICK k \in T : \A m \in T : ~(m < k)
    BY <2>0, LeastOf
  <2> USE DEF T
  <2>2. k # 0 /\ k \in 1 .. n /\ k \in 1 .. (n + 1)
    BY <2>1, <1>1, <1>2, <1>0
  <2>3. g[k - 1] = f[k - 1]
    BY <2>1, <2>2, <1>0
  <2>4. g[k] = Op(g[k - 1], seq[k])
    BY <2>2, <1>0, <1>2
  <2>5. f[k] = Op(f[k - 1], seq[k])
    BY <2>2, <1>1
  <2> QED BY <2>1, <2>3, <2>4, <2>5
<1>4. n \in 0 .. n /\ n + 1 \in 1 .. (n + 1) /\ (n + 1) - 1 = n
  BY <1>0
<1>5. g[n + 1] = Op(g[n], x)
  <2>1. g[n + 1] = Op(g[(n + 1) - 1], longer[n + 1])
    BY <1>0, <1>2, <1>4
  <2> QED BY <2>1, <1>0, <1>4
<1>6. g[n] = Folded(base, seq)
  BY <1>1, <1>3, <1>4
<1>7. Folded(base, longer) = g[n + 1]
  BY <1>0, <1>2
<1> QED BY <1>5, <1>6, <1>7 DEF longer

\* What holds of the base and is kept by each application holds of the result.
THEOREM FoldLeftStays ==
  \A S, I : \A base \in I, seq \in Seq(S) :
    (\A a \in I, x \in S : Op(a, x) \in I) => Folded(base, seq) \in I
<1> TAKE S, I
<1> TAKE base \in I, seq \in Seq(S)
<1> HAVE \A a \in I, x \in S : Op(a, x) \in I
<1> DEFINE n == Len(seq)
<1>0. n \in Nat /\ \A k \in 1 .. n : seq[k] \in S
  OBVIOUS
<1>1. PICK f : /\ f[0] = base
               /\ \A k \in 1 .. n : f[k] = Op(f[k - 1], seq[k])
               /\ Folded(base, seq) = f[n]
  BY FoldLeftSteps
<1>2. \A k \in 0 .. n : f[k] \in I
  <2> DEFINE T == {k \in 0 .. n : f[k] \notin I}
  <2> SUFFICES ASSUME T # {} PROVE FALSE
    OBVIOUS
  <2>0. T \in SUBSET Nat
    BY <1>0
  <2> HIDE DEF T
  <2>1. PICK k \in T : \A m \in T : ~(m < k)
    BY <2>0, LeastOf
  <2> USE DEF T
  <2>2. k \in 1 .. n
    BY <2>1, <1>1, <1>0
  <2>3. f[k - 1] \in I
    BY <2>1, <2>2, <1>0
  <2>4. f[k] = Op(f[k - 1], seq[k])
    BY <2>2, <1>1
  <2> QED BY <2>1, <2>2, <2>3, <2>4, <1>0
<1> QED BY <1>0, <1>1, <1>2
=============================================================================
