---------------------------- MODULE Input_proofs ----------------------------
(***************************************************************************)
(* What an axis emits, for any ranges, polynomials, devices and sequences  *)
(* of raw values: the emulation of one reporting style on top of the other *)
(* neither loses nor invents movement, the linear mapping stays within its *)
(* bounds, and a polynomial is evaluated as its user wrote it.             *)
(***************************************************************************)
EXTENDS Input, SequenceTheorems, TLAPS

\* The loops of map() over the coefficients, std::pow, and the sums and the
\* rule the properties use (Axis.cc:148-166).
Plus(s, n) == s + n
Times(r, m) == r * m
Sums == INSTANCE FoldLemmas WITH Op <- Plus
Products == INSTANCE FoldLemmas WITH Op <- Times
Horners == INSTANCE FoldLemmas WITH Op <- HornerStep

Fractions == [num : Int, den : Int]
RawConfigs == [neutral : Int, minimum : Int, maximum : Int]
AxisRecords == [type : {Absolute, Relative}, mode : {Absolute, Relative},
                raw : RawConfigs, map_method : {"none", "linear", "polynomial"},
                coefficients : Seq(Int)]

-----------------------------------------------------------------------------
(* The operators of Axis. *)

\* A sequence without elements.
LEMMA NoElements == \A S : \A s \in Seq(S) : Len(s) = 0 => s = <<>>
OBVIOUS

\* Clipping and the emulation give integers (Axis.cc:169-196).
LEMMA EmulationTypes ==
  ASSUME NEW a \in AxisRecords, NEW before \in Int, NEW v \in Int
  PROVE  /\ Clip(a.raw, v) \in Int
         /\ Emulate(a, before, v).value \in Int
         /\ Emulate(a, before, v).last \in Int
<1>1. a.raw.minimum \in Int /\ a.raw.maximum \in Int
  BY DEF AxisRecords, RawConfigs
<1>2. Clip(a.raw, v) \in Int
  BY <1>1 DEF Clip, Smallest, Largest
<1>3. Emulate(a, before, v).value \in Int /\ Emulate(a, before, v).last \in Int
  BY DEF Emulate, Emulated
<1> QED BY <1>2, <1>3

\* The linear part is a fraction of integers (Axis.cc:83-144).
LEMMA LinearTypes ==
  ASSUME NEW r \in RawConfigs, NEW v \in Int
  PROVE  LinearPart(r, v) \in Fractions
<1> DEFINE max == r.maximum - r.neutral
           min == r.minimum - r.neutral
           val == v - r.neutral
<1>1. max \in Int /\ min \in Int /\ val \in Int
  BY DEF RawConfigs
<1>2. \A m, n \in Int : Fraction(m, n) \in Fractions
  BY DEF Fraction, Fractions
<1>3. Largest(Magnitude(max), Magnitude(min)) \in Int
  BY <1>1 DEF Largest, Magnitude
<1>4. Throws \in Fractions
  BY <1>2 DEF Throws
<1> HIDE DEF max, min, val
<1>5. CASE r.maximum = -r.minimum \/ r.minimum = r.neutral
  BY <1>1, <1>2, <1>5 DEF LinearPart, max, min, val
<1>6. CASE /\ ~(r.maximum = -r.minimum \/ r.minimum = r.neutral)
           /\ r.maximum = r.neutral /\ r.maximum # -r.minimum /\ r.minimum # r.neutral
  BY <1>1, <1>2, <1>6 DEF LinearPart, max, min, val
<1>7. CASE /\ ~(r.maximum = -r.minimum \/ r.minimum = r.neutral)
           /\ ~(r.maximum = r.neutral /\ r.maximum # -r.minimum /\ r.minimum # r.neutral)
  BY <1>1, <1>2, <1>3, <1>4, <1>7 DEF LinearPart, max, min, val
<1> QED BY <1>5, <1>6, <1>7

\* A value within a range whose neutral point lies within it, and is zero when
\* the range is symmetric about zero, is mapped between -1 and 1, and the neutral
\* point to 0 (Axis.cc:83-144).
LEMMA LinearWithin ==
  ASSUME NEW r \in RawConfigs, NEW v \in Int, Wellformed(r),
         r.minimum <= v, v <= r.maximum
  PROVE  /\ Magnitude(LinearPart(r, v).num) <= Magnitude(LinearPart(r, v).den)
         /\ v = r.neutral => LinearPart(r, v).num = 0
<1> DEFINE max == r.maximum - r.neutral
           min == r.minimum - r.neutral
           val == v - r.neutral
<1>1. /\ max \in Int /\ min \in Int /\ val \in Int
      /\ min <= 0 /\ 0 <= max /\ min <= val /\ val <= max /\ min < max
      /\ v = r.neutral => val = 0
  BY DEF RawConfigs, Wellformed
<1>2. r.maximum = -r.minimum => max = -min
  BY DEF RawConfigs, Wellformed
<1>3. /\ r.minimum = r.neutral <=> min = 0
      /\ r.maximum = r.neutral <=> max = 0
  BY DEF RawConfigs
<1>4. \A m, n : Fraction(m, n).num = m /\ Fraction(m, n).den = n
  BY DEF Fraction
<1> DEFINE big == Largest(Magnitude(max), Magnitude(min))
<1>5. /\ big \in Int /\ Magnitude(val) <= big /\ Magnitude(big) = big
  BY <1>1 DEF Largest, Magnitude
<1>6. CASE r.maximum = -r.minimum \/ r.minimum = r.neutral
  <2>1. LinearPart(r, v) = Fraction(val, max)
    BY <1>6 DEF LinearPart
  <2>2. Magnitude(val) <= Magnitude(max)
    BY <1>1, <1>2, <1>3, <1>6 DEF Magnitude, Largest
  <2> HIDE DEF val, max, min, big
  <2> QED BY <1>1, <1>4, <2>1, <2>2
<1>7. CASE /\ ~(r.maximum = -r.minimum \/ r.minimum = r.neutral)
           /\ r.maximum = r.neutral /\ r.maximum # -r.minimum /\ r.minimum # r.neutral
  <2>1. LinearPart(r, v) = Fraction(val, min)
    BY <1>7 DEF LinearPart
  <2>2. Magnitude(val) <= Magnitude(min)
    BY <1>1, <1>3, <1>7 DEF Magnitude, Largest
  <2> HIDE DEF val, max, min, big
  <2> QED BY <1>1, <1>4, <2>1, <2>2
<1>8. CASE /\ ~(r.maximum = -r.minimum \/ r.minimum = r.neutral)
           /\ ~(r.maximum = r.neutral /\ r.maximum # -r.minimum /\ r.minimum # r.neutral)
  <2>1. LinearPart(r, v) = IF Magnitude(max) # Magnitude(min) THEN Fraction(val, big) ELSE Throws
    BY <1>8 DEF LinearPart
  <2> HIDE DEF val, max, min, big
  <2>2. CASE Magnitude(max) # Magnitude(min)
    BY <1>1, <1>4, <1>5, <2>1, <2>2
  <2>3. CASE Magnitude(max) = Magnitude(min)
    <3>1. LinearPart(r, v).num = 0 /\ LinearPart(r, v).den = 0
      BY <1>4, <2>1, <2>3 DEF Throws
    <3> QED BY <3>1 DEF Magnitude, Largest
  <2> QED BY <2>2, <2>3
<1> QED BY <1>6, <1>7, <1>8

\* The sum of a sequence with one more element (the axis' movements).
LEMMA TotalIs ==
  /\ Total(<<>>) = 0
  /\ \A s \in Seq(Int) : Total(s) \in Int
  /\ \A s \in Seq(Int), n \in Int : Total(Append(s, n)) = Total(s) + n
<1>1. \A s : Total(s) = Sums!Folded(0, s)
  BY DEF Total, Sums!Folded, FoldLeft, MapThenFoldSet, Max,
         Sums!MapThenFoldSet, Sums!Greatest, Plus
<1>2. Total(<<>>) = 0
  BY <1>1, Sums!FoldLeftEmpty
<1>3. \A s \in Seq(Int) : Sums!Folded(0, s) \in Int
  <2>1. \A m \in Int, n \in Int : Plus(m, n) \in Int
    BY DEF Plus
  <2>2. 0 \in Int
    OBVIOUS
  <2> HIDE DEF Plus
  <2>3. \A base \in Int, seq \in Seq(Int) : Sums!Folded(base, seq) \in Int
    BY <2>1, Sums!FoldLeftStays
  <2> QED BY <2>2, <2>3
<1>4. \A s \in Seq(Int), n \in Int : Sums!Folded(0, Append(s, n)) = Plus(Sums!Folded(0, s), n)
  BY Sums!FoldLeftAppend
<1> QED BY <1>1, <1>2, <1>3, <1>4 DEF Plus

\* Powers of an integer, one factor after the other (std::pow, Axis.cc:161).
LEMMA PowerIs ==
  ASSUME NEW n \in Int
  PROVE  /\ Power(n, 0) = 1
         /\ \A k \in Nat : Power(n, k) \in Int
         /\ \A k \in Nat : Power(n, k + 1) = Power(n, k) * n
<1> DEFINE Copies(k) == [i \in 1..k |-> n]
<1>1. \A k : Power(n, k) = Products!Folded(1, Copies(k))
  BY DEF Power, Products!Folded, FoldLeft, MapThenFoldSet, Max,
         Products!MapThenFoldSet, Products!Greatest, Times
<1>2. /\ \A k \in Nat : Copies(k) \in Seq(Int) /\ Copies(k + 1) = Append(Copies(k), n)
      /\ Copies(0) = <<>>
  <2>1. \A k \in Nat : Copies(k) \in Seq(Int) /\ Len(Copies(k)) = k
    OBVIOUS
  <2>2. ASSUME NEW k \in Nat PROVE Copies(k + 1) = Append(Copies(k), n)
    <3> DEFINE longer == Append(Copies(k), n)
    <3>1. longer \in Seq(Int) /\ Len(longer) = k + 1
      BY <2>1
    <3>2. \A i \in 1..k + 1 : longer[i] = n
      <4> TAKE i \in 1..k + 1
      <4>1. CASE i = k + 1
        BY <2>1, <4>1
      <4>2. CASE i \in 1..k
        BY <2>1, <4>2
      <4> QED BY <4>1, <4>2
    <3> QED BY <3>1, <3>2
  <2>3. Copies(0) = <<>>
    BY <2>1, NoElements
  <2> QED BY <2>1, <2>2, <2>3
<1> HIDE DEF Copies
<1>3. Power(n, 0) = 1
  BY <1>1, <1>2, Products!FoldLeftEmpty
<1>4. \A k \in Nat : Products!Folded(1, Copies(k)) \in Int
  <2>1. \A r \in Int, m \in Int : Times(r, m) \in Int
    BY DEF Times
  <2>2. \A base \in Int, seq \in Seq(Int) : Products!Folded(base, seq) \in Int
    BY <2>1, Products!FoldLeftStays
  <2> QED BY <1>2, <2>2
<1>5. \A k \in Nat : Products!Folded(1, Append(Copies(k), n))
                       = Times(Products!Folded(1, Copies(k)), n)
  <2>1. \A base : \A seq \in Seq(Int), x \in Int :
          Products!Folded(base, Append(seq, x)) = Times(Products!Folded(base, seq), x)
    BY Products!FoldLeftAppend
  <2> QED BY <1>2, <2>1
<1> QED BY <1>1, <1>2, <1>3, <1>4, <1>5 DEF Times

\* One step of Horner's rule.
LEMMA HornerStepIs ==
  ASSUME NEW acc \in Fractions, NEW c \in Int, NEW x \in Fractions
  PROVE  /\ HornerStep(acc, [c |-> c, x |-> x]) \in Fractions
         /\ HornerStep(acc, [c |-> c, x |-> x]).num = acc.num * x.num + c * (acc.den * x.den)
         /\ HornerStep(acc, [c |-> c, x |-> x]).den = acc.den * x.den
<1> DEFINE t == [c |-> c, x |-> x]
<1>1. t.c = c /\ t.x = x
  OBVIOUS
<1>2. acc.num \in Int /\ acc.den \in Int /\ x.num \in Int /\ x.den \in Int
  BY DEF Fractions
<1>3. HornerStep(acc, t) = Fraction(acc.num * x.num + c * acc.den * x.den, acc.den * x.den)
  BY <1>1 DEF HornerStep
<1> HIDE DEF t
<1>4. c * acc.den * x.den = c * (acc.den * x.den)
  BY <1>2
<1>5. acc.num * x.num \in Int /\ acc.den * x.den \in Int /\ c * (acc.den * x.den) \in Int
  BY <1>2
<1> HIDE DEF HornerStep
<1>6. HornerStep(acc, t) = Fraction(acc.num * x.num + c * (acc.den * x.den), acc.den * x.den)
  BY <1>3, <1>4
<1>7. \A m, n \in Int : Fraction(m, n) \in Fractions /\ Fraction(m, n).num = m
                          /\ Fraction(m, n).den = n
  BY DEF Fraction, Fractions
<1> QED BY <1>5, <1>6, <1>7 DEF t

\* Horner's rule goes through the values h[0], h[1], ..., whose denominators are
\* the powers of x's.
LEMMA HornerIs ==
  ASSUME NEW list \in Seq(Int), NEW x \in Fractions
  PROVE  \E h : /\ h[0].num = 0
                /\ \A k \in 0..Len(list) : h[k].num \in Int /\ h[k].den = Power(x.den, k)
                /\ \A k \in 1..Len(list) : h[k].num = h[k - 1].num * x.num
                                                        + list[k] * Power(x.den, k)
                /\ Horner(list, x) = h[Len(list)] /\ h[Len(list)] \in Fractions
<1> DEFINE n == Len(list)
           Terms == [c : Int, x : Fractions]
           terms == [i \in 1..n |-> [c |-> list[i], x |-> x]]
<1>1. n \in Nat /\ terms \in Seq(Terms) /\ Len(terms) = n /\ x.num \in Int /\ x.den \in Int
  BY DEF Fractions
<1>2. Horner(list, x) = Horners!Folded(Fraction(0, 1), terms)
  BY DEF Horner, Horners!Folded, FoldLeft, MapThenFoldSet, Max,
         Horners!MapThenFoldSet, Horners!Greatest
<1>4. \A k \in 1..n : terms[k] = [c |-> list[k], x |-> x] /\ list[k] \in Int
  OBVIOUS
<1> HIDE DEF terms, n, Terms
<1>3. PICK h : /\ h[0] = Fraction(0, 1)
               /\ \A k \in 1 .. Len(terms) : h[k] = HornerStep(h[k - 1], terms[k])
               /\ Horners!Folded(Fraction(0, 1), terms) = h[Len(terms)]
  <2>1. terms \in Seq(Terms)
    BY <1>1
  <2>2. \A base : \E f : /\ f[0] = base
                         /\ \A k \in 1 .. Len(terms) : f[k] = HornerStep(f[k - 1], terms[k])
                         /\ Horners!Folded(base, terms) = f[Len(terms)]
    BY <2>1, Horners!FoldLeftSteps
  <2> QED BY <2>2
<1> DEFINE Good == {k \in Nat : h[k] \in Fractions /\ h[k].den = Power(x.den, k)}
<1>5. 0 \in Good
  <2>1. h[0] \in Fractions /\ h[0].den = 1
    BY <1>3 DEF Fraction, Fractions
  <2> QED BY <2>1, <1>1, PowerIs
<1>6. ASSUME NEW k \in 0..n - 1, k \in Good PROVE k + 1 \in Good
  <2>1. k \in Nat /\ k + 1 \in 1..n /\ (k + 1) - 1 = k
    BY <1>1
  <2>2. h[k + 1] = HornerStep(h[k], [c |-> list[k + 1], x |-> x]) /\ list[k + 1] \in Int
    BY <1>1, <1>3, <1>4, <2>1
  <2>3. h[k] \in Fractions /\ h[k].den = Power(x.den, k)
    BY <1>6
  <2>4. h[k + 1] \in Fractions /\ h[k + 1].den = h[k].den * x.den
    BY <2>2, <2>3, HornerStepIs
  <2>5. Power(x.den, k + 1) = Power(x.den, k) * x.den
    BY <1>1, <2>1, PowerIs
  <2> QED BY <2>1, <2>3, <2>4, <2>5
<1>7. \A k \in 0..n : k \in Good
  <2> HIDE DEF Good
  <2> QED BY <1>1, <1>5, <1>6, Sums!CountingUp
<1>8. ASSUME NEW k \in 1..n
      PROVE  h[k].num = h[k - 1].num * x.num + list[k] * Power(x.den, k)
  <2>1. k - 1 \in 0..n /\ k - 1 \in Nat /\ (k - 1) + 1 = k
    BY <1>1
  <2>2. h[k - 1] \in Fractions /\ h[k - 1].den = Power(x.den, k - 1)
    BY <1>7, <2>1
  <2>3. h[k] = HornerStep(h[k - 1], [c |-> list[k], x |-> x]) /\ list[k] \in Int
    BY <1>1, <1>3, <1>4
  <2>4. h[k].num = h[k - 1].num * x.num + list[k] * (h[k - 1].den * x.den)
    BY <2>2, <2>3, HornerStepIs
  <2>5. Power(x.den, (k - 1) + 1) = Power(x.den, k - 1) * x.den
    BY <1>1, <2>1, PowerIs
  <2> QED BY <2>1, <2>2, <2>4, <2>5
<1>9. h[0].num = 0
  BY <1>3 DEF Fraction
<1>10. \A k \in 0..n : h[k].num \in Int /\ h[k].den = Power(x.den, k)
  BY <1>7 DEF Fractions
<1>11. Horner(list, x) = h[n] /\ h[n] \in Fractions
  BY <1>1, <1>2, <1>3, <1>7
<1> QED BY <1>8, <1>9, <1>10, <1>11 DEF n

\* What a step of the sum and a step of Horner's rule have in common.
LEMMA Regroup ==
  \A p, a, n, l, q, s \in Int :
    p * (a * n + l * q) + s = (p * n) * a + (s + l * p * q)
<1> SUFFICES ASSUME NEW p \in Int, NEW a \in Int, NEW n \in Int, NEW l \in Int,
                    NEW q \in Int, NEW s \in Int
             PROVE  p * (a * n + l * q) + s = (p * n) * a + (s + l * p * q)
  OBVIOUS
<1>1. p * (a * n + l * q) = p * (a * n) + p * (l * q)
  OBVIOUS
<1>2. p * (a * n) = (p * n) * a /\ p * (l * q) = l * p * q
  OBVIOUS
<1>3. (p * n) * a \in Int /\ l * p * q \in Int
  OBVIOUS
<1> QED BY <1>1, <1>2, <1>3

\* The reversed list evaluated as a sum of powers is the list, as its user wrote
\* it, by Horner's rule (set_coefficients, Axis.cc:61; map, Axis.cc:161).
LEMMA PolynomialIsHorner ==
  ASSUME NEW a, NEW list \in Seq(Int), NEW x \in Fractions,
         a.map_method = "polynomial", a.coefficients = Reverse(list)
  PROVE  MapValue(a, x) = Horner(list, x)
<1> DEFINE d == Len(list)
           c == Reverse(list)
           terms == [i \in 1..d |-> c[i] * Power(x.num, i - 1) * Power(x.den, d - i + 1)]
<1>1. /\ d \in Nat /\ c \in Seq(Int) /\ Len(c) = d
      /\ x.num \in Int /\ x.den \in Int
      /\ \A i \in 1..d : c[i] = list[d - i + 1] /\ list[i] \in Int /\ c[i] \in Int
  BY DEF Reverse, Fractions
<1>2. MapValue(a, x) = Fraction(FoldLeft(+, 0, terms), Power(x.den, d))
  <2>1. Len(a.coefficients) = d
    BY <1>1
  <2> QED BY <2>1 DEF MapValue
<1>3. \A i \in 1..d : terms[i] \in Int
  <2> TAKE i \in 1..d
  <2>1. i - 1 \in Nat /\ d - i + 1 \in Nat /\ c[i] \in Int
    BY <1>1
  <2>2. Power(x.num, i - 1) \in Int /\ Power(x.den, d - i + 1) \in Int
    BY <1>1, <2>1, PowerIs
  <2> HIDE DEF c
  <2>3. terms[i] = c[i] * Power(x.num, i - 1) * Power(x.den, d - i + 1)
    OBVIOUS
  <2> QED BY <2>1, <2>2, <2>3
<1>4. terms \in Seq(Int) /\ Len(terms) = d
  <2> HIDE DEF c
  <2>1. terms \in [1..d -> Int]
    <3>1. DOMAIN terms = 1..d /\ terms = [i \in 1..d |-> terms[i]]
      OBVIOUS
    <3> HIDE DEF terms
    <3> QED BY <1>3, <3>1
  <2> HIDE DEF terms
  <2> QED BY <1>1, <2>1
<1>5. FoldLeft(+, 0, terms) = Sums!Folded(0, terms)
  BY DEF Sums!Folded, FoldLeft, MapThenFoldSet, Max, Sums!MapThenFoldSet, Sums!Greatest, Plus
<1>6. \A i \in 0..d - 1 : terms[i + 1] = list[d - i] * Power(x.num, i) * Power(x.den, d - i)
  <2> TAKE i \in 0..d - 1
  <2>1. i + 1 \in 1..d /\ (i + 1) - 1 = i /\ d - (i + 1) + 1 = d - i
    BY <1>1
  <2>2. c[i + 1] = list[d - i]
    BY <1>1, <2>1
  <2> HIDE DEF c
  <2> QED BY <2>1, <2>2
<1> DEFINE total == FoldLeft(+, 0, terms)
<1>7. total = Sums!Folded(0, terms)
  BY <1>5
<1> HIDE DEF terms, c, d, total
<1>8. PICK s : /\ s[0] = 0
               /\ \A i \in 1 .. Len(terms) : s[i] = Plus(s[i - 1], terms[i])
               /\ Sums!Folded(0, terms) = s[Len(terms)]
  <2>1. \A base : \E f : /\ f[0] = base
                         /\ \A i \in 1 .. Len(terms) : f[i] = Plus(f[i - 1], terms[i])
                         /\ Sums!Folded(base, terms) = f[Len(terms)]
    <3>1. terms \in Seq(Int)
      BY <1>4
    <3> QED BY <3>1, Sums!FoldLeftSteps
  <2> QED BY <2>1
<1>9. PICK h : /\ h[0].num = 0
               /\ \A k \in 0..d : h[k].num \in Int /\ h[k].den = Power(x.den, k)
               /\ \A k \in 1..d : h[k].num = h[k - 1].num * x.num
                                               + list[k] * Power(x.den, k)
               /\ Horner(list, x) = h[d] /\ h[d] \in Fractions
  BY HornerIs DEF d
<1> DEFINE Agree == {i \in 0..d : s[i] \in Int /\ h[d].num = Power(x.num, i) * h[d - i].num + s[i]}
<1>10. 0 \in Agree
  <2>1. Power(x.num, 0) = 1 /\ h[d].num \in Int /\ d - 0 = d
    <3>1. d \in 0..d /\ d - 0 = d
      BY <1>1
    <3>2. h[d].num \in Int
      BY <1>9, <3>1
    <3>3. Power(x.num, 0) = 1
      BY <1>1, PowerIs
    <3> QED BY <3>1, <3>2, <3>3
  <2>2. 1 * h[d].num + 0 = h[d].num
    BY <2>1
  <2> QED BY <1>1, <1>8, <2>1, <2>2
<1>11. ASSUME NEW i \in 0..d - 1, i \in Agree PROVE i + 1 \in Agree
  <2>1. /\ i \in Nat /\ i + 1 \in 0..d /\ d - i \in 1..d /\ d - i - 1 \in 0..d
        /\ d - (i + 1) = d - i - 1 /\ d - i \in 0..d /\ i + 1 \in 1..d /\ (i + 1) - 1 = i
    BY <1>1
  <2>2. s[i] \in Int /\ h[d].num = Power(x.num, i) * h[d - i].num + s[i]
    BY <1>11
  <2>3. s[i + 1] = s[i] + terms[i + 1]
    BY <1>4, <1>8, <2>1 DEF Plus
  <2>4. h[d - i].num = h[d - i - 1].num * x.num + list[d - i] * Power(x.den, d - i)
    BY <1>9, <2>1
  <2>5. Power(x.num, i + 1) = Power(x.num, i) * x.num
    BY <1>1, <2>1, PowerIs
  <2>6. /\ Power(x.num, i) \in Int /\ Power(x.den, d - i) \in Int
        /\ list[d - i] \in Int /\ h[d - i - 1].num \in Int /\ x.num \in Int
        /\ terms[i + 1] \in Int /\ s[i] \in Int
    <3>1. Power(x.num, i) \in Int /\ Power(x.den, d - i) \in Int
      <4>1. d - i \in Nat
        BY <1>1, <2>1
      <4> QED BY <1>1, <2>1, <4>1, PowerIs
    <3>2. list[d - i] \in Int
      BY <1>1, <2>1
    <3>3. h[d - i - 1].num \in Int
      BY <1>9, <2>1
    <3>4. terms[i + 1] \in Int
      BY <1>3, <2>1
    <3> QED BY <1>1, <2>2, <3>1, <3>2, <3>3, <3>4
  <2>7. terms[i + 1] = list[d - i] * Power(x.num, i) * Power(x.den, d - i)
    BY <1>6
  <2>8. Power(x.num, i) * (h[d - i - 1].num * x.num + list[d - i] * Power(x.den, d - i)) + s[i]
          = (Power(x.num, i) * x.num) * h[d - i - 1].num
              + (s[i] + list[d - i] * Power(x.num, i) * Power(x.den, d - i))
    <3> DEFINE p == Power(x.num, i)
               b == h[d - i - 1].num
               n == x.num
               l == list[d - i]
               q == Power(x.den, d - i)
               u == s[i]
    <3>1. p \in Int /\ b \in Int /\ n \in Int /\ l \in Int /\ q \in Int /\ u \in Int
      BY <2>6
    <3> HIDE DEF p, b, n, l, q, u
    <3>2. p * (b * n + l * q) + u = (p * n) * b + (u + l * p * q)
      BY <3>1, Regroup
    <3> QED BY <3>2 DEF p, b, n, l, q, u
  <2>9. h[d].num = Power(x.num, i + 1) * h[d - (i + 1)].num + s[i + 1]
    BY <2>1, <2>2, <2>3, <2>4, <2>5, <2>7, <2>8
  <2> QED BY <2>1, <2>3, <2>6, <2>9
<1>12. \A i \in 0..d : i \in Agree
  <2> HIDE DEF Agree
  <2> QED BY <1>1, <1>10, <1>11, Sums!CountingUp
<1>13. s[d] \in Int /\ h[d].num = Power(x.num, d) * h[0].num + s[d]
  <2>1. d \in 0..d /\ d - d = 0
    BY <1>1
  <2> QED BY <1>12, <2>1
<1>14. h[d].num = s[d]
  <2>1. Power(x.num, d) \in Int /\ h[0].num = 0
    BY <1>1, <1>9, PowerIs
  <2>2. \A p \in Int : p * 0 = 0
    OBVIOUS
  <2> QED BY <1>13, <2>1, <2>2
<1>15. total = s[d]
  BY <1>4, <1>7, <1>8
<1>16. h[d] = Fraction(h[d].num, h[d].den)
  BY <1>9 DEF Fraction, Fractions
<1>17. h[d].den = Power(x.den, d)
  BY <1>1, <1>9
<1> QED BY <1>2, <1>9, <1>14, <1>15, <1>16, <1>17 DEF total

\* What map() makes of an axis' position is a fraction of integers.
LEMMA MapTypes ==
  ASSUME NEW a \in AxisRecords, NEW v \in Int,
         a.map_method = "polynomial" => \E list \in Seq(Int) : a.coefficients = Reverse(list)
  PROVE  MapRaw(a, v) \in Fractions
<1>1. LinearPart(a.raw, v) \in Fractions
  BY LinearTypes DEF AxisRecords
<1>2. CASE LinearPart(a.raw, v) = Throws \/ a.map_method # "polynomial"
  BY <1>1, <1>2 DEF MapRaw, Linear, MapValue
<1>3. CASE LinearPart(a.raw, v) # Throws /\ a.map_method = "polynomial"
  <2> DEFINE x == LinearPart(a.raw, v)
  <2>1. MapRaw(a, v) = MapValue(a, x)
    BY <1>3 DEF MapRaw, Linear
  <2>2. PICK list \in Seq(Int) : a.coefficients = Reverse(list)
    BY <1>3
  <2> HIDE DEF x
  <2>3. x \in Fractions
    BY <1>1 DEF x
  <2>4. MapValue(a, x) = Horner(list, x)
    BY <1>3, <2>2, <2>3, PolynomialIsHorner
  <2>5. Horner(list, x) \in Fractions
    BY <2>3, HornerIs
  <2> QED BY <2>1, <2>4, <2>5
<1> QED BY <1>2, <1>3

-----------------------------------------------------------------------------
(* The inductive invariant. *)

TypeOK ==
  /\ axis \in [Device -> AxisRecords]
  /\ given \in [Device -> Seq(Int)]
  /\ last \in [Device -> Int]
  /\ out \in [Device -> [raw_value : Int, value : Fractions]]
  /\ open \in [Device -> BOOLEAN]
  /\ loop \in [Device -> {"idle", "top", "blocked", "posting", "ended", "over"}]
  /\ pending \in [Device -> Nat] /\ events \in [Device -> Nat]
  /\ event \in [Device -> Int]
  /\ main \in {"new", "starting", "running", "returned", "gone"}
  /\ stopping \in [Device \cup {User} -> Seq(Device)]
  /\ posted \in [Device -> Seq(Int)]
  /\ moved \in [Device -> Int]
  /\ fault \in {"none", "throws", "gone"}

\* Nothing is posted, and no loop runs, while the user configures the axes.
Quiet == main = "new" => \A d \in Device : loop[d] = "idle" /\ posted[d] = <<>>

\* The coefficients are the user's list, reversed.
Programmed ==
  \A d \in Device :
    /\ axis[d].map_method = "polynomial" => axis[d].coefficients = Reverse(given[d])
    /\ given[d] # <<>> => axis[d].map_method = "polynomial"

\* What the axis remembers is what it needs of its history: a position for a
\* relative device that emulates an absolute axis, the previous position for an
\* absolute device that emulates a relative one.
Remembers(d) ==
  /\ posted[d] = <<>> => last[d] = 0 /\ moved[d] = 0
  /\ axis[d].type = Relative /\ axis[d].mode = Absolute => last[d] = Total(posted[d])
  /\ axis[d].type = Absolute /\ axis[d].mode = Relative =>
       /\ posted[d] # <<>> => last[d] = posted[d][Len(posted[d])]
       /\ NotClipped(axis[d], posted[d]) => moved[d] = last[d]

\* What an axis emitted last is what it makes of an integer, which is the
\* position it remembers when it emulates an absolute axis.
Emits(d) ==
  posted[d] # <<>> =>
    \E v \in Int : /\ out[d] = Emitted(axis[d], v) /\ out[d].value # Throws
                   /\ axis[d].type = Relative /\ axis[d].mode = Absolute => v = last[d]

IInv == /\ TypeOK /\ Quiet /\ Programmed
        /\ fault = "none" => \A d \in Device : Remembers(d) /\ Emits(d)

\* The sequence of devices.
LEMMA DevicesAre ==
  /\ Devices \in Seq(Device)
  /\ \A i \in DOMAIN Devices : Devices[i] \in Device
  /\ \A d \in Device : AbsInfo[d] \subseteq [value : Int, minimum : Int, maximum : Int]
                         /\ RawValues[d] \subseteq Int
<1>1. Devices \in Seq(Device) /\ \A d \in Device : AbsInfo[d] \subseteq [value : Int, minimum : Int, maximum : Int]
                         /\ RawValues[d] \subseteq Int
  BY InputAssumption DEF Device
<1>2. \A i \in DOMAIN Devices : Devices[i] \in Device
  BY DEF Device, ToSet
<1> QED BY <1>1, <1>2

\* An axis as the kernel and the constructors give it (EvDevController.cc:45-80).
LEMMA NewAxis ==
  ASSUME NEW d \in Device, NEW a \in EvDevAxes(d)
  PROVE  a \in AxisRecords /\ a.map_method \in {"none", "linear"} /\ a.mode = a.type
<1> DEFINE none == <<>>
<1>1. none \in Seq(Int)
  OBVIOUS
<1> HIDE DEF none
<1>2. \A r \in RawConfigs : [type |-> Absolute, mode |-> Absolute, raw |-> r,
                             map_method |-> "linear", coefficients |-> none] \in AxisRecords
  BY <1>1 DEF AxisRecords
<1>3. [type |-> Relative, mode |-> Relative, raw |-> RawConfig(0, 0, 0),
       map_method |-> "none", coefficients |-> none] \in AxisRecords
  <2>1. RawConfig(0, 0, 0) \in RawConfigs
    BY DEF RawConfig, RawConfigs
  <2> QED BY <1>1, <2>1 DEF AxisRecords
<1>4. CASE a = PlainAxis(Relative)
  BY <1>3, <1>4 DEF PlainAxis, none
<1>5. CASE a # PlainAxis(Relative)
  <2>1. PICK i \in AbsInfo[d] : a = LinearAxis(RawConfig(i.value, i.minimum, i.maximum))
    BY <1>5 DEF EvDevAxes
  <2>2. RawConfig(i.value, i.minimum, i.maximum) \in RawConfigs
    BY DevicesAre DEF RawConfig, RawConfigs
  <2> DEFINE r == RawConfig(i.value, i.minimum, i.maximum)
  <2> HIDE DEF r
  <2>3. a = [type |-> Absolute, mode |-> Absolute, raw |-> r,
             map_method |-> "linear", coefficients |-> none]
    BY <2>1 DEF LinearAxis, none, r
  <2> QED BY <1>2, <2>2, <2>3 DEF r
<1> QED BY <1>4, <1>5

\* At first nothing was configured and nothing posted.
LEMMA InitInv == Init => IInv
<1> SUFFICES ASSUME Init PROVE IInv
  OBVIOUS
<1> DEFINE none == <<>>
<1>1. none \in Seq(Int) /\ none \in Seq(Device) /\ Fraction(0, 1) \in Fractions
  BY DEF Fraction, Fractions
<1>2. \A d \in Device : axis[d] \in EvDevAxes(d)
  BY DEF Init
<1>3. \A d \in Device : /\ axis[d] \in AxisRecords /\ axis[d].mode = axis[d].type
                        /\ axis[d].map_method # "polynomial"
  BY <1>2, NewAxis
<1>4. axis \in [Device -> AxisRecords]
  <2>1. axis \in [Device -> UNION {EvDevAxes(d) : d \in Device}]
    BY DEF Init
  <2> QED BY <1>3, <2>1
<1>5. /\ given = [d \in Device |-> none] /\ posted = [d \in Device |-> none]
      /\ stopping = [t \in Device \cup {User} |-> none]
  BY DEF Init
<1> HIDE DEF none
<1>6. /\ given \in [Device -> Seq(Int)] /\ posted \in [Device -> Seq(Int)]
      /\ stopping \in [Device \cup {User} -> Seq(Device)]
  BY <1>1, <1>5
<1>7. out \in [Device -> [raw_value : Int, value : Fractions]]
  BY <1>1 DEF Init
<1>8. TypeOK
  BY <1>4, <1>6, <1>7 DEF Init, TypeOK
<1>9. Quiet
  BY <1>5 DEF Init, Quiet, none
<1>10. Programmed
  BY <1>3, <1>5 DEF Programmed, none
<1>11. \A d \in Device : Remembers(d) /\ Emits(d)
  <2> TAKE d \in Device
  <2>1. axis[d].mode = axis[d].type /\ posted[d] = <<>> /\ last[d] = 0 /\ moved[d] = 0
    BY <1>3, <1>5 DEF Init, none
  <2> QED BY <2>1 DEF Remembers, Emits, Absolute, Relative
<1> QED BY <1>8, <1>9, <1>10, <1>11 DEF IInv

\* Steps that change no axis, nor what is known of it.
LEMMA OtherSteps ==
  ASSUME IInv, TypeOK', Quiet', UNCHANGED <<axis, given, last, out, posted, moved>>,
         fault' = "none" => fault = "none"
  PROVE  IInv'
<1>1. Programmed'
  BY DEF IInv, Programmed
<1>2. ASSUME fault' = "none", NEW d \in Device PROVE Remembers(d)' /\ Emits(d)'
  <2>1. Remembers(d) /\ Emits(d)
    BY <1>2 DEF IInv
  <2>2. Remembers(d)'
    BY <2>1 DEF Remembers, NotClipped
  <2>3. Emits(d)'
    BY <2>1 DEF Emits
  <2> QED BY <2>2, <2>3
<1> QED BY <1>1, <1>2 DEF IInv

\* The user configures an axis; nothing was posted yet (Axis.hh:78, Axis.cc:61-76).
LEMMA ConfigureStep ==
  ASSUME IInv, NEW d \in Device, Configure(d)
  PROVE  IInv'
<1>1. /\ TypeOK /\ Quiet /\ Programmed
      /\ main = "new" /\ UNCHANGED <<last, out, posted, moved, open, loop, pending, event,
                                     events, main, stopping, fault>>
  BY DEF IInv, Configure, Reading, Running
<1>2. \A r \in RawConfigs, a \in AxisRecords : [a EXCEPT !.raw = r] \in AxisRecords
  BY DEF AxisRecords
<1>3. \A a \in AxisRecords : [a EXCEPT !.mode = Other(@)] \in AxisRecords
  BY DEF AxisRecords, Other
<1>4. \A a \in AxisRecords, list \in Seq(Int) :
        /\ set_coefficients(a, list) \in AxisRecords
        /\ set_coefficients(a, list).map_method = "polynomial"
        /\ set_coefficients(a, list).coefficients = Reverse(list)
  <2> TAKE a \in AxisRecords, list \in Seq(Int)
  <2> DEFINE c == Reverse(list)
  <2>1. c \in Seq(Int)
    BY DEF Reverse
  <2> HIDE DEF c
  <2>2. [a EXCEPT !.map_method = "polynomial", !.coefficients = c] \in AxisRecords
    BY <2>1 DEF AxisRecords
  <2>3. set_coefficients(a, list) = [a EXCEPT !.map_method = "polynomial", !.coefficients = c]
    BY DEF set_coefficients, c
  <2>4. set_coefficients(a, list).map_method = "polynomial" /\ set_coefficients(a, list).coefficients = c
    BY <2>3 DEF AxisRecords
  <2> QED BY <2>2, <2>3, <2>4 DEF c
<1>5. axis \in [Device -> AxisRecords] /\ given \in [Device -> Seq(Int)]
  BY <1>1 DEF TypeOK
<1>6. /\ axis' \in [Device -> AxisRecords] /\ given' \in [Device -> Seq(Int)]
      /\ Programmed'
  <2>1. CASE given' = given /\ axis' = [axis EXCEPT ![d].mode = Other(@)]
    <3>1. axis' = [axis EXCEPT ![d] = [axis[d] EXCEPT !.mode = Other(@)]]
      BY <2>1
    <3>2. axis' \in [Device -> AxisRecords]
      BY <1>3, <1>5, <3>1
    <3>3. \A e \in Device : /\ axis'[e].map_method = axis[e].map_method
                            /\ axis'[e].coefficients = axis[e].coefficients
      BY <1>5, <2>1 DEF AxisRecords
    <3> QED BY <1>1, <1>5, <2>1, <3>2, <3>3 DEF Programmed
  <2>2. ASSUME given' = given, NEW i \in AbsInfo[d],
               axis' = [axis EXCEPT ![d].raw = RawConfig(i.value, i.minimum, i.maximum)]
        PROVE  axis' \in [Device -> AxisRecords] /\ given' \in [Device -> Seq(Int)] /\ Programmed'
    <3> DEFINE r == RawConfig(i.value, i.minimum, i.maximum)
    <3>1. r \in RawConfigs
      BY DevicesAre DEF RawConfig, RawConfigs
    <3> HIDE DEF r
    <3>2. axis' = [axis EXCEPT ![d] = [axis[d] EXCEPT !.raw = r]]
      BY <2>2 DEF r
    <3>3. axis' \in [Device -> AxisRecords]
      BY <1>2, <1>5, <3>1, <3>2
    <3>4. \A e \in Device : /\ axis'[e].map_method = axis[e].map_method
                            /\ axis'[e].coefficients = axis[e].coefficients
      BY <1>5, <3>2 DEF AxisRecords
    <3> QED BY <1>1, <1>5, <2>2, <3>3, <3>4 DEF Programmed
  <2>3. ASSUME NEW list \in Coefficients,
               axis' = [axis EXCEPT ![d] = set_coefficients(@, list)],
               given' = [given EXCEPT ![d] = list]
        PROVE  axis' \in [Device -> AxisRecords] /\ given' \in [Device -> Seq(Int)] /\ Programmed'
    <3>1. list \in Seq(Int)
      BY InputAssumption
    <3>2. axis' \in [Device -> AxisRecords] /\ given' \in [Device -> Seq(Int)]
      BY <1>4, <1>5, <2>3, <3>1
    <3>3. axis'[d].map_method = "polynomial" /\ axis'[d].coefficients = Reverse(given'[d])
      BY <1>4, <1>5, <2>3, <3>1
    <3>4. \A e \in Device : e # d => axis'[e] = axis[e] /\ given'[e] = given[e]
      BY <1>5, <2>3
    <3> QED BY <1>1, <3>2, <3>3, <3>4 DEF Programmed
  <2> QED BY <2>1, <2>2, <2>3 DEF Configure
<1>7. TypeOK'
  BY <1>1, <1>6 DEF TypeOK
<1>8. Quiet' /\ \A e \in Device : posted'[e] = <<>>
  BY <1>1 DEF Quiet
<1>9. ASSUME fault' = "none", NEW e \in Device PROVE Remembers(e)' /\ Emits(e)'
  <2>1. posted[e] = <<>> /\ posted'[e] = <<>> /\ last'[e] = 0 /\ moved'[e] = 0
    BY <1>1, <1>8, <1>9 DEF IInv, Remembers
  <2> QED BY <2>1, TotalIs DEF Remembers, Emits
<1> QED BY <1>6, <1>7, <1>8, <1>9 DEF IInv

\* What an axis emits: a position, clipped if it has a range to stay in, and its
\* value (Axis.cc:188-196).
LEMMA EmittedTypes ==
  ASSUME NEW a \in AxisRecords, NEW v \in Int,
         a.map_method = "polynomial" => \E list \in Seq(Int) : a.coefficients = Reverse(list)
  PROVE  Emitted(a, v) \in [raw_value : Int, value : Fractions]
<1>1. Clip(a.raw, v) \in Int
  BY EmulationTypes
<1> DEFINE raw == IF a.type = Absolute \/ a.mode = Absolute THEN Clip(a.raw, v) ELSE v
<1>2. raw \in Int
  BY <1>1
<1> HIDE DEF raw
<1>3. MapRaw(a, raw) \in Fractions
  BY <1>2, MapTypes
<1>4. Fraction(0, 1) \in Fractions
  BY DEF Fraction, Fractions
<1> DEFINE value == IF a.map_method = "none" THEN Fraction(0, 1) ELSE MapRaw(a, raw)
<1>5. value \in Fractions
  BY <1>3, <1>4
<1> HIDE DEF value
<1>6. Emitted(a, v) = [raw_value |-> raw, value |-> value]
  BY DEF Emitted, raw, value
<1> QED BY <1>2, <1>5, <1>6

\* A history without clipping, with one more value, is one without clipping
\* before, and its last movement was not clipped.
LEMMA NotClippedAppend ==
  ASSUME NEW a, NEW s \in Seq(Int), NEW v \in Int, NotClipped(a, Append(s, v))
  PROVE  /\ NotClipped(a, s)
         /\ s = <<>> => Clip(a.raw, v - 0) = v - 0
         /\ s # <<>> => Clip(a.raw, v - s[Len(s)]) = v - s[Len(s)]
<1> DEFINE longer == Append(s, v)
           n == Len(s)
<1>1. /\ n \in Nat /\ DOMAIN s = 1..n /\ DOMAIN longer = 1..n + 1
      /\ longer[n + 1] = v /\ \A i \in 1..n : longer[i] = s[i]
      /\ s = <<>> <=> n = 0
  BY NoElements
<1>2. \A i \in 1..n + 1 :
        Clip(a.raw, longer[i] - (IF i = 1 THEN 0 ELSE longer[i - 1]))
          = longer[i] - (IF i = 1 THEN 0 ELSE longer[i - 1])
  BY <1>1 DEF NotClipped
<1> HIDE DEF longer, n
<1>3. NotClipped(a, s)
  <2> SUFFICES ASSUME NEW i \in 1..n
               PROVE  Clip(a.raw, s[i] - (IF i = 1 THEN 0 ELSE s[i - 1]))
                        = s[i] - (IF i = 1 THEN 0 ELSE s[i - 1])
    BY <1>1 DEF NotClipped
  <2>1. i \in 1..n + 1 /\ (i # 1 => i - 1 \in 1..n) /\ longer[i] = s[i]
    BY <1>1
  <2>2. i # 1 => longer[i - 1] = s[i - 1]
    BY <1>1, <2>1
  <2> QED BY <1>2, <2>1, <2>2
<1>4. n + 1 \in 1..n + 1 /\ (n + 1) - 1 = n /\ (n + 1 = 1 <=> n = 0)
  BY <1>1
<1>5. Clip(a.raw, v - (IF n = 0 THEN 0 ELSE longer[n])) = v - (IF n = 0 THEN 0 ELSE longer[n])
  BY <1>1, <1>2, <1>4
<1>6. n # 0 => longer[n] = s[n]
  BY <1>1
<1> QED BY <1>1, <1>3, <1>5, <1>6 DEF n

\* Axis::post (Axis.cc:169-197).
LEMMA PostAxisStep ==
  ASSUME IInv, fault = "none", NEW d \in Device, PostAxis(d)
  PROVE  IInv'
<1> DEFINE a == axis[d]
           v == event[d]
           e == Emulate(a, last[d], v)
           state == Emitted(a, e.value)
<1>1. TypeOK /\ Quiet /\ Programmed /\ Remembers(d)
  BY DEF IInv
<1>2. /\ a \in AxisRecords /\ v \in Int /\ last[d] \in Int /\ posted[d] \in Seq(Int)
      /\ moved[d] \in Int /\ given[d] \in Seq(Int) /\ loop[d] = "posting"
  BY <1>1 DEF TypeOK, PostAxis
<1>3. /\ last' = [last EXCEPT ![d] = e.last]
      /\ posted' = [posted EXCEPT ![d] = Append(@, v)]
      /\ event' = [event EXCEPT ![d] = 0]
      /\ UNCHANGED <<axis, given, open, pending, events, main, stopping>>
      /\ IF state.value = Throws
           THEN fault' = "throws" /\ UNCHANGED <<out, moved, loop>>
           ELSE /\ out' = [out EXCEPT ![d] = state]
                /\ moved' = [moved EXCEPT ![d] = @ + state.raw_value]
                /\ loop' = [loop EXCEPT ![d] = "top"]
                /\ fault' = fault
  BY DEF PostAxis, Running
<1>4. e.value \in Int /\ e.last \in Int
  BY <1>2, EmulationTypes
<1>5. a.map_method = "polynomial" => \E list \in Seq(Int) : a.coefficients = Reverse(list)
  BY <1>1, <1>2 DEF Programmed
<1>6. /\ a.mode = a.type => e.value = v
      /\ a.mode = Relative /\ a.type = Absolute => e.value = v - last[d] /\ e.last = v
      /\ a.mode = Absolute /\ a.type = Relative => e.value = v + last[d] /\ e.last = v + last[d]
  BY DEF Emulate, Emulated, Absolute, Relative
<1> HIDE DEF e
<1>7. state \in [raw_value : Int, value : Fractions]
  BY <1>2, <1>4, <1>5, EmittedTypes
<1>8. a.type = Absolute => state.raw_value = Clip(a.raw, e.value)
  BY DEF Emitted
<1> HIDE DEF state, a, v
<1>9. TypeOK'
  <2>1. /\ last' \in [Device -> Int] /\ event' \in [Device -> Int]
        /\ posted' \in [Device -> Seq(Int)]
    BY <1>1, <1>2, <1>3, <1>4 DEF TypeOK
  <2>2. /\ out' \in [Device -> [raw_value : Int, value : Fractions]]
        /\ moved' \in [Device -> Int]
        /\ loop' \in [Device -> {"idle", "top", "blocked", "posting", "ended", "over"}]
        /\ fault' \in {"none", "throws", "gone"}
    <3>1. CASE state.value = Throws
      BY <1>1, <1>3, <3>1 DEF TypeOK
    <3>2. CASE state.value # Throws
      <4>1. state.raw_value \in Int
        BY <1>7
      <4>2. out' \in [Device -> [raw_value : Int, value : Fractions]]
        BY <1>1, <1>3, <1>7, <3>2 DEF TypeOK
      <4>3. moved' \in [Device -> Int]
        <5>1. moved' = [moved EXCEPT ![d] = moved[d] + state.raw_value]
          BY <1>3, <3>2
        <5>2. moved[d] + state.raw_value \in Int /\ moved \in [Device -> Int]
          BY <1>1, <1>2, <4>1 DEF TypeOK
        <5> QED BY <5>1, <5>2
      <4>4. loop' \in [Device -> {"idle", "top", "blocked", "posting", "ended", "over"}]
        BY <1>1, <1>3, <3>2 DEF TypeOK
      <4> QED BY <1>1, <1>3, <3>2, <4>2, <4>3, <4>4 DEF TypeOK
    <3> QED BY <3>1, <3>2
  <2> QED BY <1>1, <1>3, <2>1, <2>2 DEF TypeOK
<1>10. Quiet'
  BY <1>1, <1>2, <1>3 DEF Quiet
<1>11. Programmed'
  BY <1>1, <1>3 DEF Programmed
<1>12. ASSUME fault' = "none", NEW c \in Device, c # d PROVE Remembers(c)' /\ Emits(c)'
  <2>1. Remembers(c) /\ Emits(c)
    BY DEF IInv
  <2>2. /\ axis'[c] = axis[c] /\ last'[c] = last[c] /\ posted'[c] = posted[c]
        /\ out'[c] = out[c] /\ moved'[c] = moved[c]
    BY <1>1, <1>3, <1>12 DEF TypeOK
  <2>3. Remembers(c)'
    BY <2>1, <2>2 DEF Remembers, NotClipped
  <2>4. Emits(c)'
    BY <2>1, <2>2 DEF Emits
  <2> QED BY <2>3, <2>4
<1>13. ASSUME fault' = "none" PROVE Remembers(d)' /\ Emits(d)'
  <2>1. /\ state.value # Throws /\ out'[d] = state /\ moved'[d] = moved[d] + state.raw_value
        /\ last'[d] = e.last /\ posted'[d] = Append(posted[d], v) /\ axis'[d] = a
    BY <1>1, <1>3, <1>13 DEF TypeOK, a
  <2>2. /\ posted'[d] # <<>> /\ posted'[d][Len(posted'[d])] = v
        /\ Total(posted'[d]) = Total(posted[d]) + v /\ Total(posted[d]) \in Int
    <3>1. Total(posted'[d]) = Total(posted[d]) + v /\ Total(posted[d]) \in Int
      BY <1>2, <2>1, TotalIs
    <3>2. Len(Append(posted[d], v)) = Len(posted[d]) + 1 /\ Len(posted[d]) \in Nat
      BY <1>2
    <3>3. Append(posted[d], v)[Len(posted[d]) + 1] = v
      BY <1>2
    <3>4. Append(posted[d], v) # <<>>
      BY <3>2
    <3> QED BY <2>1, <3>1, <3>2, <3>3, <3>4
  <2>3. Emits(d)'
    <3>1. a.type = Relative /\ a.mode = Absolute => e.value = last'[d]
      BY <1>6, <2>1
    <3>2. out'[d] = Emitted(a, e.value) /\ out'[d].value # Throws
      BY <2>1 DEF state
    <3> QED BY <1>4, <2>1, <3>1, <3>2 DEF Emits
  <2>4. a.type = Relative /\ a.mode = Absolute => last'[d] = Total(posted'[d])
    BY <1>1, <1>2, <1>6, <2>1, <2>2 DEF Remembers, a
  <2>5. ASSUME a.type = Absolute, a.mode = Relative, NotClipped(a, posted'[d])
        PROVE  moved'[d] = last'[d]
    <3>1. NotClipped(a, Append(posted[d], v))
      BY <2>1, <2>5
    <3>2. /\ NotClipped(a, posted[d])
          /\ posted[d] = <<>> => Clip(a.raw, v - 0) = v - 0
          /\ posted[d] # <<>> => Clip(a.raw, v - posted[d][Len(posted[d])])
                                   = v - posted[d][Len(posted[d])]
      BY <1>2, <3>1, NotClippedAppend
    <3>3. moved[d] = last[d]
      BY <1>1, <2>5, <3>2 DEF Remembers, a
    <3>4. Clip(a.raw, v - last[d]) = v - last[d]
      BY <1>1, <2>5, <3>2 DEF Remembers, a
    <3>5. state.raw_value = v - last[d] /\ e.last = v
      BY <1>6, <1>8, <2>5, <3>4
    <3> QED BY <1>2, <2>1, <3>3, <3>5
  <2>6. a.type = Absolute /\ a.mode = Relative => last'[d] = posted'[d][Len(posted'[d])]
    BY <1>6, <2>1, <2>2
  <2>7. Remembers(d)'
    BY <2>1, <2>2, <2>4, <2>5, <2>6 DEF Remembers
  <2> QED BY <2>3, <2>7
<1> QED BY <1>9, <1>10, <1>11, <1>12, <1>13 DEF IInv

\* The loops of the devices and the multiplexer leave the axes alone
\* (EvDevController.cc, MultiplexController.cc).
LEMMA LoopSteps ==
  ASSUME IInv, NEW d \in Device,
         Arrive(d) \/ Fail(d) \/ Enter(d) \/ (\E v \in RawValues[d] : Wake(d, v))
           \/ PostButton(d) \/ StopsAll(d)
  PROVE  TypeOK' /\ Quiet' /\ UNCHANGED <<axis, given, last, out, posted, moved>>
<1>1. TypeOK /\ Quiet
  BY DEF IInv
<1>2. CASE Arrive(d)
  BY <1>1, <1>2 DEF TypeOK, Quiet, Arrive, Axes, Running
<1>3. CASE Enter(d)
  <2>1. loop'[d] \in {"blocked", "ended"} /\ loop' = [loop EXCEPT ![d] = loop'[d]]
    BY <1>1, <1>3 DEF TypeOK, Enter
  <2>2. main # "new"
    BY <1>1, <1>3 DEF Quiet, Enter
  <2> QED BY <1>1, <1>3, <2>1, <2>2 DEF TypeOK, Quiet, Enter, Axes, Running
<1>4. ASSUME NEW v \in RawValues[d], Wake(d, v)
      PROVE  TypeOK' /\ Quiet' /\ UNCHANGED <<axis, given, last, out, posted, moved>>
  <2>1. v \in Int
    BY DevicesAre
  <2>2. main # "new"
    BY <1>1, <1>4 DEF Quiet, Wake
  <2>3. UNCHANGED <<axis, given, last, out, posted, moved, open, events, main, stopping, fault>>
    BY <1>4 DEF Wake, Axes, Running
  <2>4. /\ loop' \in [Device -> {"idle", "top", "blocked", "posting", "ended", "over"}]
        /\ event' \in [Device -> Int] /\ pending' \in [Device -> Nat]
    <3>1. CASE open[d]
      <4>1. pending[d] - 1 \in Nat
        BY <1>1, <1>4 DEF TypeOK, Wake
      <4>2. /\ loop' = [loop EXCEPT ![d] = "posting"]
            /\ event' = [event EXCEPT ![d] = v]
            /\ pending' = [pending EXCEPT ![d] = pending[d] - 1]
        BY <1>4, <3>1 DEF Wake
      <4>3. /\ loop \in [Device -> {"idle", "top", "blocked", "posting", "ended", "over"}]
            /\ event \in [Device -> Int] /\ pending \in [Device -> Nat]
        BY <1>1 DEF TypeOK
      <4>4. pending' \in [Device -> Nat]
        BY <4>1, <4>2, <4>3
      <4>5. event' \in [Device -> Int]
        BY <2>1, <4>2, <4>3
      <4>6. loop' \in [Device -> {"idle", "top", "blocked", "posting", "ended", "over"}]
        BY <4>2, <4>3
      <4> QED BY <4>4, <4>5, <4>6
    <3>2. CASE ~open[d]
      BY <1>1, <1>4, <3>2 DEF TypeOK, Wake
    <3> QED BY <3>1, <3>2
  <2> QED BY <1>1, <2>2, <2>3, <2>4 DEF TypeOK, Quiet
<1>5. CASE PostButton(d)
  <2>1. main # "new"
    BY <1>1, <1>5 DEF Quiet, PostButton
  <2> QED BY <1>1, <1>5, <2>1 DEF TypeOK, Quiet, PostButton, Axes, Running
<1>6. CASE StopsAll(d)
  <2>1. main # "new"
    BY <1>1, <1>6 DEF Quiet, StopsAll
  <2>2. stopping' \in [Device \cup {User} -> Seq(Device)] /\ fault' \in {"none", "throws", "gone"}
    BY <1>1, <1>6, DevicesAre DEF TypeOK, StopsAll
  <2> QED BY <1>1, <1>6, <2>1, <2>2 DEF TypeOK, Quiet, StopsAll, Axes
<1>7. CASE Fail(d)
  <2>1. main # "new"
    BY <1>1, <1>7 DEF Quiet, Fail
  <2> QED BY <1>1, <1>7, <2>1 DEF TypeOK, Quiet, Fail, Axes, Running
<1> QED BY <1>2, <1>3, <1>4, <1>5, <1>6, <1>7

\* So do the threads of the multiplexer and its user (MultiplexController.cc).
LEMMA MultiplexSteps ==
  ASSUME IInv,
         (\E i \in DOMAIN Devices : Spawn(i)) \/ ReturnFromRun \/ Destroy \/ UserStop
           \/ (\E t \in Device \cup {User} : CloseNext(t))
  PROVE  TypeOK' /\ Quiet' /\ UNCHANGED <<axis, given, last, out, posted, moved>>
<1>1. TypeOK /\ Quiet
  BY DEF IInv
<1>2. ASSUME NEW i \in DOMAIN Devices, Spawn(i)
      PROVE  TypeOK' /\ Quiet' /\ UNCHANGED <<axis, given, last, out, posted, moved>>
  <2>1. Devices[i] \in Device
    BY DevicesAre
  <2>2. main' \in {"starting", "running"}
    BY <1>2 DEF Spawn
  <2> QED BY <1>1, <1>2, <2>1, <2>2 DEF TypeOK, Quiet, Spawn, Axes
<1>3. CASE ReturnFromRun
  BY <1>1, <1>3 DEF TypeOK, Quiet, ReturnFromRun, Axes, Reading
<1>4. CASE Destroy
  BY <1>1, <1>4 DEF TypeOK, Quiet, Destroy, Axes, Reading
<1>5. CASE UserStop
  BY <1>1, <1>5, DevicesAre DEF TypeOK, Quiet, UserStop, Axes, Reading
<1>6. ASSUME NEW t \in Device \cup {User}, CloseNext(t)
      PROVE  TypeOK' /\ Quiet' /\ UNCHANGED <<axis, given, last, out, posted, moved>>
  <2>1. stopping[t] \in Seq(Device) /\ stopping[t] # <<>>
    BY <1>1, <1>6 DEF TypeOK, CloseNext, CloseThen
  <2>2. Tail(stopping[t]) \in Seq(Device)
    BY <2>1
  <2> DEFINE rest == Tail(stopping[t])
  <2>3. CloseThen(t, rest)
    BY <1>6 DEF CloseNext
  <2> HIDE DEF rest
  <2>4. open' \in [Device -> BOOLEAN] /\ stopping' \in [Device \cup {User} -> Seq(Device)]
        /\ fault' \in {"none", "throws", "gone"}
    BY <1>1, <2>2, <2>3 DEF TypeOK, CloseThen, rest
  <2>5. UNCHANGED <<axis, given, last, out, posted, moved, loop, pending, event, events, main>>
    BY <2>3 DEF CloseThen, Axes
  <2> QED BY <1>1, <2>4, <2>5 DEF TypeOK, Quiet
<1> QED BY <1>2, <1>3, <1>4, <1>5, <1>6

-----------------------------------------------------------------------------
(* The theorems. *)

\* Every step keeps the invariant.
LEMMA NextInv == IInv /\ [Next]_vars => IInv'
<1> SUFFICES ASSUME IInv, [Next]_vars PROVE IInv'
  OBVIOUS
<1>1. CASE UNCHANGED vars
  <2>1. TypeOK' /\ Quiet'
    BY <1>1 DEF IInv, TypeOK, Quiet, vars
  <2> QED BY <1>1, <2>1, OtherSteps DEF vars
<1>2. CASE Next
  <2>1. fault = "none"
    BY <1>2 DEF Next
  <2>2. ASSUME NEW d \in Device, Configure(d) PROVE IInv'
    BY <2>2, ConfigureStep
  <2>3. ASSUME NEW d \in Device, PostAxis(d) PROVE IInv'
    BY <2>1, <2>3, PostAxisStep
  <2>4. ASSUME NEW d \in Device,
               Arrive(d) \/ Fail(d) \/ Enter(d) \/ (\E v \in RawValues[d] : Wake(d, v))
                 \/ PostButton(d) \/ StopsAll(d)
        PROVE  IInv'
    BY <2>1, <2>4, LoopSteps, OtherSteps
  <2>5. ASSUME (\E i \in DOMAIN Devices : Spawn(i)) \/ ReturnFromRun \/ Destroy \/ UserStop
                 \/ (\E t \in Device \cup {User} : CloseNext(t))
        PROVE  IInv'
    BY <2>1, <2>5, MultiplexSteps, OtherSteps
  <2> QED BY <1>2, <2>2, <2>3, <2>4, <2>5 DEF Next, Step
<1> QED BY <1>1, <1>2

\* The invariant holds in every state.
LEMMA Inductive == Spec => []IInv
<1> QED BY InitInv, NextInv, PTL DEF Spec

\* Every state is well formed: the axes' records, what they emit, the loops and
\* what stop() has to close are of the kinds that Axis, EvDevController and
\* MultiplexController give them.
THEOREM TypeCorrect == Spec => []TypeOK
<1>1. IInv => TypeOK
  BY DEF IInv
<1> QED BY <1>1, Inductive, PTL

\* A relative device that emulates an absolute axis stands where its movements
\* add up to, clipped, whatever the movements (Axis.cc:182-191).
THEOREM PositionIsTotal == Spec => []EmulatedPositionIsTotal
<1>1. ASSUME IInv PROVE EmulatedPositionIsTotal
  <2> SUFFICES ASSUME NEW d \in Device, axis[d].type = Relative, axis[d].mode = Absolute,
                      posted[d] # <<>>, fault = "none"
               PROVE  out[d].raw_value = Clip(axis[d].raw, Total(posted[d]))
    BY DEF EmulatedPositionIsTotal
  <2>1. Remembers(d) /\ Emits(d)
    BY <1>1 DEF IInv
  <2>2. out[d] = Emitted(axis[d], last[d]) /\ last[d] = Total(posted[d])
    BY <2>1 DEF Remembers, Emits
  <2> QED BY <2>2 DEF Emitted
<1> QED BY <1>1, Inductive, PTL

\* An absolute device that emulates a relative one reports movements that add up
\* to its position, however many, if none was clipped (Axis.cc:177-191).
THEOREM MovesAddUp == Spec => []EmulatedMovesAddUp
<1>1. ASSUME IInv PROVE EmulatedMovesAddUp
  BY <1>1 DEF IInv, Remembers, EmulatedMovesAddUp
<1> QED BY <1>1, Inductive, PTL

\* The linear mapping of an axis of absolute style stays between -1 and 1 for
\* every range whose neutral point lies within it, and maps the neutral point
\* to 0 (Axis.hh:149).
THEOREM LinearStaysInRange == Spec => []LinearInRange
<1>1. ASSUME IInv PROVE LinearInRange
  <2> SUFFICES ASSUME NEW d \in Device, axis[d].map_method = "linear",
                      axis[d].mode = Absolute, Wellformed(axis[d].raw),
                      posted[d] # <<>>, fault = "none"
               PROVE  /\ Magnitude(out[d].value.num) <= Magnitude(out[d].value.den)
                      /\ out[d].raw_value = axis[d].raw.neutral => out[d].value.num = 0
    BY DEF LinearInRange
  <2> DEFINE r == axis[d].raw
  <2>1. axis[d] \in AxisRecords /\ r \in RawConfigs
    BY <1>1 DEF IInv, TypeOK, AxisRecords
  <2>2. PICK v \in Int : out[d] = Emitted(axis[d], v)
    BY <1>1 DEF IInv, Emits
  <2>3. Clip(r, v) \in Int /\ r.minimum <= Clip(r, v) /\ Clip(r, v) <= r.maximum
    BY <2>1 DEF Clip, Smallest, Largest, Wellformed, RawConfigs
  <2>4. out[d].raw_value = Clip(r, v) /\ out[d].value = MapRaw(axis[d], Clip(r, v))
    BY <2>2 DEF Emitted
  <2>5. out[d].value = LinearPart(r, Clip(r, v))
    BY <2>4 DEF MapRaw, Linear, MapValue
  <2> HIDE DEF r
  <2>6. Wellformed(r)
    BY DEF r
  <2>7. /\ Magnitude(LinearPart(r, Clip(r, v)).num) <= Magnitude(LinearPart(r, Clip(r, v)).den)
        /\ Clip(r, v) = r.neutral => LinearPart(r, Clip(r, v)).num = 0
    BY <2>1, <2>3, <2>6, LinearWithin
  <2> QED BY <2>4, <2>5, <2>7 DEF r
<1> QED BY <1>1, Inductive, PTL

\* Every polynomial, of any degree, is evaluated as its user wrote it
\* (Axis.cc:61, 161).
THEOREM PolynomialsAreAsWritten == Spec => []PolynomialAsWritten
<1>1. ASSUME IInv PROVE PolynomialAsWritten
  <2> SUFFICES ASSUME NEW d \in Device, given[d] # <<>>, posted[d] # <<>>, fault = "none"
               PROVE  SameFraction(out[d].value,
                        Horner(given[d], LinearPart(axis[d].raw, out[d].raw_value)))
    BY DEF PolynomialAsWritten
  <2> DEFINE x == LinearPart(axis[d].raw, out[d].raw_value)
  <2>1. /\ axis[d] \in AxisRecords /\ given[d] \in Seq(Int) /\ out[d].raw_value \in Int
        /\ axis[d].map_method = "polynomial" /\ axis[d].coefficients = Reverse(given[d])
    BY <1>1 DEF IInv, TypeOK, Programmed
  <2>2. PICK v \in Int : out[d] = Emitted(axis[d], v) /\ out[d].value # Throws
    BY <1>1 DEF IInv, Emits
  <2>3. out[d].value = MapRaw(axis[d], out[d].raw_value)
    BY <2>1, <2>2 DEF Emitted
  <2>4. x \in Fractions
    BY <2>1, LinearTypes DEF AxisRecords
  <2>5. out[d].value = MapValue(axis[d], x)
    BY <2>2, <2>3 DEF MapRaw, Linear
  <2> HIDE DEF x
  <2>6. out[d].value = Horner(given[d], x)
    BY <2>1, <2>4, <2>5, PolynomialIsHorner
  <2>7. Horner(given[d], x) \in Fractions
    BY <2>1, <2>4, HornerIs
  <2>8. \A q \in Fractions : SameFraction(q, q)
    BY DEF SameFraction, Fractions
  <2> QED BY <2>6, <2>7, <2>8 DEF x
<1> QED BY <1>1, Inductive, PTL

=============================================================================
