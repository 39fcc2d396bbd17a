-------------------------------- MODULE Axis --------------------------------
(***************************************************************************)
(* input::Axis as functions on data: an axis is a record                   *)
(* [type, mode, raw, map_method, coefficients], a mapped value a fraction  *)
(* [num, den], and a raw value an integer.                                 *)
(***************************************************************************)
EXTENDS Integers, SequencesExt

Fraction(n, d) == [num |-> n, den |-> d]
Absolute == "absolute"
Relative == "relative"
Other(t) == IF t = Absolute THEN Relative ELSE Absolute

Largest(m, n) == IF m > n THEN m ELSE n
Smallest(m, n) == IF m < n THEN m ELSE n
Magnitude(n) == Largest(n, -n)

\* The exception of map(); 0 / 0, at the maximum of a symmetric range that
\* rests there, is not told apart from it.
Throws == Fraction(0, 0)

RawConfig(neutral, min, max) == [neutral |-> neutral, minimum |-> min, maximum |-> max]

\* The constructors: Axis(RawConfig, ID) and Axis(Type, ID).
LinearAxis(raw) == [type |-> Absolute, mode |-> Absolute, raw |-> raw,
                    map_method |-> "linear", coefficients |-> <<>>]
PlainAxis(t) == [type |-> t, mode |-> t, raw |-> RawConfig(0, 0, 0),
                 map_method |-> "none", coefficients |-> <<>>]

\* A slip in set_coefficients: stored in the order given.
CoefficientsAsGiven(a, list) ==
  [a EXCEPT !.map_method = "polynomial", !.coefficients = list]

set_coefficients(a, list) ==
  [a EXCEPT !.map_method = "polynomial", !.coefficients = Reverse(list)]

\* std::pow(x, n), for a fraction's parts.
Power(n, k) == FoldLeft(LAMBDA r, m : r * m, 1, [i \in 1..k |-> n])

\* map(Value): the sum of coefficients[i - 1] * x^(i - 1), over x.den^degree.
MapValue(a, x) ==
  IF a.map_method # "polynomial" THEN x
  ELSE LET degree == Len(a.coefficients)
           terms == [i \in 1..degree |-> a.coefficients[i] * Power(x.num, i - 1)
                                           * Power(x.den, degree - i + 1)]
       IN Fraction(FoldLeft(+, 0, terms), Power(x.den, degree))

\* The linear part of map(RawValue); with no case for a range whose middle is
\* a neutral value other than zero.
LinearPart(r, v) ==
  LET max == r.maximum - r.neutral
      min == r.minimum - r.neutral
      val == v - r.neutral
  IN CASE r.maximum = -r.minimum \/ r.minimum = r.neutral -> Fraction(val, max)
       [] r.maximum = r.neutral /\ r.maximum # -r.minimum
            /\ r.minimum # r.neutral -> Fraction(val, min)
       [] OTHER -> IF Magnitude(max) # Magnitude(min)
                   THEN Fraction(val, Largest(Magnitude(max), Magnitude(min)))
                   ELSE Throws

\* A slip in it: normalised by the smaller side of a range that is not centred.
LinearBySmaller(r, v) ==
  LET max == r.maximum - r.neutral
      min == r.minimum - r.neutral
  IN IF Magnitude(max) # Magnitude(min) /\ max # 0 /\ min # 0
     THEN Fraction(v - r.neutral, Smallest(Magnitude(max), Magnitude(min)))
     ELSE LinearPart(r, v)

Linear(r, v) == LinearPart(r, v)

MapRaw(a, v) == LET x == Linear(a.raw, v) IN IF x = Throws THEN x ELSE MapValue(a, x)

Clip(r, v) == Smallest(Largest(v, r.minimum), r.maximum)

\* post: first the emulation of the other style, which keeps the last value as
\* the hardware reported it, or as it was emulated before clipping.
Emulated(a, before, v) ==
  IF a.mode = a.type THEN [value |-> v, last |-> before]
  ELSE IF a.mode = Relative THEN [value |-> v - before, last |-> v]
  ELSE [value |-> v + before, last |-> v + before]

\* A slip in it: the clipped value is remembered.
EmulatedClipped(a, before, v) ==
  IF a.mode = a.type THEN [value |-> v, last |-> before]
  ELSE IF a.mode = Relative THEN [value |-> v - before, last |-> v]
  ELSE [value |-> v + before, last |-> Clip(a.raw, v + before)]

\* A slip in it: the hardware's value is not remembered.
EmulatedForgets(a, before, v) ==
  IF a.mode = a.type THEN [value |-> v, last |-> before]
  ELSE IF a.mode = Relative THEN [value |-> v - before, last |-> before]
  ELSE [value |-> v + before, last |-> v + before]

Emulate(a, before, v) == Emulated(a, before, v)

Emitted(a, v) ==
  LET raw == IF a.type = Absolute \/ a.mode = Absolute THEN Clip(a.raw, v) ELSE v
  IN [raw_value |-> raw,
      value |-> IF a.map_method = "none" THEN Fraction(0, 1) ELSE MapRaw(a, raw)]
=============================================================================
